------------------------------- MODULE Traces -------------------------------
(***************************************************************************)
(* What the quality layer reads of a run, and how it reads it: the log of  *)
(* tool calls (agent_logs.py), the cleaned trace (trace_cleaner.py) and    *)
(* the compatibility view over an attempt journal (projection.py).         *)
(*                                                                         *)
(* A legacy agent announces a call, records it, runs it and records its    *)
(* result in parts; every one of these posts may fail, and the agent goes  *)
(* on.  The journal keeps every event a connector wrote, the sessions      *)
(* interleaved.                                                            *)
(***************************************************************************)
EXTENDS Naturals, Sequences, FiniteSets, SequencesExt, FiniteSetsExt, Functions

CONSTANTS LogTools,     \* names of tools
          MaxLogged,    \* bound: calls of the legacy agent
          MaxJournal    \* bound: events of the journal

VARIABLES trail,        \* events and log chunks in the order in which they arrived
          made,         \* the calls the agent made: [tool, attempt, pinged, parts]
          journal       \* the events of an execution attempt

traceVars == <<trail, made, journal>>

NoTool == "none"

-----------------------------------------------------------------------------
(* The legacy log.  A record of the trail is a lifecycle event, a progress *)
(* ping, a line of the orchestrator or a chunk of a tool's log.  "call" is *)
(* the call's place in "made"; the code does not see it.                   *)

Attempts == Cardinality({i \in DOMAIN trail : trail[i].what = "spawned"})

Spawned == [what |-> "spawned", call |-> 0]
Thought == [what |-> "thought", call |-> 0, text |-> "decision"]
Ping(n, tool) == [what |-> "ping", call |-> n, tool |-> tool, text |-> <<tool, n>>]
Chunk(n, tool, part, total) ==
  [what |-> "chunk", call |-> n, tool |-> tool, id |-> n, part |-> part, total |-> total,
   args |-> part = 0, written |-> part > 0]

\* One call: what of it reaches the server.  "results" parts follow the call
\* record; none follow when the tool hangs or the container dies.
AgentCalls(tool, pinged, results, arrived) ==
  LET n == Len(made) + 1
      chunks == [k \in 1..(results + 1) |->
                   Chunk(n, tool, k - 1, IF k = 1 THEN 1 ELSE results + 1)]
  IN /\ Attempts > 0 /\ n <= MaxLogged
     /\ made' = Append(made, [tool |-> tool, attempt |-> Attempts, pinged |-> pinged,
                              parts |-> arrived, results |-> results])
     /\ trail' = trail \o (IF pinged THEN <<Ping(n, tool)>> ELSE <<>>)
                       \o SelectSeq(chunks, LAMBDA c : c.part \in arrived)
     /\ UNCHANGED journal

\* The orchestrator writes one decision as a reasoning and as a decision event.
OrchestratorDecides ==
  /\ trail = <<>>
  /\ trail' = <<Thought, Thought>>
  /\ UNCHANGED <<made, journal>>

AgentSpawned ==
  /\ Attempts < 2
  /\ trail' = Append(trail, Spawned)
  /\ UNCHANGED <<made, journal>>

-----------------------------------------------------------------------------
(* trace_cleaner.py                                                        *)

\* join_tool_call_parts: consecutive chunks of one id are one call.
Joined(chunks) ==
  FoldLeft(LAMBDA joined, c :
             IF joined # <<>> /\ Last(joined).id = c.id
               THEN [joined EXCEPT ![Len(joined)] =
                       [@ EXCEPT !.parts = @ \cup {c.part}, !.total = Max({@, c.total}),
                                 !.args = @ \/ c.args, !.written = @ \/ c.written]]
               ELSE Append(joined, [id |-> c.id, at |-> c.at, tool |-> c.tool, parts |-> {c.part},
                                    total |-> c.total, args |-> c.args, written |-> c.written]),
           <<>>, chunks)

PartsMissing(entry) == Max({entry.total, Max(entry.parts) + 1}) - Cardinality(entry.parts)

ResultMissing(entry) == entry.total <= 1 /\ ~entry.written

\* The last attempt that was spawned by then.
AttemptOf(spawns, at) == Max({1, Cardinality({t \in spawns : t <= at})})

Step(kind, tool, at, attempt, text, stands) ==
  [kind |-> kind, tool |-> tool, at |-> at, attempt |-> attempt, text |-> text,
   stands |-> stands, echo |-> kind = "agent", gaps |-> 0, lost |-> FALSE]

\* The steps in the order in which they happened.
RawSteps(log) ==
  LET stamped == [i \in DOMAIN log |-> log[i] @@ [at |-> i]]
      spawns == {i \in DOMAIN log : log[i].what = "spawned"}
      Of(r) == IF r.what = "ping"
                 THEN Step("agent", r.tool, r.at, AttemptOf(spawns, r.at), r.text, r.call)
                 ELSE Step("reasoning", NoTool, r.at, AttemptOf(spawns, r.at), r.text, 0)
      events == SelectSeq(stamped, LAMBDA r : r.what \in {"ping", "thought"})
      calls == Joined(SelectSeq(stamped, LAMBDA r : r.what = "chunk"))
      steps == [i \in DOMAIN events |-> Of(events[i])] \o
               [i \in DOMAIN calls |->
                  [Step("tool", calls[i].tool, calls[i].at, AttemptOf(spawns, calls[i].at),
                        <<"output", i>>, calls[i].id)
                     EXCEPT !.gaps = PartsMissing(calls[i]), !.lost = ResultMissing(calls[i])]]
  IN SortSeq(steps, LAMBDA a, b : a.at < b.at)

MutWithoutEchoes(steps) ==
  LET recorded == {<<steps[i].attempt, steps[i].tool>> : i \in {j \in DOMAIN steps : steps[j].kind = "tool"}}
  IN SelectSeq(steps, LAMBDA s : ~(s.echo /\ <<s.attempt, s.tool>> \in recorded))

\* A ping is an echo up to the number of calls of that tool recorded in the attempt.
WithoutEchoes(steps) ==
  LET Key(s) == <<s.attempt, s.tool>>
      recorded == [k \in {Key(steps[i]) : i \in DOMAIN steps} |->
                     Cardinality({i \in DOMAIN steps : steps[i].kind = "tool" /\ Key(steps[i]) = k})]
      sifted == FoldLeft(LAMBDA acc, s :
                  IF s.echo /\ acc.budget[Key(s)] > 0
                    THEN [acc EXCEPT !.budget[Key(s)] = @ - 1]
                    ELSE [acc EXCEPT !.kept = Append(@, s)],
                  [kept |-> <<>>, budget |-> recorded], steps)
  IN sifted.kept

\* One fact written twice in a row is one step, unless it is a tool call.
WithoutRepeats(steps) ==
  FoldLeft(LAMBDA kept, s :
             IF /\ kept # <<>> /\ s.kind # "tool"
                /\ <<s.kind, s.attempt, s.text>> =
                     <<Last(kept).kind, Last(kept).attempt, Last(kept).text>>
               THEN kept ELSE Append(kept, s),
           <<>>, steps)

\* A line ahead of every attempt but the first.
WithBoundaries(steps, attempts) ==
  IF attempts <= 1 THEN steps
  ELSE FoldLeft(LAMBDA marked, s :
         LET current == IF marked = <<>> THEN 0 ELSE Last(marked).attempt
         IN IF s.attempt # current /\ s.attempt > 1
              THEN marked \o <<Step("attempt", NoTool, s.at, s.attempt, "boundary", 0), s>>
              ELSE Append(marked, s),
         <<>>, steps)

\* clean_trajectory.
Cleaned(log) ==
  LET spawns == Cardinality({i \in DOMAIN log : log[i].what = "spawned"})
  IN WithBoundaries(WithoutRepeats(WithoutEchoes(RawSteps(log))), Max({1, spawns}))

-----------------------------------------------------------------------------
(* projection.py: the view over the journal                                *)

\* Tool calls and messages are told apart by session and id, usage by session
\* and usage id; a journal is enumerated for one of the three.
ToolEvents == [what : {"tool"}, session : 1..2, kind : {"start", "delta", "snapshot", "end"}]
MessageEvents == [what : {"message"}, session : 1..2, channel : {"text", "reasoning"},
                  kind : {"delta", "content", "end"}]
UsageEvents == [what : {"usage"}, session : 1..2, mode : {"cumulative", "delta"},
                model : {"none", "m1", "m2"}, tokens : {0, 1}]   \* 0: not measured

JournalWritten ==
  /\ trail = <<>> /\ made = <<>> /\ Len(journal) < MaxJournal
  /\ \E e \in ToolEvents \cup MessageEvents \cup UsageEvents :
       /\ journal # <<>> => e.what = journal[1].what
       /\ e.what # "tool" => Len(journal) < MaxJournal - 1
       /\ journal' = Append(journal, e)
  /\ UNCHANGED <<trail, made>>

MutRowKey(e) == IF e.what = "message" THEN <<1, e.channel>> ELSE <<1>>

RowKey(e) == IF e.what = "message" THEN <<e.session, e.channel>> ELSE <<e.session>>

Row(key, seq, e) ==
  [key |-> key, seq |-> seq, what |-> e.what, updated |-> seq, content |-> <<>>,
   startMissing |-> TRUE, resultMissing |-> TRUE, complete |-> FALSE]

\* What one event does to its row; "at" stands for the text it carries.
Applied(row, e, at) ==
  LET now == [row EXCEPT !.updated = at]
  IN CASE e.kind = "start" -> [now EXCEPT !.startMissing = FALSE]
       [] e.kind = "delta" -> [now EXCEPT !.content = Append(@, at)]
       [] e.kind \in {"snapshot", "content"} -> [now EXCEPT !.content = <<at>>]
       [] e.kind = "end" /\ e.what = "tool" ->
            [now EXCEPT !.content = <<at>>, !.resultMissing = FALSE]
       [] OTHER -> [now EXCEPT !.complete = TRUE]

\* project_log: one row for a call or a message, at the place of its first event.
\* What a message reasons is its reasoning and not its content.
ProjectLog(events) ==
  FoldLeft(LAMBDA rows, i :
             LET e == events[i]
                 found == {r \in DOMAIN rows : rows[r].key = RowKey(e)}
             IN IF found = {}
                  THEN Append(rows, Applied(Row(RowKey(e), i, e), e, i))
                  ELSE [rows EXCEPT ![Max(found)] = Applied(@, e, i)],
           <<>>, [i \in DOMAIN events |-> i])

\* summarize_usage.  A measurement nobody made stays unknown in every sum: 0
\* stands for it here.
KnownSum(f) == IF \E k \in DOMAIN f : f[k] = 0 THEN 0 ELSE SumFunction(f)

MutEntryAfter(previous, e) ==
  [e EXCEPT !.tokens = IF e.mode = "delta" THEN KnownSum(<<previous.tokens, e.tokens>>) ELSE e.tokens]

EntryAfter(previous, e) ==
  [e EXCEPT !.tokens = IF e.mode = "delta" THEN KnownSum(<<previous.tokens, e.tokens>>) ELSE e.tokens,
            !.model = IF e.model = "none" THEN previous.model ELSE e.model]

UsageConflict(previous, e) ==
  \/ previous.mode # e.mode
  \/ previous.model # "none" /\ e.model # "none" /\ previous.model # e.model

Entries(events) ==
  FoldLeft(LAMBDA acc, e :
             IF acc.conflict THEN acc
             ELSE IF e.session \notin DOMAIN acc.of
               THEN [acc EXCEPT !.of = @ @@ [s \in {e.session} |-> e]]
             ELSE IF UsageConflict(acc.of[e.session], e) THEN [acc EXCEPT !.conflict = TRUE]
             ELSE [acc EXCEPT !.of[e.session] = EntryAfter(@, e)],
           [of |-> <<>>, conflict |-> FALSE], events)

SummarizeUsage(events) ==
  LET entries == Entries(events)
      of == IF entries.conflict THEN <<>> ELSE entries.of
      models == {of[s].model : s \in DOMAIN of}
  IN [invalid |-> entries.conflict,
      calls |-> Cardinality(DOMAIN of),
      total |-> IF of = <<>> THEN 0 ELSE KnownSum([s \in DOMAIN of |-> of[s].tokens]),
      groups |-> [m \in models |-> KnownSum([s \in {k \in DOMAIN of : of[k].model = m} |-> of[s].tokens])]]

\* load_attempt_view: what of the tools' record is complete.
ObservedTools(rows) ==
  LET calls == SelectSeq(rows, LAMBDA r : r.what = "tool")
  IN IF \E r \in DOMAIN calls : calls[r].startMissing \/ calls[r].resultMissing THEN "incomplete"
     ELSE IF calls # <<>> THEN "complete" ELSE "none_observed"

-----------------------------------------------------------------------------
TracesInit == trail = <<>> /\ made = <<>> /\ journal = <<>>

TracesNext ==
  \/ journal = <<>> /\ (OrchestratorDecides \/ AgentSpawned)
  \/ \E tool \in LogTools, pinged \in BOOLEAN, results \in 0..2 :
       \E arrived \in SUBSET (0..results) : AgentCalls(tool, pinged, results, arrived)
  \/ JournalWritten

-----------------------------------------------------------------------------
(* Properties                                                              *)

\* The calls of tool t in attempt a that left a trace: recorded, announced.
Recorded(a, t) == {n \in DOMAIN made : made[n].attempt = a /\ made[n].tool = t /\ made[n].parts # {}}
Announced(a, t) == {n \in DOMAIN made : made[n].attempt = a /\ made[n].tool = t /\ made[n].pinged}

\* Every recorded call is one tool step of its attempt, however many parts it came
\* in, and a step that lost parts of its result says so.  The calls of a tool are
\* never told oftener than they left a trace, and as often unless one of them lost
\* its announcement and another its record.  An announcement without a record stays
\* if there are no more records than announcements ahead of it.  It need not stay
\* otherwise: announcements are counted against records and not matched with them,
\* so the only trace of a call may be dropped as the echo of another.
CallsToldOnce ==
  LET steps == Cleaned(trail)
      Told(a, t) == {i \in DOMAIN steps : steps[i].attempt = a /\ steps[i].tool = t}
  IN /\ \A a \in 1..2, t \in LogTools :
          LET tools == {i \in Told(a, t) : steps[i].kind = "tool"}
              rec == Recorded(a, t)
              ann == Announced(a, t)
          IN /\ {steps[i].stands : i \in tools} = rec /\ Cardinality(tools) = Cardinality(rec)
             /\ Cardinality(Told(a, t)) <= Cardinality(rec \cup ann)
             /\ rec \subseteq ann \/ ann \subseteq rec =>
                  Cardinality(Told(a, t)) = Cardinality(rec \cup ann)
             /\ \A n \in ann \ rec :
                  Cardinality(rec) <= Cardinality({m \in ann : m < n}) =>
                    \E i \in Told(a, t) : steps[i].stands = n
     /\ \A i \in DOMAIN steps : steps[i].kind = "tool" =>
          LET call == made[steps[i].stands]
          IN ~steps[i].lost /\ steps[i].gaps = 0 => call.parts = 0..call.results

\* A retry reads as a retry: steps of one attempt stand together, a line stands
\* ahead of the first step of every later one, and what was decided once is one
\* step.
RetriesTold ==
  LET steps == Cleaned(trail)
  IN /\ \A i \in 1..(Len(steps) - 1) : steps[i].attempt <= steps[i + 1].attempt
     /\ \A i \in DOMAIN steps : steps[i].attempt > 1 =>
          Cardinality({j \in 1..i : steps[j].kind = "attempt" /\ steps[j].attempt = steps[i].attempt}) = 1
     /\ Cardinality({i \in DOMAIN steps : steps[i].kind = "reasoning"})
          = IF \E i \in DOMAIN trail : trail[i].what = "thought" THEN 1 ELSE 0

\* However the sessions interleave, every call and message has one row, with what
\* its own session wrote and nothing of another.
SessionsApart ==
  LET rows == ProjectLog(journal)
      Mine(s) == SelectSeq(journal, LAMBDA e : e.session = s)
      Shape(r) == <<r.key, Len(r.content), r.startMissing, r.resultMissing, r.complete>>
      Of(s) == SelectSeq(rows, LAMBDA r : r.key[1] = s)
  IN journal # <<>> /\ journal[1].what # "usage" =>
       /\ \A s \in 1..2 : LET alone == ProjectLog(Mine(s))
                          IN /\ Len(alone) = Len(Of(s))
                             /\ \A r \in DOMAIN alone : Shape(alone[r]) = Shape(Of(s)[r])
       /\ ObservedTools(rows) = "complete" =>
            \A s \in {journal[i].session : i \in DOMAIN journal} :
              {"start", "end"} \subseteq {journal[i].kind : i \in {j \in DOMAIN journal : journal[j].session = s}}

\* Usage that is known is told once: the groups add up to the total, and both are
\* unknown as soon as one call left its tokens out.
UsageAddsUp ==
  LET usage == SummarizeUsage(journal)
      Samples(s) == SelectSeq(journal, LAMBDA e : e.session = s)
      Measured(s) == IF \A i \in DOMAIN Samples(s) : Samples(s)[i].mode = "delta"
                       THEN KnownSum([i \in DOMAIN Samples(s) |-> Samples(s)[i].tokens])
                       ELSE Last(Samples(s)).tokens
      sessions == {journal[i].session : i \in DOMAIN journal}
  IN journal # <<>> /\ journal[1].what = "usage" /\ ~usage.invalid =>
       /\ usage.total = KnownSum([s \in sessions |-> Measured(s)])
       /\ usage.total # 0 => usage.total = SumFunction(usage.groups)
       /\ \A s \in sessions : \A i \in DOMAIN Samples(s) :
            Samples(s)[i].model # "none" => Samples(s)[i].model \in DOMAIN usage.groups

TracesSound == CallsToldOnce /\ RetriesTold /\ SessionsApart /\ UsageAddsUp
=============================================================================
