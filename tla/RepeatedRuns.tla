---------------------------- MODULE RepeatedRuns ----------------------------
(***************************************************************************)
(* Repeated runs: the variance harness (variance.py) and the perturbation  *)
(* judge (perturbation.py).                                                *)
(*                                                                         *)
(* A run creates children, waits for the orchestrator to drain them,       *)
(* evaluates what succeeded and aggregates once nothing is in flight.  It  *)
(* is advanced by the request that creates it and by a scheduler job, each *)
(* in a session of its own: a tick works on the rows it read and writes    *)
(* the columns it changed, at every commit on its way.  Both harnesses     *)
(* have the same state machine and differ in the input of their children.  *)
(***************************************************************************)
EXTENDS Naturals, Sequences, FiniteSets, Functions

CONSTANTS RunSetups,    \* the runs a user may ask for
          RunTicks      \* who advances a run: the request ("api") and the job

\* Sizes are numbers, and no transform is the empty one.
ASSUME RunsAssumption ==
  \A s \in RunSetups :
    /\ s.base \in Nat /\ s.per \in Nat /\ s.agents \in Nat /\ s.cap \in Nat
    /\ s.transforms \in Seq(STRING) /\ "clean" \notin Range(s.transforms)

VARIABLES run,          \* the row of the run
          offspring,    \* the tasks created for it, in the order of creation
          tick,         \* what each tick has read and not yet committed
          source,       \* the task that is repeated: "here" or "gone"
          past          \* what happened to the run so far, and bounds

runVars == <<run, offspring, tick, source, past>>

RunTerminal == {"done", "capped", "failed"}
ChildTerminal == {"success", "failed"}   \* success: done or awaiting_approval

\* The inputs of the children by position: all alike for variance, clean ones
\* before perturbed ones, transform by transform, for perturbation.
Total(s) == IF s.kind = "variance" THEN s.base ELSE s.base + Len(s.transforms) * s.per

Plan(s) ==
  [i \in 1..Total(s) |->
     IF i <= s.base THEN "clean" ELSE s.transforms[((i - s.base - 1) \div s.per) + 1]]

Planned == Total(run.setup)

\* The column that lists a child, and all children of a row.
Column(input) == IF input = "clean" THEN "base" ELSE "other"
Listed(r) == r.base \o r.other

\* _load_children: the listed children that still exist.
Loaded(r) == {i \in Range(Listed(r)) : offspring[i].status # "gone"}

\* accumulated_cost: the agents as they were read, the judges as recorded now.
Spent(seen) ==
  Cardinality({i \in DOMAIN seen : seen[i] \in ChildTerminal})
    + Cardinality({i \in DOMAIN seen : offspring[i].judged})

\* inflight_target.
InflightTarget == IF run.setup.parallel THEN run.setup.agents ELSE 1

Idle == [pc |-> "idle", draft |-> <<>>, dirty |-> {}, seen |-> <<>>, loaded |-> {}, left |-> 0,
         from |-> "here"]

\* run_variance, run_perturbation: the row is committed before it is advanced.
RunsInit ==
  /\ \E s \in RunSetups :
       /\ run = [setup |-> s, status |-> "pending", base |-> <<>>, other |-> <<>>, cost |-> 0,
                 report |-> [executed |-> 0, success |-> 0, failed |-> 0]]
       /\ past = [raced |-> FALSE, lost |-> FALSE, deleted |-> FALSE, asked |-> FALSE,
                  faults |-> s.faults, users |-> s.users]
  /\ offspring = <<>>
  /\ tick = [k \in RunTicks |-> Idle]
  /\ source = "here"

-----------------------------------------------------------------------------
(* One tick                                                                *)

\* advance_active_runs selects the row and advance_*_run loads its children.
\* The request advances the run once, as soon as it is stored.
TickReads(k) ==
  /\ tick[k].pc = "idle"
  /\ k \in run.setup.ticks
  /\ run.status \notin RunTerminal
  /\ k = "api" => ~past.asked
  /\ LET ids == Loaded(run) IN
     tick' = [tick EXCEPT ![k] =
       [pc |-> "evaluate", draft |-> run, dirty |-> {}, loaded |-> ids, left |-> 0,
        from |-> source, seen |-> [i \in ids |-> offspring[i].status]]]
  /\ past' = [past EXCEPT !.asked = @ \/ k = "api",
                          !.raced = @ \/ \E j \in RunTicks \ {k} : tick[j].pc # "idle"]
  /\ UNCHANGED <<run, offspring, source>>

\* ensure_child_evaluated of one child that succeeded; its record is committed
\* at once.  Without a judge, or when the judge fails, it is not called.
TickEvaluates(k, i) ==
  /\ tick[k].pc = "evaluate"
  /\ i \in DOMAIN tick[k].seen
  /\ tick[k].seen[i] = "success"
  /\ ~offspring[i].judged
  /\ offspring' = [offspring EXCEPT ![i].judged = TRUE]
  /\ UNCHANGED <<run, tick, source, past>>

\* How many children a tick counts.
Made(t) == Cardinality(t.loaded)

Exceeded(cost) == run.setup.cap > 0 /\ cost >= run.setup.cap

MutFlying(t) == Cardinality({i \in DOMAIN t.seen : t.seen[i] # "success"})

Flying(t) == Cardinality({i \in DOMAIN t.seen : t.seen[i] \notin ChildTerminal})

MutSlotsIgnoreFlying(t) ==
  LET missing == Planned - Made(t) IN
  IF InflightTarget < missing THEN InflightTarget ELSE missing

\* How many children a tick may create: free slots, as far as the plan goes.
Slots(t) ==
  LET free == IF Flying(t) >= InflightTarget THEN 0 ELSE InflightTarget - Flying(t)
      missing == IF Made(t) >= Planned THEN 0 ELSE Planned - Made(t) IN
  IF free < missing THEN free ELSE missing

\* A commit: the columns the session changed replace those of the row.
Committed(draft, dirty) == [f \in DOMAIN run |-> IF f \in dirty THEN draft[f] ELSE run[f]]

\* The columns that a commit of this draft would write.
Dirty(t, draft) == t.dirty \cup {f \in DOMAIN draft : draft[f] # t.draft[f]}

\* Steps 2 and 3: costs below the cap and room for more children.
TickCreates(k) ==
  /\ tick[k].pc = "evaluate"
  /\ LET t == tick[k]
         draft == [t.draft EXCEPT !.cost = Spent(t.seen)] IN
     /\ ~Exceeded(draft.cost)
     /\ Slots(t) > 0
     /\ tick' = [tick EXCEPT ![k] =
          [t EXCEPT !.pc = "create", !.left = Slots(t), !.draft = draft, !.dirty = Dirty(t, draft)]]
  /\ UNCHANGED <<run, offspring, source, past>>

\* _make_child clones the source and commits, and with the clone what the
\* session had changed before; the clone itself is listed after that commit.
\* A variance run that was read without a source uses its spec, which is empty.
Blank(t) == run.setup.kind = "variance" /\ t.from = "gone"

TickClones(k) ==
  /\ tick[k].pc = "create"
  /\ tick[k].left > 0
  /\ source = "here" \/ Blank(tick[k])
  /\ LET t == tick[k]
         new == Len(offspring) + 1
         planned == Plan(run.setup)[Made(t) + 1]
         column == Column(planned) IN
     /\ offspring' = Append(offspring,
          [input |-> IF Blank(t) THEN "blank" ELSE planned,
           status |-> "ready", judged |-> FALSE])
     /\ run' = Committed(t.draft, t.dirty)
     /\ tick' = [tick EXCEPT ![k] =
          [t EXCEPT !.left = @ - 1, !.loaded = @ \cup {new}, !.dirty = {column},
                    !.draft = [t.draft EXCEPT ![column] = Append(@, new)]]]
  /\ UNCHANGED <<source, past>>

\* The last commit of a tick that created children: "let them run".
TickLetsRun(k) ==
  /\ tick[k].pc = "create"
  /\ tick[k].left = 0
  /\ LET t == tick[k]
         draft == [t.draft EXCEPT !.status = "running"] IN
     run' = Committed(draft, Dirty(t, draft))
  /\ tick' = [tick EXCEPT ![k] = Idle]
  /\ UNCHANGED <<offspring, source, past>>

MutReadyToEnd(t, cost) == Exceeded(cost) \/ Made(t) >= Planned

\* Step 4: nothing more will be created and nothing is in flight.
ReadyToEnd(t, cost) ==
  /\ Exceeded(cost) \/ Made(t) >= Planned
  /\ Flying(t) = 0

\* _finalize and _aggregate, or the end of a run that could not create any.
EndOf(t, draft) ==
  LET of(status) == Cardinality({i \in DOMAIN t.seen : t.seen[i] = status}) IN
  IF t.loaded = {} THEN [draft EXCEPT !.status = "failed"]
  ELSE [draft EXCEPT
          !.status = IF Exceeded(draft.cost) /\ Made(t) < Planned THEN "capped" ELSE "done",
          !.report = [executed |-> Made(t), success |-> of("success"), failed |-> of("failed")]]

\* Steps 2 and 4: the tick that creates nothing ends the run or waits.
TickEndsOrWaits(k) ==
  /\ tick[k].pc = "evaluate"
  /\ LET t == tick[k]
         read == [t.draft EXCEPT !.cost = Spent(t.seen)]
         draft == IF ReadyToEnd(t, read.cost) THEN EndOf(t, read)
                  ELSE [read EXCEPT !.status = "running"] IN
     /\ Exceeded(read.cost) \/ Slots(t) = 0
     /\ run' = Committed(draft, Dirty(t, draft))
  /\ tick' = [tick EXCEPT ![k] = Idle]
  /\ UNCHANGED <<offspring, source, past>>

\* A judge, the database or the process fails: what is not committed is lost.
\* The clone of a source that disappeared fails too; for perturbation at every tick.
TickAborts(k) ==
  /\ tick[k].pc # "idle"
  /\ \/ /\ past.faults > 0
        /\ past' = [past EXCEPT !.faults = @ - 1, !.lost = @ \/ tick[k].pc = "create"]
     \/ /\ tick[k].pc = "create" /\ source = "gone" /\ ~Blank(tick[k])
        /\ past' = [past EXCEPT !.lost = TRUE]
  /\ tick' = [tick EXCEPT ![k] = Idle]
  /\ UNCHANGED <<run, offspring, source>>

-----------------------------------------------------------------------------
(* Others                                                                  *)

\* The orchestrator runs a child to its end.
ChildEnds(i) ==
  /\ offspring[i].status = "ready"
  /\ \E s \in ChildTerminal : offspring' = [offspring EXCEPT ![i].status = s]
  /\ UNCHANGED <<run, tick, source, past>>

\* A user moves a child back to the backlog and deletes it.
ChildDeleted(i) ==
  /\ past.users > 0
  /\ offspring[i].status = "ready"
  /\ offspring' = [offspring EXCEPT ![i].status = "gone"]
  /\ past' = [past EXCEPT !.users = @ - 1, !.deleted = TRUE]
  /\ UNCHANGED <<run, tick, source>>

\* A user deletes the source; the foreign key of the run becomes null.
SourceDeleted ==
  /\ past.users > 0
  /\ source = "here"
  /\ source' = "gone"
  /\ past' = [past EXCEPT !.users = @ - 1]
  /\ UNCHANGED <<run, offspring, tick>>

TickStep(k) ==
  \/ TickReads(k) \/ TickCreates(k) \/ TickClones(k) \/ TickLetsRun(k)
  \/ TickEndsOrWaits(k) \/ TickAborts(k)
  \/ \E i \in DOMAIN offspring : TickEvaluates(k, i)

RunsNext ==
  \/ \E k \in RunTicks : TickStep(k)
  \/ \E i \in DOMAIN offspring : ChildEnds(i) \/ ChildDeleted(i)
  \/ SourceDeleted

RunsSpec == RunsInit /\ [][RunsNext]_runVars

\* The job is fired for ever and its calls return; agents end their tasks.
RunsFairness ==
  /\ \A k \in RunTicks : WF_runVars(TickStep(k))
  /\ WF_runVars(\E i \in DOMAIN offspring : ChildEnds(i))

-----------------------------------------------------------------------------
(* Properties                                                              *)

\* Every child is in the list of its run, or about to be: otherwise it would be
\* executed, paid for and never counted.  Only a tick that was cut short or that
\* overlapped the first advance of the request may leave one behind.
ChildrenListed ==
  past.raced \/ past.lost \/
  \A i \in DOMAIN offspring :
    i \in Range(Listed(run)) \/ \E k \in RunTicks : i \in tick[k].loaded

\* The children a run counts are those of its plan, as many of each input, as
\* long as none of them was deleted, nor their source.
PlanKept ==
  past.deleted \/ past.raced \/ past.lost \/ source = "gone" \/
  LET inputs == {"clean"} \cup Range(run.setup.transforms)
      listed == Listed(run)
      planned == SubSeq(Plan(run.setup), 1, Len(listed)) IN
  /\ Len(listed) <= Planned
  /\ \A x \in inputs :
       Cardinality({n \in DOMAIN listed : offspring[listed[n]].input = x})
         = Cardinality({n \in DOMAIN planned : planned[n] = x})

\* Agents in flight never exceed the target, and what the counted agents have
\* cost exceeds the cap by what was in flight when it was reached.
RunLimitsHeld ==
  LET counted(S) == Cardinality({i \in Range(Listed(run)) : offspring[i].status \in S}) IN
  /\ ~past.raced => counted({"ready"}) <= InflightTarget
  /\ run.setup.cap > 0 /\ ~past.raced =>
       counted(ChildTerminal \cup {"ready"}) < run.setup.cap + InflightTarget

\* An ended run reports on settled children only: none of those it counts is
\* still in flight, each has an outcome in the report, and "done" means all.
ReportSettled ==
  run.status \in {"done", "capped"} /\ ~past.raced =>
    /\ \A i \in Range(Listed(run)) : offspring[i].status # "ready"
    /\ run.report.success + run.report.failed = run.report.executed
    /\ run.status = "done" <=> run.report.executed >= Planned

RunsCounted == ChildrenListed /\ PlanKept /\ RunLimitsHeld /\ ReportSettled

\* A run ends, unless it is a perturbation run whose source was deleted.
RunsEnd == (run.status # "none") ~> (run.status \in RunTerminal \/ source = "gone")
=============================================================================
