------------------------------- MODULE Reports -------------------------------
(***************************************************************************)
(* What an experiment's report makes of its runs (experiment_report.py):   *)
(* who is counted, how far a judged axis may be trusted and what that      *)
(* licenses, how two configurations are compared, what the tables hold and *)
(* which configurations changed under the experiment.                      *)
(*                                                                         *)
(* A run carries the axes of its two judged profiles.  Outcome axes are x  *)
(* and y, trajectory axes are "goal" and "loop"; Nothing is a score that   *)
(* was not given.                                                          *)
(***************************************************************************)
EXTENDS Statistics

VARIABLE report            \* the part of the report this behaviour is about

Nothing == -1
Known(xs) == SelectSeq(xs, LAMBDA x : x # Nothing)

\* _mean, _median (twice): of what is known.
Mean(xs) ==
  IF Known(xs) = <<>> THEN Undefined ELSE Quotient(Total(Known(xs)), Len(Known(xs)))
Median(xs) ==
  LET up == SortSeq(Known(xs), <)
      n == Len(up)
  IN IF n = 0 THEN Nothing ELSE up[(n + 1) \div 2] + up[n \div 2 + 1]

Field(runs, f) == [i \in DOMAIN runs |-> runs[i][f]]

-----------------------------------------------------------------------------
(* Who is counted                                                          *)

Settled(run) == run.status \in {"success", "failed", "skipped"}
HasEnded(run) == run.status \in {"success", "failed"}

\* Runs the infrastructure decided are no measurement.
Measured(runs) == SelectSeq(runs, LAMBDA r : ~r.tainted)

Exclusions(runs) ==
  [c \in {runs[i].config : i \in {j \in DOMAIN runs : runs[j].tainted}} |->
     Len(SelectSeq(runs, LAMBDA r : r.tainted /\ r.config = c))]

Of(runs, c) == SelectSeq(runs, LAMBDA r : r.config = c)
Successes(runs) == SelectSeq(runs, LAMBDA r : r.status = "success")

-----------------------------------------------------------------------------
(* One run                                                                 *)

Weight == [x |-> 2, y |-> 1]

\* _trusted_weighted: over the axes that may carry a number, renormalised.
TrustedWeighted(run, allowed) ==
  LET in == {d \in allowed : run.dims[d] # Nothing} IN
  IF in = {} THEN Undefined
  ELSE Quotient(MapThenSumSet(LAMBDA d : Weight[d] * run.dims[d], in),
                MapThenSumSet(LAMBDA d : Weight[d], in))

EveryAxis == {"goal", "loop"}

MutTrajScore(run, allowed, restricted) ==
  LET in == {a \in allowed : run.axes[a] # Nothing} IN
  IF in # {} THEN Quotient(MapThenSumSet(LAMBDA a : run.axes[a], in), Cardinality(in))
  ELSE IF run.stored = Nothing THEN Undefined ELSE Quotient(run.stored, 1)

\* _traj_score: a restriction leaves no way back to the overall score that was stored.
TrajScore(run, allowed, restricted) ==
  LET in == {a \in allowed : run.axes[a] # Nothing} IN
  IF in # {} THEN Quotient(MapThenSumSet(LAMBDA a : run.axes[a], in), Cardinality(in))
  ELSE IF restricted \/ run.stored = Nothing THEN Undefined ELSE Quotient(run.stored, 1)

\* _judge_loop_verdict: a judge that gave no score said nothing.
JudgeLoopVerdict(run) ==
  IF run.axes["loop"] = Nothing THEN "silent" ELSE IF run.axes["loop"] < 5 THEN "loop" ELSE "clean"

-----------------------------------------------------------------------------
(* How far an axis is trusted                                              *)

\* _binary_kappa of two raters of the same runs.
BinaryKappa(both, first, second, neither) ==
  LET n == both + first + second + neither
      likely == (both + first) * (both + second) + (second + neither) * (first + neither)
  IN IF n = 0 \/ likely >= n * n THEN Undefined
     ELSE Quotient(n * (both + neither) - likely, n * n - likely)

NumericTrust == {"reliable_absolute", "moderate_agreement"}
RankTrust == NumericTrust \cup {"rank_only"}

MutClassifyReliability(kappa, n, sourced, rho, binary) ==
  IF ~sourced THEN "not_calibrated"
  ELSE IF ~Defined(kappa) \/ n < MinSamples THEN "insufficient"
  ELSE IF 10 * kappa.num >= 6 * kappa.den THEN "reliable_absolute"
  ELSE IF 10 * kappa.num >= 4 * kappa.den THEN IF binary THEN "binary_only" ELSE "moderate_agreement"
  ELSE IF rho >= 50 THEN "rank_only" ELSE "unreliable"

\* _classify_reliability, rho in percent: agreement on a yes or no licenses no score.
ClassifyReliability(kappa, n, sourced, rho, binary) ==
  IF ~sourced THEN "not_calibrated"
  ELSE IF ~Defined(kappa) \/ n < MinSamples THEN "insufficient"
  ELSE IF binary THEN IF 10 * kappa.num >= 4 * kappa.den THEN "binary_only" ELSE "unreliable"
  ELSE IF 10 * kappa.num >= 6 * kappa.den THEN "reliable_absolute"
  ELSE IF 10 * kappa.num >= 4 * kappa.den THEN "moderate_agreement"
  ELSE IF rho >= 50 THEN "rank_only" ELSE "unreliable"

Nobody == [source |-> "none", status |-> "not_calibrated"]
ByPeople(d) ==
  [source |-> "human", status |-> ClassifyReliability(d.kappa, d.n, TRUE, d.rho, FALSE)]

\* _axis_reliability: people first, when there are enough of them; for the loop axis
\* the deterministic counter, if it ran.
AxisReliability(people, counted) ==
  [a \in EveryAxis |->
     LET rated == a \in DOMAIN people
         counter == [source |-> "structural",
                     status |-> ClassifyReliability(counted.kappa, counted.paired, TRUE, 0, TRUE)]
     IN IF rated /\ people[a].n >= MinSamples THEN ByPeople(people[a])
        ELSE IF a = "loop" /\ counted.ran /\ counted.paired >= MinSamples THEN counter
        ELSE IF rated THEN ByPeople(people[a])
        ELSE IF a = "loop" /\ counted.ran THEN counter ELSE Nobody]

\* _outcome_axis_reliability: of the axes people rated; no other has a source.
OutcomeReliability(people) == [d \in DOMAIN people \ EveryAxis |-> ByPeople(people[d])]

\* _trust_split
Numeric(trust) == {k \in DOMAIN trust : trust[k].status \in NumericTrust}
Ranked(trust) == {k \in DOMAIN trust : trust[k].status \in RankTrust}

-----------------------------------------------------------------------------
(* Comparing two configurations on the cases both have, case -> value      *)

InCommon(a, b) == SetToSortSeq(DOMAIN a \cap DOMAIN b, <)
Differences(a, b) == [i \in DOMAIN InCommon(a, b) |-> a[InCommon(a, b)[i]] - b[InCommon(a, b)[i]]]
Values(cells) == LET cases == SetToSortSeq(DOMAIN cells, <) IN [i \in DOMAIN cases |-> cells[cases[i]]]

Omitted == [design |-> "none", primary |-> "none"]

\* The first of the tests that can run, in order.
Primary(tests) ==
  LET able == SelectSeq(tests, LAMBDA t : t[2]) IN
  IF able = <<>> THEN "none" ELSE able[1][1]

MutCompared(diffs, va, vb, rankOnly, margin) ==
  LET primary == Primary(<<<<"paired_t", ~rankOnly /\ Defined(PairedT(diffs).square)>>,
                           <<"welch", ~rankOnly /\ Defined(Welch(va, vb).square)>>,
                           <<"mann_whitney", MannWhitney(va, vb).u >= 0>>>>)
  IN IF primary = "none" THEN Omitted
     ELSE [design |-> IF primary = "paired_t" THEN "paired" ELSE "unpaired", primary |-> primary,
           sign |-> SignTest(diffs), square |-> PairedT(diffs).square,
           effect |-> PairedEffect(diffs), mde |-> PairedPower(diffs).mde,
           equivalence |-> Tost(diffs, margin)]

\* _compare_cells: the design is the experiment's, whatever tests can run; an axis
\* that only orders is given a verdict by signs or ranks and no size of anything.
Compared(diffs, va, vb, rankOnly, margin) ==
  LET paired == Len(diffs) >= MinSamples
      sized == ~rankOnly /\ paired
      primary == Primary(
        IF paired
        THEN <<<<"paired_t", ~rankOnly /\ Defined(PairedT(diffs).square)>>,
               <<"sign", Defined(SignTest(diffs).p)>>,
               <<"identical", \A i \in DOMAIN diffs : diffs[i] = 0>>>>
        ELSE <<<<"welch", ~rankOnly /\ Defined(Welch(va, vb).square)>>,
               <<"mann_whitney", MannWhitney(va, vb).u >= 0>>>>)
  IN IF primary = "none" THEN Omitted
     ELSE [design |-> IF paired THEN "paired" ELSE "unpaired", primary |-> primary,
           sign |-> SignTest(diffs),
           square |-> IF rankOnly THEN Undefined
                      ELSE IF paired THEN PairedT(diffs).square ELSE Welch(va, vb).square,
           effect |-> IF sized THEN PairedEffect(diffs) ELSE Undefined,
           mde |-> IF rankOnly THEN Undefined
                   ELSE IF paired THEN PairedPower(diffs).mde ELSE UnpairedPower(va, vb).mde,
           equivalence |-> IF sized THEN Tost(diffs, margin) ELSE "undefined"]

CompareCells(a, b, rankOnly, margin) ==
  Compared(Differences(a, b), Values(a), Values(b), rankOnly, margin)

\* significance_matrix: q-values within a family; a test is significant by its
\* q-value (one part in twenty of "one").
Corrected(rows, one) ==
  LET In(f) == SelectSeq([i \in DOMAIN rows |-> i], LAMBDA i : rows[i].family = f)
      q(f) == BenjaminiHochberg([k \in DOMAIN In(f) |-> rows[In(f)[k]].p], one)
      Place(f, i) == CHOOSE k \in DOMAIN In(f) : In(f)[k] = i
  IN [i \in DOMAIN rows |->
        LET f == rows[i].family IN
        [q |-> q(f)[Place(f, i)], of |-> Len(In(f)),
         significant |-> 20 * q(f)[Place(f, i)] < one * Whole(Len(In(f))),
         uncorrected |-> 20 * rows[i].p < one]]

\* pareto_frontier: as good everywhere and better somewhere; a cost that is not known
\* counts as none.
Free(q) == IF Defined(q) THEN q ELSE Quotient(0, 1)
Atleast(p, q) ==
  /\ AtMost(q.quality, p.quality) /\ AtMost(Free(p.cost), Free(q.cost))
  /\ AtMost(Free(p.effort), Free(q.effort))

MutDominates(p, q) == Atleast(p, q)

Dominates(p, q) == Atleast(p, q) /\ ~Atleast(q, p)

ParetoFrontier(points) ==
  LET valid == {c \in DOMAIN points : Defined(points[c].quality)} IN
  {c \in valid : ~\E d \in valid \ {c} : Dominates(points[d], points[c])}

-----------------------------------------------------------------------------
(* The tables, each over the runs of one configuration or of all            *)

Add(p, q) == Quotient(p.num * q.den + q.num * p.den, p.den * q.den)
Average(qs) ==
  LET known == SelectSeq(qs, Defined)
      sum == FoldLeft(Add, Quotient(0, 1), known)
  IN IF known = <<>> THEN Undefined ELSE Quotient(sum.num, sum.den * Len(known))

\* _significance_cells: repeated runs of a case are one observation, their mean.
MetricCells(runs, c) ==
  LET of == SelectSeq(Successes(runs), LAMBDA r : r.config = c /\ r.score # Nothing) IN
  [k \in {of[i].case : i \in DOMAIN of} |->
     Mean(Field(SelectSeq(of, LAMBDA r : r.case = k), "score"))]

\* _group_means, and the counts of the summary.
GroupMeans(runs) ==
  LET ok == Successes(runs)
      ended == SelectSeq(runs, HasEnded)
  IN [ended |-> Len(ended), success |-> Len(ok), failed |-> Len(ended) - Len(ok),
      rate |-> Wilson(Len(ok), Len(ended)),
      quality |-> Mean(Field(ok, "score")),
      trajectory |-> Average([i \in DOMAIN ok |-> TrajScore(ok[i], EveryAxis, FALSE)]),
      cost |-> Mean(Field(ended, "cost")),
      tokens |-> Mean(Field(ended, "tokens"))]

\* The heatmap over the outcome axes: of successes only, as the summary's quality.
Heatmap(runs) ==
  LET ok == Successes(runs) IN [d \in DOMAIN Weight |-> Mean([i \in DOMAIN ok |-> ok[i].dims[d]])]

\* The heatmap over the trajectory axes; its overall score wants a stored one.
TrajectoryHeatmap(runs) ==
  LET ok == Successes(runs)
      kept == SelectSeq(ok, LAMBDA r : r.stored # Nothing)
  IN [cells |-> [a \in EveryAxis |-> Mean([i \in DOMAIN ok |-> ok[i].axes[a]])],
      overall |-> Average([i \in DOMAIN kept |-> TrajScore(kept[i], EveryAxis, FALSE)])]

\* Effort: a run's tokens over the median of its case, so that hard cases do not
\* make a configuration look wasteful; the mean of these is shown.
RelativeEffort(runs, c) ==
  LET counted == SelectSeq(runs, LAMBDA r : HasEnded(r) /\ r.tokens # Nothing)
      Typical(k) == Median(Field(SelectSeq(counted, LAMBDA r : r.case = k), "tokens"))
      of == SelectSeq(counted, LAMBDA r : r.config = c /\ Typical(r.case) > 0)
  IN [i \in DOMAIN of |-> Quotient(2 * of[i].tokens, Typical(of[i].case))]

\* The gate's pass rate: over whatever carries a verdict, failed runs too; refusals
\* of a provider are counted beside.
Gate(runs) ==
  [n |-> Len(SelectSeq(runs, LAMBDA r : r.gate # "none")),
   passed |-> Len(SelectSeq(runs, LAMBDA r : r.gate = "passed")),
   uncertifiable |-> Len(SelectSeq(runs, LAMBDA r : r.gate = "uncertifiable"))]

MutLoops(all) ==
  LET runs == SelectSeq(all, LAMBDA r : r.judged)
      counter == SelectSeq(runs, LAMBDA r : r.counter # "none")
      Both(j, c) == Len(SelectSeq(counter, LAMBDA r : /\ (JudgeLoopVerdict(r) = "loop") = (j = "loop")
                                              /\ r.counter = c))
  IN [scored |-> Len(runs),
      judged |-> Len(SelectSeq(runs, LAMBDA r : JudgeLoopVerdict(r) # "silent")),
      looping |-> Len(SelectSeq(runs, LAMBDA r : JudgeLoopVerdict(r) = "loop")),
      counted |-> Len(counter), repeats |-> Len(SelectSeq(counter, LAMBDA r : r.counter = "loop")),
      both |-> Both("loop", "loop"), judge |-> Both("loop", "clean"),
      counter |-> Both("clean", "loop"), neither |-> Both("clean", "clean")]

\* Loop detection: a run enters the table only when both have answered.
Loops(all) ==
  LET runs == SelectSeq(all, LAMBDA r : r.judged)
      counter == SelectSeq(runs, LAMBDA r : r.counter # "none")
      Both(j, c) == Len(SelectSeq(counter, LAMBDA r : JudgeLoopVerdict(r) = j /\ r.counter = c))
  IN [scored |-> Len(runs),
      judged |-> Len(SelectSeq(runs, LAMBDA r : JudgeLoopVerdict(r) # "silent")),
      looping |-> Len(SelectSeq(runs, LAMBDA r : JudgeLoopVerdict(r) = "loop")),
      counted |-> Len(counter), repeats |-> Len(SelectSeq(counter, LAMBDA r : r.counter = "loop")),
      both |-> Both("loop", "loop"), judge |-> Both("loop", "clean"),
      counter |-> Both("clean", "loop"), neither |-> Both("clean", "clean")]

LoopKappa(t) == BinaryKappa(t.both, t.judge, t.counter, t.neither)

\* Longitudinal: settled runs by repetition.
Longitudinal(runs) ==
  LET settled == SelectSeq(runs, Settled) IN
  [i \in {settled[k].index : k \in DOMAIN settled} |->
     LET at == SelectSeq(settled, LAMBDA r : r.index = i) IN
     [n |-> Len(at), quality |-> Mean(Field(Successes(at), "score")),
      cost |-> Mean(Field(at, "cost"))]]

\* Human feedback and checker_human: whoever was rated, whatever became of the run.
People(runs) ==
  LET Pair(e, h) == Len(SelectSeq(runs, LAMBDA r : r.external = e /\ r.human = h)) IN
  [rated |-> Len(SelectSeq(runs, LAMBDA r : r.human # "none")),
   kappa |-> BinaryKappa(Pair("pass", "approve"), Pair("pass", "reject"),
                         Pair("fail", "approve"), Pair("fail", "reject")),
   n |-> Pair("pass", "approve") + Pair("pass", "reject") + Pair("fail", "approve")
           + Pair("fail", "reject")]

\* _cost_row: what is known is summed, what is not is counted.
CostRow(runs) ==
  LET settled == SelectSeq(runs, Settled)
      agent == Total(Known(Field(settled, "cost")))
      judges == Total(Field(settled, "judges"))
  IN [agent |-> agent, judges |-> judges, total |-> agent + judges,
      unknown |-> Len(SelectSeq(settled, LAMBDA r : r.cost = Nothing)), settled |-> Len(settled)]

\* _judge_scores, _discrimination_for: does the judge tell the checker's passes
\* from its failures, whatever the threshold?
JudgeScores(runs, verdict) ==
  Field(SelectSeq(runs, LAMBDA r : r.external = verdict /\ r.score # Nothing), "score")

Discrimination(runs) ==
  LET passed == JudgeScores(runs, "pass")
      failed == JudgeScores(runs, "fail")
  IN [passes |-> Len(passed), fails |-> Len(failed), auc |-> Auc(passed, failed),
      onPass |-> Median(passed), onFail |-> Median(failed)]

\* _rq2_for: checker against judge at one threshold.
Rq2(runs, threshold) ==
  LET Cell(e, high) == Len(SelectSeq(JudgeScores(runs, e), LAMBDA s : (s >= threshold) = high)) IN
  [passHigh |-> Cell("pass", TRUE), passLow |-> Cell("pass", FALSE),
   failHigh |-> Cell("fail", TRUE), failLow |-> Cell("fail", FALSE)]

\* The trusted view: what the axes that cleared the gate say of a configuration.
TrustedMeans(runs, outcome, trajectory) ==
  LET ok == Successes(runs) IN
  [quality |-> Average([i \in DOMAIN ok |-> TrustedWeighted(ok[i], outcome)]),
   trajectory |-> Average([i \in DOMAIN ok |-> TrajScore(ok[i], trajectory, TRUE)])]

ReasonsPerClass == 3       \* bound of the code

\* Failure modes: of a class, reasons of different text, the surest first.
Reasons(items) ==
  LET told == SelectSeq(items, LAMBDA f : f.reason # "none")
      Before(f, g) == f.confidence > g.confidence
      sorted == SortSeq(told, Before)
      fresh == SelectSeq([i \in DOMAIN sorted |-> i],
                         LAMBDA i : \A j \in 1..(i - 1) : sorted[j].reason # sorted[i].reason)
      kept == SubSeq(fresh, 1, Min({ReasonsPerClass, Len(fresh)}))
  IN [k \in DOMAIN kept |-> sorted[kept[k]]]

-----------------------------------------------------------------------------
(* Configurations that are not what they were                              *)

MutConfigDrift(executions, pinned, now) ==
  [changed |-> {f \in DOMAIN pinned : pinned[f] # now[f]}, split |-> {}, cores |-> {}]

\* config_drift: the pin against the present, where both are known; the executions
\* of one case against each other; and their cores across the cases.
ConfigDrift(executions, pinned, now) ==
  LET Full(k) == {executions[i].full : i \in {j \in DOMAIN executions : executions[j].case = k}}
      cases == {executions[i].case : i \in DOMAIN executions}
      cores == {executions[i].core : i \in DOMAIN executions}
      Unknown(f, v) == f = "image" /\ v = Nothing
  IN [changed |-> {f \in DOMAIN pinned : /\ pinned[f] # now[f]
                                         /\ ~Unknown(f, pinned[f]) /\ ~Unknown(f, now[f])},
      split |-> {k \in cases : Cardinality(Full(k)) > 1},
      cores |-> IF Cardinality(cores) > 1 THEN cores ELSE {}]

Drifted(d) == d.changed # {} \/ d.split # {} \/ d.cores # {}

-----------------------------------------------------------------------------
(* The inputs                                                              *)

Run == [config |-> "a", case |-> 1, index |-> 0, status |-> "success", tainted |-> FALSE,
        score |-> 7, dims |-> [x |-> 8, y |-> 5], judged |-> TRUE, stored |-> 6,
        axes |-> [goal |-> 7, loop |-> 6], counter |-> "clean", external |-> "pass",
        human |-> "approve", gate |-> "passed", cost |-> 3, judges |-> 1, tokens |-> 4]
Unjudged == [Run EXCEPT !.score = Nothing, !.dims = [x |-> Nothing, y |-> Nothing], !.judged = FALSE,
             !.stored = Nothing, !.axes = [goal |-> Nothing, loop |-> Nothing], !.counter = "none",
             !.external = "none", !.human = "none", !.gate = "none"]
RunReadings ==
  <<Run,
    [Run EXCEPT !.config = "b", !.score = 4, !.dims = [x |-> 5, y |-> 2], !.axes = [goal |-> 4, loop |-> 2],
                !.stored = 3, !.counter = "loop", !.external = "fail", !.human = "reject",
                !.cost = Nothing, !.tokens = 8],
    [Run EXCEPT !.config = "b", !.tainted = TRUE, !.score = 2, !.dims = [x |-> 2, y |-> 2],
                !.external = "fail", !.counter = "loop"],
    [Run EXCEPT !.status = "failed", !.axes = [goal |-> 9, loop |-> Nothing], !.stored = 9,
                !.external = "fail", !.gate = "uncertifiable", !.tokens = 2],
    [Unjudged EXCEPT !.status = "skipped", !.index = 1, !.cost = Nothing, !.tokens = Nothing],
    [Run EXCEPT !.config = "b", !.index = 1, !.score = 5, !.dims = [x |-> 5, y |-> Nothing],
                !.axes = [goal |-> Nothing, loop |-> 3], !.stored = 3, !.gate = "failed"],
    [Run EXCEPT !.case = 2, !.index = 1, !.judged = FALSE, !.counter = "none",
                !.axes = [goal |-> Nothing, loop |-> Nothing], !.stored = Nothing,
                !.external = "none", !.tokens = 6, !.human = "none"],
    [Unjudged EXCEPT !.config = "b", !.status = "failed", !.external = "pass", !.cost = 5]>>
Populations ==
  {[i \in DOMAIN picked |-> RunReadings[picked[i]]] : picked \in Ascending(DOMAIN RunReadings, 1, 4)}

KappaReadings == {Undefined, Quotient(-1, 2), Quotient(3, 10), Quotient(4, 10), Quotient(6, 10), Quotient(1, 1)}
PeopleReadings == [kappa : KappaReadings, n : {2, 3}, rho : {30, 50}]
CounterReadings == [ran : BOOLEAN, paired : {0, 3}, kappa : {Undefined, Quotient(3, 10), Quotient(1, 1)}]

CellReadings ==
  (Ascending(0..2, 4, 4) \X [1..4 -> 0..2]) \cup (Ascending(0..2, 3, 3) \X [2..5 -> 0..2])

PointReadings ==
  [quality : {Undefined, Quotient(1, 1), Quotient(2, 1)}, cost : {Undefined, Quotient(2, 1)},
   effort : {Quotient(1, 1), Quotient(2, 1)}]

Executions == UNION {[1..n -> [case : 1..2, core : 1..2, tools : 1..2]] : n \in 0..3}

ReportsInit == report \in {"tables", "trust", "comparison", "corrections", "frontier", "drift"}

-----------------------------------------------------------------------------
(* Properties                                                              *)

TwoConfigs == {"a", "b"}
AddsUp(whole, part) ==
  \A f \in DOMAIN whole : whole[f] = MapThenSumSet(LAMBDA c : part[c][f], TwoConfigs)
Vary(runs, d) == [i \in DOMAIN runs |-> [runs[i] EXCEPT !.dims[d] = 10, !.axes["loop"] = 10, !.stored = 10]]
Harder(runs) == [i \in DOMAIN runs |->
  IF runs[i].case = 1 /\ runs[i].tokens # Nothing THEN [runs[i] EXCEPT !.tokens = 5 * @] ELSE runs[i]]

\* The tables are of one population: who is not counted is named, configurations
\* add up to the whole, the same runs are split at every threshold, a run whose
\* judge was silent says nothing about agreement, a threshold that tells all passes
\* from all failures exists exactly if the ranking does, and repetitions are all
\* there.
TablesLaw(runs, m, loops, rq, d) ==
  /\ Len(m) + MapThenSumSet(LAMBDA c : Exclusions(runs)[c], DOMAIN Exclusions(runs)) = Len(runs)
  /\ AddsUp(loops, [c \in TwoConfigs |-> Loops(Of(m, c))])
  /\ AddsUp(Gate(m), [c \in TwoConfigs |-> Gate(Of(m, c))])
  /\ AddsUp(CostRow(m), [c \in TwoConfigs |-> CostRow(Of(m, c))])
  /\ AddsUp(rq[6], [c \in TwoConfigs |-> Rq2(Of(m, c), 6)])
  /\ loops.both + loops.judge + loops.counter + loops.neither <= Min({loops.judged, loops.counted})
  /\ LoopKappa(loops) = LoopKappa(Loops(SelectSeq(m, LAMBDA r : r.axes["loop"] # Nothing)))
  /\ \A t \in 0..10 :
       /\ rq[t].passHigh + rq[t].passLow = d.passes /\ rq[t].failHigh + rq[t].failLow = d.fails
       /\ t > 0 => rq[t].passHigh <= rq[t - 1].passHigh /\ rq[t].failHigh <= rq[t - 1].failHigh
  /\ Defined(d.auc) =>
       ((d.auc.num = d.auc.den) <=> \E t \in 0..10 : rq[t].passLow = 0 /\ rq[t].failHigh = 0)
  /\ d.auc.num = 0 /\ d.passes > 0 /\ d.fails > 0 => d.onPass < d.onFail
  /\ MapThenSumSet(LAMBDA i : Longitudinal(m)[i].n, DOMAIN Longitudinal(m)) = CostRow(m).settled
  /\ Same(TrajectoryHeatmap(m).overall, GroupMeans(m).trajectory)
  /\ People(m).n <= People(m).rated

\* What the trusted view says does not depend on what it does not trust: neither an
\* axis nor the overall score that was stored; and an average of scores lies among them.
TrustedLaw(m) ==
  /\ \A d \in DOMAIN Weight :
       TrustedMeans(m, (DOMAIN Weight) \ {d}, {"goal"}) = TrustedMeans(Vary(m, d), (DOMAIN Weight) \ {d}, {"goal"})
  /\ \A i \in DOMAIN m : \A allowed \in SUBSET DOMAIN Weight :
       LET q == TrustedWeighted(m[i], allowed) IN
       Defined(q) => \E d, e \in allowed : m[i].dims[d] * q.den <= q.num /\ q.num <= m[i].dims[e] * q.den

\* Running everything once more adds no observation: the cases weigh what they did.
CellsLaw(once, twice) ==
  DOMAIN once = DOMAIN twice /\ \A k \in DOMAIN once : Same(once[k], twice[k])

\* A case that costs everybody more makes nobody look wasteful.
EffortLaw(ratios, harder) ==
  Len(ratios) = Len(harder) /\ \A i \in DOMAIN ratios : Same(ratios[i], harder[i])

TablesSound ==
  report = "tables" => \A runs \in Populations :
    LET m == Measured(runs) IN
    /\ TablesLaw(runs, m, Loops(m), [t \in 0..10 |-> Rq2(m, t)], Discrimination(m))
    /\ TrustedLaw(m)
    /\ \A c \in TwoConfigs : CellsLaw(MetricCells(m, c), MetricCells(m \o m, c))
    /\ \A c \in TwoConfigs : EffortLaw(RelativeEffort(m, c), RelativeEffort(Harder(m), c))

\* Evidence is needed to be trusted and more of it never costs trust; what may carry
\* a number may be ranked; a counter that says yes or no licenses neither; people
\* who rated enough are not overruled by it.
TrustSound ==
  report = "trust" => \A p \in PeopleReadings, counted \in CounterReadings :
    LET rated == AxisReliability("loop" :> p @@ "goal" :> p, counted)
        alone == AxisReliability(<<>>, counted)
        status == rated["loop"].status
    IN /\ Numeric(rated) \subseteq Ranked(rated) /\ Ranked(alone) = {}
       /\ rated["loop"].source = "structural" => "loop" \notin Ranked(rated) /\ p.n < MinSamples
       /\ p.n >= MinSamples => rated["loop"] = rated["goal"]
       /\ ~Defined(p.kappa) \/ p.n < MinSamples => "goal" \notin Ranked(rated)
       /\ OutcomeReliability("loop" :> p @@ "x" :> p) = "x" :> rated["goal"]
       /\ \A better \in PeopleReadings :
            better.n >= p.n /\ Defined(p.kappa) /\ Defined(better.kappa) /\ AtMost(p.kappa, better.kappa) =>
              LET more == AxisReliability("goal" :> better, counted) IN
              /\ "goal" \in Numeric(rated) => "goal" \in Numeric(more)
              /\ better.rho >= p.rho /\ "goal" \in Ranked(rated) => "goal" \in Ranked(more)

Rescaled(cells) == [k \in DOMAIN cells |-> cells[k] * cells[k] + 1]

\* A comparison reads the same from both sides.  Cases that both have are compared
\* case by case or not at all, and there is always an answer; where only the order
\* can be trusted, a scale that keeps the order cannot move it, and there is no size.
CompareLaw(a, b, row, back, order, rescaled) ==
  LET shared == Cardinality(DOMAIN a \cap DOMAIN b)
      diffs == Differences(a, b)
  IN /\ <<row.design, row.primary>> = <<back.design, back.primary>>
     /\ row # Omitted => Same(row.square, back.square) /\ row.equivalence = back.equivalence
     /\ shared >= MinSamples => row.design = "paired" /\ row.primary \notin {"welch", "mann_whitney"}
     /\ shared < MinSamples => row.design # "paired"
     /\ shared >= MinSamples /\ Cardinality(ToSet(diffs)) = 1 =>
          row.primary = IF diffs[1] = 0 THEN "identical" ELSE "sign"
     /\ order = rescaled /\ order.primary \notin {"paired_t", "welch"}
     /\ order # Omitted => /\ ~Defined(order.effect) /\ ~Defined(order.mde) /\ ~Defined(order.square)
                           /\ order.equivalence = "undefined" /\ row # Omitted

ComparisonSound ==
  report = "comparison" => \A cells \in CellReadings :
    CompareLaw(cells[1], cells[2], CompareCells(cells[1], cells[2], FALSE, 1),
               CompareCells(cells[2], cells[1], FALSE, 1),
               CompareCells(cells[1], cells[2], TRUE, 1),
               CompareCells(Rescaled(cells[1]), Rescaled(cells[2]), TRUE, 1))

\* Correction only takes findings away, and rows of one family never pay for the
\* size of another.
CorrectionsSound ==
  report = "corrections" => \A rows \in Samples([family : {"confirmatory", "exploratory"}, p : {0, 1, 2, 40}], 1, 3) :
    LET c == Corrected(rows, 40) IN
    \A i \in DOMAIN rows :
      LET alone == SelectSeq(rows, LAMBDA r : r.family = rows[i].family)
          same == {j \in DOMAIN alone : alone[j] = rows[i]}
      IN /\ c[i].significant => c[i].uncorrected
         /\ Len(alone) = 1 => c[i].significant = c[i].uncorrected
         /\ \A j \in same : Corrected(alone, 40)[j] = c[i]

\* Somebody is on the frontier, nobody on it is beaten, and whoever is not on it is
\* beaten by somebody who is.
FrontierSound ==
  report = "frontier" => \A points \in [{"a", "b", "c"} -> PointReadings] :
    LET on == ParetoFrontier(points)
        valid == {c \in DOMAIN points : Defined(points[c].quality)}
    IN /\ valid # {} => on # {}
       /\ \A c \in valid \ on : \E d \in on : Dominates(points[d], points[c])
       /\ \A c \in on, d \in valid : points[c] = points[d] => d \in on

\* A configuration that ran under two conditions is reported, also when it was changed
\* back before anyone looked; tools that differ by case are no change, and an image
\* nobody could look up is none either.
DriftSound ==
  report = "drift" => \A ran \in Executions, now \in [core : 1..2, image : {Nothing, 1, 2}], known \in BOOLEAN :
    LET executions == [i \in DOMAIN ran |->
          [case |-> ran[i].case, core |-> ran[i].core, full |-> <<ran[i].core, ran[i].tools>>]]
        pinned == [core |-> 1, image |-> IF known THEN 1 ELSE Nothing]
        moved == \E i, j \in DOMAIN ran :
          \/ ran[i].core # ran[j].core
          \/ ran[i].case = ran[j].case /\ ran[i].tools # ran[j].tools
        rebuilt == known /\ now.image = 2
    IN Drifted(ConfigDrift(executions, pinned, now)) = (moved \/ now.core # 1 \/ rebuilt)

\* The reasons shown of a failure class are different and none that is left out is
\* surer than one that is shown.
ReasonsSound ==
  report = "drift" => \A items \in Samples([reason : {"none", "r", "s"}, confidence : 0..2], 0, 3) :
    LET kept == Reasons(items) IN
    /\ IsInjective([k \in DOMAIN kept |-> kept[k].reason])
    /\ \A i \in DOMAIN items : items[i].reason # "none" =>
         \E k \in DOMAIN kept : kept[k].reason = items[i].reason /\ kept[k].confidence >= items[i].confidence

\* A report's claims are licensed by what was measured.
ReportsSound ==
  /\ TablesSound /\ TrustSound /\ ComparisonSound /\ CorrectionsSound /\ FrontierSound
  /\ DriftSound /\ ReasonsSound
=============================================================================
