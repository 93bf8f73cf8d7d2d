------------------------------- MODULE Verdicts -------------------------------
(***************************************************************************)
(* What the evaluators make of the answers they are given: the quality     *)
(* judge and its gate (judge.py, reference.py, objective.py), capability   *)
(* (capability.py), failure modes (failure_modes.py), hallucinations       *)
(* (hallucination.py) and calibration (calibration.py).                    *)
(*                                                                         *)
(* Everything here is a function of its inputs; a behaviour is about one   *)
(* of the computations.  Scores are whole numbers, weights and confidences *)
(* are in hundredths, texts are names.                                     *)
(***************************************************************************)
EXTENDS Naturals, Integers, Sequences, FiniteSets, SequencesExt, FiniteSetsExt, Functions

VARIABLE verdict           \* the computation this behaviour is about

-----------------------------------------------------------------------------
(* judge.py: one dimension                                                 *)

MaxScale == 10
Clamped(raw) == Max({0, Min({MaxScale, raw})})

Scored(s) == [status |-> "scored", score |-> s, cause |-> "none"]
Unscored(status) == [status |-> status, score |-> 0, cause |-> "none"]
Failed(cause) == [status |-> "error", score |-> 0, cause |-> cause]

\* What comes back of a model: the arguments of the forced tool call, what the
\* message says beside it, or nothing at all.
Answers ==
  {[call |-> c, content |-> t] :
     c \in {"absent", "blank", "garbled"}, t \in {"prose", "json"}}
  \cup {[call |-> "json", content |-> "prose"], [call |-> "lost", content |-> "prose"]}

\* extract_tool_args: arguments that are there but no JSON are the model's fault;
\* when they are absent the content may hold them, and if not the provider did
\* not comply.  Every other failure of the call is an error of the evaluation.
Reading(a) ==
  CASE a.call = "json" -> "json"
    [] a.call \in {"garbled", "lost"} -> "evaluation"
    [] OTHER -> IF a.content = "json" THEN "json" ELSE "infrastructure"

\* _judge_dimension: a dimension that does not apply has no score; a score that
\* is missing is an error and not a zero.
JudgeDimension(a) ==
  IF Reading(a.reply) # "json" THEN Failed(Reading(a.reply))
  ELSE IF ~a.applicable THEN Unscored("not_applicable")
  ELSE IF a.silent THEN Failed("evaluation") ELSE Scored(Clamped(a.raw))

\* evaluate_reference_dimension: the judge compares, or a similarity is rounded
\* to the scale.  A similarity is given in tenths.
ReferenceDimension(mode, a) ==
  IF ~a.material THEN Unscored("skipped")
  ELSE
  CASE mode = "pointwise" ->
         IF Reading(a.reply) # "json" THEN Failed(Reading(a.reply))
         ELSE IF a.silent THEN Failed("evaluation") ELSE Scored(Clamped(a.raw))
    [] mode = "exact" -> Scored(IF Clamped(a.raw) = MaxScale THEN MaxScale ELSE 0)
    [] mode = "fuzzy" -> Scored(Clamped(a.raw))
    [] mode = "semantic" ->
         IF a.reply.call = "lost" THEN Failed("evaluation") ELSE Scored(Clamped(a.raw))
    [] OTHER -> Failed("evaluation")

\* int(round(n / d)), halves to the even neighbour.
Rounded(n, d) ==
  LET q == n \div d IN
  IF 2 * (n % d) > d \/ (2 * (n % d) = d /\ q % 2 = 1) THEN q + 1 ELSE q

\* _density_score: findings in a hundred lines, ten of them are too many.
DensityScore(findings, lines) ==
  LET loc == Max({1, lines}) IN
  IF findings * 10 >= loc THEN 0 ELSE Rounded(MaxScale * loc - 100 * findings, loc)

\* evaluate_objective_dimension: the probe runs over the Python files, of which
\* one is kept for every name whatever its directory.
Inspected(files) ==
  {i \in DOMAIN files : ~\E j \in DOMAIN files : j > i /\ files[j].name = files[i].name}

ObjectiveDimension(probe, a) ==
  IF probe \notin {"lint", "types"} THEN Failed("evaluation")
  ELSE IF ~a.material THEN Unscored("skipped")
  ELSE IF a.reply.call = "lost" THEN Failed("evaluation")
  ELSE Scored(DensityScore(a.findings, a.lines))

Outcome(d, a) ==
  CASE d.evaluator = "judge" -> JudgeDimension(a)
    [] d.evaluator = "reference" -> ReferenceDimension(d.mode, a)
    [] d.evaluator = "objective" -> ObjectiveDimension(d.mode, a)
    [] OTHER -> Unscored("deferred")

-----------------------------------------------------------------------------
(* judge.py: the profile                                                   *)

NoThreshold == -1          \* below every score

MutMisses(d, o) == o.status = "scored" /\ o.score < d.threshold

\* What a critical dimension must not do: fall short, or stay without a verdict.
Misses(d, o) == o.status = "error" \/ (o.status = "scored" /\ o.score < d.threshold)

Weighed(dims, outcomes, value) ==
  LET scored == {i \in DOMAIN dims : outcomes[i].status = "scored"} IN
  MapThenSumSet(LAMBDA i : dims[i].weight * value[i], scored)

\* evaluate_task_quality: the weighted score is a quotient; 0 / 0 is none.
Profile(dims, answers) ==
  LET o == [i \in DOMAIN dims |-> Outcome(dims[i], answers[i])]
      failed == {i \in DOMAIN dims : dims[i].critical /\ Misses(dims[i], o[i])}
  IN [outcomes |-> o,
      num |-> Weighed(dims, o, [i \in DOMAIN dims |-> o[i].score]),
      den |-> Weighed(dims, o, [i \in DOMAIN dims |-> 1]),
      failed |-> failed,
      uncertifiable |-> {i \in failed : o[i].cause = "infrastructure"},
      errors |-> {i \in DOMAIN dims : o[i].status = "error"}]

GatePassed(p) == p.failed = {}

\* _deliverable_context: what of the result files the judge is shown.  A file is a
\* text, a document that was converted, a binary file or one that was not read.
FileCap == 2
TotalCap == 4
FilesMax == 3

Excerpted(files) ==
  LET Show(acc, i) ==
        LET f == files[i]
            room == Min({FileCap, TotalCap - acc.total, f.size})
        IN IF i > FilesMax \/ acc.total >= TotalCap \/ f.kind = "lost"
           THEN [acc EXCEPT !.skipped = @ + 1]
           ELSE IF f.kind = "binary" THEN [acc EXCEPT !.noted = @ \cup {i}]
           ELSE [acc EXCEPT !.total = @ + room, !.shown = @ \cup {i},
                            !.cut = @ \cup (IF room < f.size THEN {i} ELSE {})]
  IN FoldLeft(Show, [total |-> 0, skipped |-> 0, noted |-> {}, shown |-> {}, cut |-> {}],
              [i \in DOMAIN files |-> i])

-----------------------------------------------------------------------------
(* capability.py                                                           *)

NoSignal == [signal |-> "none", correct |-> FALSE]

\* _outcome_from_profile: the first reference dimension that was scored decides,
\* by its own threshold if it has one; without any, the weighted score does (the
\* code rounds that to hundredths).
OutcomeOf(dims, p, threshold) ==
  LET refs == {i \in DOMAIN dims :
                 dims[i].evaluator = "reference" /\ p.outcomes[i].status = "scored"}
      d == dims[Min(refs)]
      o == p.outcomes[Min(refs)]
  IN IF refs # {}
     THEN [signal |-> "reference",
           correct |-> o.score >= IF d.threshold = NoThreshold THEN threshold ELSE d.threshold]
     ELSE IF p.den > 0 THEN [signal |-> "judge", correct |-> p.num >= threshold * p.den]
     ELSE NoSignal

\* _expand_called: a tool of a server is also known by its own name.
Expanded(called) == called \cup {Tail(c) : c \in {n \in called : Len(n) > 1}}

MutToolUsed(required, called, match) ==
  LET missing == {t \in required : t \notin Expanded(called)} IN
  IF match = "any" THEN TRUE ELSE missing = {}

ToolUsed(required, called, match) ==
  LET missing == {t \in required : t \notin Expanded(called)} IN
  IF match = "any" THEN missing # required ELSE missing = {}

Classify(correct, used) ==
  CASE correct /\ used -> "genuine"
    [] correct /\ ~used -> "cheated"
    [] ~correct /\ used -> "failed_with_tool"
    [] OTHER -> "failed_no_tool"

-----------------------------------------------------------------------------
(* failure_modes.py                                                        *)

Taxonomy == <<"loop", "misuse">>

\* _clamp_confidence, in percent.
Confidence(raw) == Min({100, raw})

\* _parse_failures_from_args: of a class the most confident label is kept, the
\* first of equals; unknown classes are dropped; the taxonomy gives the order.
ParseFailures(items) ==
  LET Of(c) == {i \in DOMAIN items : items[i].class = c}
      Sure(i) == Confidence(items[i].confidence)
      Best(c) == Min({i \in Of(c) : \A j \in Of(c) : Sure(j) <= Sure(i)})
      present == SelectSeq(Taxonomy, LAMBDA c : Of(c) # {})
  IN [k \in DOMAIN present |->
        [class |-> present[k], confidence |-> Sure(Best(present[k]))]]

-----------------------------------------------------------------------------
(* hallucination.py                                                        *)

Categories == {"urls", "apis", "numbers", "citations"}
ItemCap == 2               \* bound of the code: items kept of a category

MutFlagged(asked, replies) ==
  SelectSeq(asked, LAMBDA c : ~\E i \in DOMAIN replies : replies[i].name = c /\ replies[i].supported)

\* _verdict_map, _llm_items_for: the last verdict on a name counts, and a name on
\* which nothing was said has the benefit of the doubt.
Flagged(asked, replies) ==
  LET against == SelectSeq(asked, LAMBDA c :
        LET said == {i \in DOMAIN replies : replies[i].name = c} IN
        said # {} /\ ~replies[Max(said)].supported)
  IN SubSeq(against, 1, Min({ItemCap, Len(against)}))

\* evaluate_task_hallucinations: the trace settles what it can, the model is asked
\* about the rest, once, and only when there is a rest.
FactCheck(found, traced, replies, reached) ==
  LET unseen(k) == SelectSeq(found[k], LAMBDA c : c \notin traced)
      asked == [k \in Categories |->
                  CASE k = "urls" -> <<>> [] k = "apis" -> unseen(k) [] OTHER -> found[k]]
      calls == IF \A k \in Categories : asked[k] = <<>> THEN 0 ELSE 1
      flagged == [k \in Categories |->
                    IF k = "urls" THEN unseen(k)
                    ELSE IF calls = 1 /\ reached THEN Flagged(asked[k], replies[k]) ELSE <<>>]
  IN [calls |-> calls,
      status |-> IF calls = 1 /\ ~reached THEN "error" ELSE "scored",
      checked |-> [k \in Categories |-> Len(found[k])],
      flagged |-> flagged]

-----------------------------------------------------------------------------
(* calibration.py: confidences in percent, sums instead of means           *)

Bin(c, bins) == Min({bins - 1, (c * bins) \div 100})
Actual(p) == IF p.correct THEN 100 ELSE 0
Magnitude(n) == IF n < 0 THEN -n ELSE n

MutGap(pairs, in) == MapThenSumSet(LAMBDA i : Magnitude(pairs[i].confidence - Actual(pairs[i])), in)

\* The surplus of confidence over accuracy among some answers.
Gap(pairs, in) == MapThenSumSet(LAMBDA i : pairs[i].confidence - Actual(pairs[i]), in)

\* _calibration_metrics, each times the number of pairs.
CalibrationMetrics(pairs, bins) ==
  LET bucket == [b \in 0..(bins - 1) |->
                   {i \in DOMAIN pairs : Bin(pairs[i].confidence, bins) = b}]
  IN [bucket |-> bucket,
      ece |-> MapThenSumSet(LAMBDA b : Magnitude(Gap(pairs, bucket[b])), DOMAIN bucket),
      brier |-> MapThenSumSet(LAMBDA i : (pairs[i].confidence - Actual(pairs[i]))^2,
                              DOMAIN pairs),
      over |-> Gap(pairs, DOMAIN pairs)]

\* _recommendation_for: the bucket of enough answers with the widest gap.
Recommendation(pairs, bins, enough) ==
  LET m == CalibrationMetrics(pairs, bins)
      big == {b \in DOMAIN m.bucket : Cardinality(m.bucket[b]) >= enough}
      G(b) == Gap(pairs, m.bucket[b])
      n(b) == Cardinality(m.bucket[b])
      widest == Min({b \in big : \A c \in big : Magnitude(G(c)) * n(b) <= Magnitude(G(b)) * n(c)})
  IN IF big = {} THEN "none"
     ELSE IF G(widest) > 10 * n(widest) THEN "overestimates"
     ELSE IF G(widest) < -10 * n(widest) THEN "underestimates" ELSE "calibrated"

-----------------------------------------------------------------------------
(* Aggregates over the records of a workspace                              *)

Labels(rec) == {rec.labels[i] : i \in DOMAIN rec.labels}

MutCounted(recs, in) ==
  [runs |-> Cardinality(in), hit |-> Cardinality({i \in in : Labels(recs[i]) # {}}),
   by |-> [c \in ToSet(Taxonomy) |-> MapThenSumSet(
             LAMBDA i : Cardinality({k \in DOMAIN recs[i].labels : recs[i].labels[k] = c}), in)]]

\* A bucket of aggregate_failure_modes: a record counts once under each class.
Counted(recs, in) ==
  [runs |-> Cardinality(in), hit |-> Cardinality({i \in in : Labels(recs[i]) # {}}),
   by |-> [c \in ToSet(Taxonomy) |-> Cardinality({i \in in : c \in Labels(recs[i])})]]

\* aggregate_failure_modes: over all that were scored, by model and by class.
AggregateFailures(recs, only) ==
  LET in == {i \in DOMAIN recs : /\ recs[i].status = "scored"
                                 /\ only # "any" => only \in Labels(recs[i])}
  IN [all |-> Counted(recs, in),
      byModel |-> [m \in {recs[i].model : i \in in} |->
                     Counted(recs, {i \in in : recs[i].model = m})],
      byClass |-> [c \in {l \in ToSet(Taxonomy) : \E i \in in : l \in Labels(recs[i])} |->
                     Counted(recs, {i \in in : c \in Labels(recs[i])})]]

\* aggregate_hallucinations: items are summed; a label stands for an item found.
AggregateItems(recs, only) ==
  LET in == {i \in DOMAIN recs : /\ recs[i].status = "scored"
                                 /\ only # "any" => only \in Labels(recs[i])}
      Found(i, c) == Cardinality({k \in DOMAIN recs[i].labels : recs[i].labels[k] = c})
  IN [c \in ToSet(Taxonomy) |->
        [checked |-> MapThenSumSet(LAMBDA i : recs[i].checked, in),
         hallucinated |-> MapThenSumSet(LAMBDA i : Found(i, c), in)]]

-----------------------------------------------------------------------------
(* The inputs                                                              *)

Dim(evaluator, mode, critical, threshold, weight) ==
  [evaluator |-> evaluator, mode |-> mode, critical |-> critical, threshold |-> threshold,
   weight |-> weight]
Dims ==
  {Dim("judge", "none", c, t, 2) : c \in BOOLEAN, t \in {NoThreshold, 6}}
  \cup {Dim("reference", m, TRUE, t, 1) : m \in {"pointwise", "semantic", "exact"}, t \in {NoThreshold, 4}}
  \cup {Dim("objective", m, TRUE, 6, 1) : m \in {"lint", "typo"}}
  \cup {Dim("human", "none", TRUE, 6, 1)}

Fine == [reply |-> [call |-> "json", content |-> "prose"], applicable |-> TRUE, silent |-> FALSE,
         raw |-> 12, material |-> TRUE, findings |-> 0, lines |-> 20]
DimAnswers ==
  {[Fine EXCEPT !.reply = a] : a \in Answers}
  \cup {[Fine EXCEPT !.raw = 5, !.findings = 1], [Fine EXCEPT !.raw = -2, !.findings = 3],
        [Fine EXCEPT !.applicable = FALSE, !.silent = TRUE], [Fine EXCEPT !.silent = TRUE],
        [Fine EXCEPT !.material = FALSE]}

FileReadings ==
  UNION {[1..n -> [kind : {"text", "binary", "lost"}, size : {1, 3}]] : n \in 0..4}

ToolNames == {<<"search">>, <<"web", "search">>, <<"write">>}

FailureReadings == UNION {[1..n -> [class : {"loop", "misuse", "other"}, confidence : {0, 60, 100, 150}]] :
                            n \in 0..3}

Replies == UNION {[1..n -> [name : {"a", "b"}, supported : BOOLEAN]] : n \in 0..2}
FactReadings ==
  [apis : {<<>>, <<"a">>, <<"a", "b">>}, claims : {<<>>, <<"b", "c", "a">>}, urls : {<<>>, <<"a", "b">>},
   traced : {{}, {"a"}, {"a", "b"}}, said : Replies, reached : BOOLEAN]

Pairs == [confidence : {0, 24, 50, 80, 100}, correct : BOOLEAN]
PairReadings == UNION {[1..n -> Pairs] : n \in 1..3}

RecordReadings ==
  UNION {[1..n -> [status : {"scored", "error"}, model : {"m1", "m2"}, checked : {2},
                   labels : {<<>>, <<"loop">>, <<"misuse", "loop">>, <<"loop", "loop">>}]] :
         n \in 0..3}

VerdictsInit ==
  verdict \in {"gate", "files", "tools", "failures", "facts", "calibration", "aggregates"}

-----------------------------------------------------------------------------
(* Properties                                                              *)

Better(o, n) ==
  /\ n.status = "scored"
  /\ \/ o.status = "error"
     \/ o.status = "scored" /\ o.score <= n.score

\* The gate fails closed and blames nobody wrongly.  A better answer never closes
\* it; dimensions without a verdict of their own leave score and gate as they are;
\* the score lies between the worst and the best; and where only the provider
\* kept the judge from answering, full marks from it would have opened the gate.
\* A reference decides on correctness whatever the judges say.
GateFailsClosed ==
  verdict = "gate" => \A d1, d2 \in Dims, a1, a2 \in DimAnswers :
    LET dims == <<d1, d2>>
        p == Profile(dims, <<a1, a2>>)
        o == p.outcomes
        judged == SelectSeq(<<1, 2>>, LAMBDA i : o[i].status \in {"scored", "error"})
        alone == Profile([k \in DOMAIN judged |-> dims[judged[k]]],
                         [k \in DOMAIN judged |-> <<a1, a2>>[judged[k]]])
        repaired == Profile(dims, [i \in 1..2 |-> IF i \in p.uncertifiable THEN Fine
                                                   ELSE <<a1, a2>>[i]])
        scores == {o[i].score : i \in {j \in 1..2 : o[j].status = "scored"}}
        right == OutcomeOf(dims, p, 6)
    IN /\ {i \in p.errors : dims[i].critical} \subseteq p.failed
       /\ <<alone.num, alone.den, GatePassed(alone)>> = <<p.num, p.den, GatePassed(p)>>
       /\ p.den > 0 => Min(scores) * p.den <= p.num /\ p.num <= Max(scores) * p.den
       /\ p.failed = p.uncertifiable => GatePassed(repaired)
       /\ right.correct => scores # {}
       /\ \A b \in DimAnswers :
            LET q == Profile(dims, <<a1, b>>) IN
            /\ Better(o[2], q.outcomes[2]) /\ GatePassed(p) => GatePassed(q)
            /\ Better(o[2], q.outcomes[2]) /\ o[2].status = "scored" /\ right.correct =>
                 OutcomeOf(dims, q, 6).correct
            /\ right.signal = "reference" /\ d2.evaluator # "reference" =>
                 OutcomeOf(dims, q, 6) = right

\* Every result file is shown, noted or counted as not shown; what is shown fits;
\* a file that cannot be read takes no room from the others.
DeliverablesAccounted ==
  verdict = "files" => \A files \in FileReadings :
    LET e == Excerpted(files)
        read == SelectSeq(files, LAMBDA f : f.kind # "lost")
        size == MapThenSumSet(LAMBDA i : Min({FileCap, files[i].size}), e.shown)
    IN /\ Cardinality(e.shown) + Cardinality(e.noted) + e.skipped = Len(files)
       /\ e.total <= TotalCap /\ e.total <= size
       /\ e.total < size => e.total = TotalCap
       /\ e.cut \subseteq e.shown
       /\ Len(files) <= FilesMax => Excerpted(read).total = e.total

\* A lint or type check is as good as its findings are rare, and one file is
\* inspected for every name.
ProbesGradeFairly ==
  verdict = "files" =>
    /\ \A loc \in 0..25, n \in 0..4 :
         /\ DensityScore(0, loc) = MaxScale
         /\ DensityScore(n, loc) \in 0..MaxScale
         /\ DensityScore(n + 1, loc) <= DensityScore(n, loc)
         /\ DensityScore(n, loc) <= DensityScore(n, loc + 1)
    /\ \A names \in [1..3 -> {"x", "y"}] :
         LET files == [i \in 1..3 |-> [name |-> names[i]]] IN
         {names[i] : i \in Inspected(files)} = ToSet(names)

\* The required tools were called, under their own name or a server's; more calls
\* never take that back, and all of them are more than any of them.
ToolsReallyUsed ==
  verdict = "tools" => \A required \in (SUBSET ToolNames) \ {{}}, called, more \in SUBSET ToolNames :
    LET Served(names) == {<<"srv">> \o c : c \in names} IN
    /\ ToolUsed(required, called, "all") => ToolUsed(required, called, "any")
    /\ \A m \in {"all", "any"} :
         /\ ToolUsed(required, called, m) => ToolUsed(required, called \cup more, m)
         /\ ToolUsed(required, Served(required) \cup called, m)
         /\ ToolUsed(required, called, m) => \E t \in required : t \in Expanded(called)
    /\ \A c \in BOOLEAN :
         Classify(c, ToolUsed(required, {}, "any")) \in {"cheated", "failed_no_tool"}

\* What a model labels does not depend on the order it was said in, nor on classes
\* it made up.
FailuresParsed ==
  verdict = "failures" => \A items \in FailureReadings :
    LET labels == ParseFailures(items)
        known == SelectSeq(items, LAMBDA x : x.class \in ToSet(Taxonomy))
    IN /\ labels = ParseFailures(Reverse(items)) /\ labels = ParseFailures(known)
       /\ {labels[k].class : k \in DOMAIN labels} = {known[k].class : k \in DOMAIN known}
       /\ IsInjective([k \in DOMAIN labels |-> labels[k].class])
       /\ ParseFailures(labels) = labels

\* A fabrication is flagged on evidence only: never what the trace shows, nothing
\* that was not asked, nothing the model did not deny last; and a failed call
\* leaves what the trace alone proves.
FlaggedOnEvidence ==
  verdict = "facts" => \A r \in FactReadings :
    LET found == [urls |-> r.urls, apis |-> r.apis, numbers |-> <<>>, citations |-> r.claims]
        replies == [k \in Categories |-> IF k = "numbers" THEN <<>> ELSE r.said]
        f == FactCheck(found, r.traced, replies, r.reached)
        twice == FactCheck(found, r.traced, [k \in Categories |-> replies[k] \o replies[k]], r.reached)
    IN /\ \A k \in Categories : Len(f.flagged[k]) <= f.checked[k]
       /\ \A k \in {"urls", "apis"} : ToSet(f.flagged[k]) \cap r.traced = {}
       /\ \A k \in {"apis", "citations"} : \A c \in ToSet(f.flagged[k]) :
            \E i \in DOMAIN r.said : r.said[i].name = c /\ ~r.said[i].supported
       /\ f.status = "error" => \A k \in Categories \ {"urls"} : f.flagged[k] = <<>>
       /\ f.calls = 0 => r.claims = <<>> /\ ToSet(r.apis) \subseteq r.traced
       /\ twice = f

\* Calibration numbers hang together: every answer falls into one bucket, the error
\* is at least the overall surplus and at most the mean distance, finer buckets
\* never lower it, its square is at most the Brier score, and a model is said to
\* overestimate itself only where it is more confident than right.
CalibrationBounded ==
  verdict = "calibration" => \A pairs \in PairReadings :
    LET n == Len(pairs)
        two == CalibrationMetrics(pairs, 2)
        four == CalibrationMetrics(pairs, 4)
    IN /\ \A i \in 1..n : Cardinality({b \in 0..3 : i \in four.bucket[b]}) = 1
       /\ Magnitude(two.over) <= two.ece /\ two.ece <= four.ece
       /\ four.ece <= MapThenSumSet(LAMBDA i : Magnitude(pairs[i].confidence - Actual(pairs[i])), 1..n)
       /\ four.ece * four.ece <= n * four.brier
       /\ Recommendation(pairs, 2, 2) = "overestimates" =>
            \E i \in 1..n : ~pairs[i].correct /\ pairs[i].confidence > 0
       /\ Recommendation(pairs, 2, 2) = "none" => n < 3

\* A workspace's rates are rates: a record counts once under a class however often
\* it carries it, models add up to the whole, and what is filtered by a class is
\* that class's own bucket.
AggregatesAddUp ==
  verdict = "aggregates" => \A recs \in RecordReadings :
    LET a == AggregateFailures(recs, "any")
        items == AggregateItems(recs, "any")
        Models(value(_)) == MapThenSumSet(LAMBDA m : value(a.byModel[m]), DOMAIN a.byModel)
    IN /\ Models(LAMBDA b : b.runs) = a.all.runs /\ Models(LAMBDA b : b.hit) = a.all.hit
       /\ \A c \in ToSet(Taxonomy) :
            /\ Models(LAMBDA b : b.by[c]) = a.all.by[c] /\ a.all.by[c] <= a.all.hit
            /\ a.all.by[c] <= items[c].hallucinated
            /\ (a.all.by[c] = 0) = (c \notin DOMAIN a.byClass)
            /\ c \in DOMAIN a.byClass => /\ a.byClass[c].runs = a.all.by[c]
                                         /\ AggregateFailures(recs, c).all = a.byClass[c]

\* What is written of an answer follows from the answer.
VerdictsSound ==
  /\ GateFailsClosed /\ DeliverablesAccounted /\ ProbesGradeFairly /\ ToolsReallyUsed
  /\ FailuresParsed /\ FlaggedOnEvidence /\ CalibrationBounded /\ AggregatesAddUp
=============================================================================
