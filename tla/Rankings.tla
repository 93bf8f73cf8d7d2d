------------------------------ MODULE Rankings ------------------------------
(***************************************************************************)
(* What the archive says about models and about the judge: leaderboards    *)
(* from matches (aggregation.py, ranking.py), the judge against people     *)
(* (judge_calibration.py) and the judge with and without its mitigations   *)
(* (bias_mitigation.py).  Players, cases, tasks and people are numbers, a  *)
(* smaller one sorts first.                                                *)
(***************************************************************************)
EXTENDS Reports

VARIABLE ranking           \* the computation this behaviour is about

-----------------------------------------------------------------------------
(* Matches into ratings                                                    *)

\* No weight, and a weight of zero, are a weight of one.
WeightOf(m) == IF m.weight \in {Nothing, 0} THEN 1 ELSE m.weight

Counts(m) ==
  /\ Nothing \notin {m.a, m.b} /\ m.a # m.b
  /\ m.outcome \in {"a", "b", "tie"} /\ WeightOf(m) > 0

\* _normalize
Normalized(ms) ==
  LET kept == SelectSeq(ms, Counts) IN
  [i \in DOMAIN kept |-> [kept[i] EXCEPT !.weight = WeightOf(kept[i])]]

Players(ms) == UNION {{ms[i].a, ms[i].b} : i \in DOMAIN ms}
Winner(m) == CASE m.outcome = "a" -> m.a [] m.outcome = "b" -> m.b [] OTHER -> Nothing
Weights(ms, at) == MapThenSumSet(LAMBDA i : ms[i].weight, at)

\* _tally
Tally(ms, p) ==
  LET plays == {i \in DOMAIN ms : p \in {ms[i].a, ms[i].b}}
      won == {i \in plays : Winner(ms[i]) = p}
      drawn == {i \in plays : Winner(ms[i]) = Nothing}
  IN [wins |-> Weights(ms, won), ties |-> Weights(ms, drawn),
      losses |-> Weights(ms, plays \ (won \cup drawn))]

\* bradley_terry: games between two, and the strength one iteration gives; the
\* phantom opponent of strength one is beaten once and met once.
Games(ms, p, q) == Weights(ms, {i \in DOMAIN ms : {ms[i].a, ms[i].b} = {p, q}})
Strengthen(ms, strength, p) ==
  LET t == Tally(ms, p)
      met == Players(ms) \ {p}
      denom == FoldLeft(Add, Quotient(1, strength[p] + 1),
                        SetToSeq({Quotient(Games(ms, p, q), strength[p] + strength[q]) : q \in met}))
  IN Quotient((2 + 2 * t.wins + t.ties) * denom.den, 2 * denom.num)

InitRating == 1500
Stake == 32                \* DEFAULT_K
\* The part of the stake that a lead makes likely: both sides' parts make the stake.
Chance(lead) ==
  IF lead >= 0 THEN Min({31, 16 + lead \div 20}) ELSE Stake - Min({31, 16 + (-lead) \div 20})

MutRated(rating, m) ==
  LET won == CASE Winner(m) = m.a -> Stake [] Winner(m) = m.b -> 0 [] OTHER -> Stake \div 2
      first == [rating EXCEPT ![m.a] = @ + won - Chance(@ - rating[m.b])]
  IN [first EXCEPT ![m.b] = @ + (Stake - won) - Chance(@ - first[m.a])]

\* One comparison: what one side gains the other loses.
Rated(rating, m) ==
  LET won == CASE Winner(m) = m.a -> Stake [] Winner(m) = m.b -> 0 [] OTHER -> Stake \div 2
      likely == Chance(rating[m.a] - rating[m.b])
  IN [rating EXCEPT ![m.a] = @ + won - likely, ![m.b] = @ + (Stake - won) - (Stake - likely)]

\* elo, one pass over one order of the matches.
EloPass(ms) ==
  FoldLeft(LAMBDA r, m : FoldLeft(LAMBDA s, k : Rated(s, m), r, [k \in 1..m.weight |-> k]),
           [p \in Players(ms) |-> InitRating], ms)

\* _percentile, in parts of a thousand, between the two values it falls between.
Percentile(values, part) ==
  LET up == SortSeq(values, <)
      place == part * (Len(up) - 1)
      low == up[place \div 1000 + 1]
      high == up[(place + 999) \div 1000 + 1]
  IN Quotient(1000 * low + (high - low) * (place % 1000), 1000)

\* _bootstrap_ci: from the resamples that hold the player.
BootstrapCi(fits, p) ==
  LET of == SelectSeq(fits, LAMBDA f : p \in DOMAIN f)
      values == [i \in DOMAIN of |-> of[i][p]]
  IN IF of = <<>> THEN <<Quotient(InitRating, 1), Quotient(InitRating, 1)>>
     ELSE <<Percentile(values, 25), Percentile(values, 975)>>

\* rank, with the ratings and intervals a fit gave.
Rank(matches, rating, fits) ==
  LET ms == Normalized(matches)
      rows == SetToSortSeq(Players(ms), LAMBDA p, q : \/ rating[p] > rating[q]
                                                      \/ rating[p] = rating[q] /\ p < q)
  IN IF ms = <<>> THEN [status |-> "empty", matches |-> 0, rows |-> <<>>]
     ELSE [status |-> "ok", matches |-> Len(ms),
           rows |-> [i \in DOMAIN rows |->
                       [player |-> rows[i], tally |-> Tally(ms, rows[i]),
                        ci |-> BootstrapCi(fits, rows[i])]]]

-----------------------------------------------------------------------------
(* Records into matches                                                    *)

\* _player_key
PlayerKey(r, subject) ==
  IF subject = "model" THEN r.model
  ELSE IF r.template # Nothing THEN r.template ELSE r.templateId

Means(scored, k) ==
  [p \in {scored[i].player : i \in {j \in DOMAIN scored : scored[j].case = k}} |->
     Mean(Field(SelectSeq(scored, LAMBDA s : s.case = k /\ s.player = p), "score"))]

MutVersus(p, q, eps) ==
  IF AtMost(q, p) /\ AtMost(p, q) THEN "tie" ELSE IF AtMost(q, p) THEN "a" ELSE "b"

Versus(p, q, eps) ==
  LET gap == p.num * q.den - q.num * p.den IN
  IF Abs(gap) <= eps * p.den * q.den THEN "tie" ELSE IF gap > 0 THEN "a" ELSE "b"

\* build_matches: within a case every pair meets once, by the means of both.
BuildMatches(scored, eps) ==
  LET cases == {scored[i].case : i \in DOMAIN scored}
      contested == {k \in cases : Cardinality(DOMAIN Means(scored, k)) > 1}
      pairs == UNION {{<<k, p, q>> : p, q \in DOMAIN Means(scored, k)} : k \in contested}
      order == SetToSeq({t \in pairs : t[2] < t[3]})
      used == {i \in DOMAIN scored : scored[i].case \in contested}
  IN [matches |-> [i \in DOMAIN order |->
                     LET m == Means(scored, order[i][1]) IN
                     [a |-> order[i][2], b |-> order[i][3], weight |-> 1, case |-> order[i][1],
                      outcome |-> Versus(m[order[i][2]], m[order[i][3]], eps)]],
      used |-> Cardinality(used), unmatched |-> Len(scored) - Cardinality(used)]

\* derive_matches_from_records: what the infrastructure decided is not looked at;
\* without a score, a case or a player a record is unmatched.
Derived(records, subject, eps) ==
  LET rows == SelectSeq(records, LAMBDA r : ~r.tainted)
      able == SelectSeq(rows, LAMBDA r : Nothing \notin {r.score, r.case, PlayerKey(r, subject)})
      built == BuildMatches([i \in DOMAIN able |->
                 [case |-> able[i].case, player |-> PlayerKey(able[i], subject),
                  score |-> able[i].score]], eps)
  IN [built EXCEPT !.unmatched = @ + Len(rows) - Len(able)]

-----------------------------------------------------------------------------
(* The judge against people                                                *)

MutJudgeScore(ann, record, key) ==
  IF record.live[key] # Nothing THEN [score |-> record.live[key], source |-> "live"]
  ELSE [score |-> ann.frozen[key], source |-> "frozen"]

\* What the judge had said when it was rated: as observed, then as noted with the
\* rating; only a rating from before observations reads the record of today.
JudgeScore(ann, record, key) ==
  IF ann.frozen[key] # Nothing THEN [score |-> ann.frozen[key], source |-> "frozen"]
  ELSE IF ann.noted[key] # Nothing THEN [score |-> ann.noted[key], source |-> "frozen"]
  ELSE IF ann.type = "legacy" THEN [score |-> record.live[key], source |-> "live"]
  ELSE [score |-> Nothing, source |-> "unscored"]

JudgeGate(ann, record) ==
  IF ann.gate # "none" THEN ann.gate ELSE IF ann.type = "legacy" THEN record.gate ELSE "none"

NoKey == "none"

\* _pair_row
PairRow(ann, record, key) ==
  [task |-> ann.task, id |-> ann.id, by |-> ann.by, type |-> ann.type, key |-> key,
   blind |-> ann.blind, verdict |-> ann.verdict, gate |-> JudgeGate(ann, record),
   judge |-> IF key = NoKey THEN Nothing ELSE JudgeScore(ann, record, key).score,
   source |-> IF key = NoKey THEN "none" ELSE JudgeScore(ann, record, key).source,
   human |-> IF key = NoKey THEN Nothing ELSE ann.dims[key]]

\* collect_judge_human_pairs, pairs_from_rows: of what nobody has superseded, a pair
\* per rated axis, or one without an axis.
PairsOf(anns, records) ==
  LET superseded == {anns[i].supersedes : i \in DOMAIN anns}
      current == SelectSeq(anns, LAMBDA a : a.id \notin superseded /\ a.type # "judge")
      Rows(a) == LET keys == IF a.dims = <<>> THEN {NoKey} ELSE DOMAIN a.dims IN
                 SetToSeq({PairRow(a, records[a.task], k) : k \in keys})
  IN FlattenSeq([i \in DOMAIN current |-> Rows(current[i])])

Agreed(a, b) == Cardinality({i \in DOMAIN a : a[i] = b[i]})

\* The two lists as a report shows them; too few pairs have no kappa.
Agreement(a, b, labels) ==
  [n |-> Len(a), agreed |-> Agreed(a, b), kappa |-> Kappa(a, b, labels)]

Reliable(agreement, threshold) ==
  Defined(agreement.kappa) /\ 10 * agreement.kappa.num >= threshold * agreement.kappa.den

Bands == {"bad", "improve", "good"}
Verdicts2 == {"approve", "reject"}

\* _compute_report, of one axis: pairs both have answered.
AxisReport(pairs, key) ==
  LET both == SelectSeq(pairs, LAMBDA p : p.key = key /\ Nothing \notin {p.judge, p.human})
      judge == Field(both, "judge")
      human == Field(both, "human")
  IN [bands |-> Agreement([i \in DOMAIN both |-> Band(judge[i])],
                          [i \in DOMAIN both |-> Band(human[i])], Bands),
      rho |-> Spearman(judge, human), bias |-> MeanBias(judge, human)]

\* _compute_report, overall: one verdict of a person on a task, on however many axes.
Overall(pairs) ==
  LET able == SelectSeq(pairs, LAMBDA p : p.verdict \in Verdicts2 /\ p.gate # "none")
      keys == SetToSeq({<<able[i].task, able[i].by>> : i \in DOMAIN able})
      Latest(k) == able[Max({i \in DOMAIN able : <<able[i].task, able[i].by>> = k})]
  IN Agreement([i \in DOMAIN keys |-> IF Latest(keys[i]).gate = "passed" THEN "approve" ELSE "reject"],
               [i \in DOMAIN keys |-> Latest(keys[i]).verdict], Verdicts2)

\* _pooled_kappa: every two raters of a task, the one that sorts first on the left.
Pooled2(units, labels) ==
  LET pairs == UNION {{<<u, p, q>> : p, q \in DOMAIN units[u]} : u \in DOMAIN units}
      order == SetToSeq({t \in pairs : t[2] < t[3]})
  IN Agreement([i \in DOMAIN order |-> units[order[i][1]][order[i][2]]],
               [i \in DOMAIN order |-> units[order[i][1]][order[i][3]]], labels)

MutPeers(pairs) == pairs

\* _inter_annotator: only of those who had not seen each other's ratings.
Peers(pairs) == SelectSeq(pairs, LAMBDA p : p.blind)
InterAnnotator(pairs, key) ==
  LET of == SelectSeq(Peers(pairs), LAMBDA p : p.key = key /\ p.human # Nothing)
      Raters(t) == {i \in DOMAIN of : of[i].task = t}
  IN Pooled2([t \in {of[i].task : i \in DOMAIN of} |->
                [w \in {of[i].by : i \in Raters(t)} |->
                   Band(of[Max({i \in Raters(t) : of[i].by = w})].human)]], Bands)

-----------------------------------------------------------------------------
(* The judge with and without mitigations                                  *)

\* _gate_passed: over what was judged again.
RegatePassed(scores, thresholds) ==
  \A k \in DOMAIN scores \cap DOMAIN thresholds :
    scores[k] # Nothing /\ scores[k] >= thresholds[k]

\* _improved: no worse.
Improved(before, after) == Defined(after) /\ (Defined(before) => AtMost(before, after))

\* _verbosity_diagnostic: correlations with the length, in percent.
Verbosity(off, on, human) ==
  Nothing \notin {off, on, human} /\ Abs(on - human) < Abs(off - human)

\* _clustering_diagnostic
Crowded(scores) == Len(SelectSeq(scores, LAMBDA s : s \in 7..8))
Clustering(off, on) ==
  IF Len(off) < MinSamples THEN [clustered |-> FALSE, improved |-> FALSE]
  ELSE [clustered |-> 2 * Crowded(off) > Len(off), improved |-> Scatter(on) > Scatter(off)]

\* _self_preference_diagnostic
SelfJudged(judge, models) == Len(SelectSeq(models, LAMBDA m : m = judge))

\* _resolve_toggles: with no toggle of a prompt, both.
Toggles(asked) == IF asked = {} THEN {"verbosity", "score_clustering"} ELSE asked

\* run_bias_report of a task: what people rated on axes the judge scores, scored
\* again twice; a task that is gone, that has no rubric or that fails is named.
Rejudged(task, pairs, judged, off, on) ==
  LET rated == SelectSeq(pairs, LAMBDA p : p.task = task.id /\ p.key \in judged /\ p.human # Nothing)
      Pass(scores, thresholds) ==
        [i \in DOMAIN rated |->
           [rated[i] EXCEPT !.judge = scores[rated[i].key], !.source = "rejudged",
                            !.gate = IF RegatePassed(Restrict(scores, ToSet(Field(rated, "key"))), thresholds)
                                     THEN "passed" ELSE "failed"]]
  IN IF task.state # "there" THEN [failed |-> TRUE, off |-> <<>>, on |-> <<>>]
     ELSE [failed |-> FALSE, off |-> Pass(off, task.thresholds), on |-> Pass(on, task.thresholds)]

\* _persist
BiasPassed(before, after) == Improved(before.kappa, after.kappa) /\ Defined(after.kappa)

-----------------------------------------------------------------------------
(* The inputs                                                              *)

MatchesRead ==
  [a : {1, 2}, b : {2, 3}, outcome : {"a", "b", "tie"}, weight : {2}]
    \cup {[a |-> 1, b |-> Nothing, outcome |-> "a", weight |-> 1],
          [a |-> 1, b |-> 3, outcome |-> "?", weight |-> 1],
          [a |-> 2, b |-> 3, outcome |-> "a", weight |-> -2],
          [a |-> 3, b |-> 1, outcome |-> "a", weight |-> 0]}
MatchLists == {[i \in 1..3 |-> <<x, y, z>>[i]] : x, y, z \in MatchesRead}

RecordsRead ==
  [case : {1, 2}, model : {1, 2}, template : {Nothing}, templateId : {3}, score : {3, 6}, tainted : {FALSE}]
    \cup {[case |-> 1, model |-> Nothing, template |-> 2, templateId |-> 3, score |-> 4, tainted |-> FALSE],
          [case |-> Nothing, model |-> 1, template |-> 1, templateId |-> 3, score |-> 5, tainted |-> FALSE],
          [case |-> 1, model |-> 3, template |-> Nothing, templateId |-> Nothing, score |-> Nothing,
           tainted |-> FALSE],
          [case |-> 2, model |-> 3, template |-> 2, templateId |-> Nothing, score |-> 9, tainted |-> TRUE]}

Ann == [id |-> 1, task |-> 1, by |-> 1, type |-> "human", supersedes |-> 0, blind |-> TRUE,
        verdict |-> "approve", gate |-> "passed", dims |-> [goal |-> 8, loop |-> 5],
        frozen |-> [goal |-> 9, loop |-> Nothing], noted |-> [goal |-> 2, loop |-> Nothing]]
AnnReadings ==
  <<Ann,
    [Ann EXCEPT !.id = 2, !.by = 2, !.verdict = "reject", !.dims = [goal |-> 2, loop |-> Nothing]],
    [Ann EXCEPT !.id = 3, !.by = 3, !.task = 2, !.blind = FALSE, !.gate = "failed",
                !.frozen = [goal |-> 3, loop |-> 2], !.dims = [goal |-> 9, loop |-> 1]],
    [Ann EXCEPT !.id = 4, !.supersedes = 1, !.dims = <<>>, !.verdict = "reject"],
    [Ann EXCEPT !.id = 5, !.by = 4, !.type = "legacy", !.gate = "none", !.task = 2,
                !.frozen = [goal |-> Nothing, loop |-> Nothing],
                !.noted = [goal |-> Nothing, loop |-> 4]],
    [Ann EXCEPT !.id = 6, !.by = 3, !.gate = "none", !.dims = [goal |-> 5, loop |-> 9],
                !.frozen = [goal |-> Nothing, loop |-> Nothing],
                !.noted = [goal |-> Nothing, loop |-> Nothing]],
    [Ann EXCEPT !.id = 7, !.by = 2, !.task = 2, !.dims = [goal |-> 8, loop |-> 4]]>>
AnnLists == {SetToSortSeq({AnnReadings[i] : i \in at}, LAMBDA a, b : a.id < b.id)
               : at \in {s \in SUBSET DOMAIN AnnReadings : Cardinality(s) \in 3..5}}

RankingsInit == ranking \in {"matches", "derived", "calibration", "bias"}

-----------------------------------------------------------------------------
(* Properties                                                              *)

Flip(o) == CASE o = "a" -> "b" [] o = "b" -> "a" [] OTHER -> o
Flipped(ms) ==
  [i \in DOMAIN ms |-> [ms[i] EXCEPT !.a = ms[i].b, !.b = ms[i].a, !.outcome = Flip(@)]]

\* Ratings are handed from player to player: whoever wins takes from whoever loses,
\* nobody profits from being named first, a player who lost nothing and won
\* something is above the start and, met equally often by everybody, no strength
\* passes a player with more wins.
MatchesLaw(ms, elo, other) ==
  LET players == Players(ms) IN
  /\ Normalized(ms) = ms /\ elo = other
  /\ MapThenSumSet(LAMBDA p : elo[p], players) = InitRating * Cardinality(players)
  /\ MapThenSumSet(LAMBDA p : Tally(ms, p).wins, players)
       = MapThenSumSet(LAMBDA p : Tally(ms, p).losses, players)
  /\ \A p \in players : LET t == Tally(ms, p) IN
       /\ t.wins + t.losses + t.ties = MapThenSumSet(LAMBDA q : Games(ms, p, q), players \ {p})
       /\ t.losses + t.ties = 0 => elo[p] > InitRating
  /\ \A p, q \in players :
       LET even == [r \in players |-> 1]
           tp == Tally(ms, p)
           tq == Tally(ms, q)
       IN tp.wins >= tq.wins /\ tp.losses <= tq.losses /\ tp.ties = tq.ties =>
            \/ tp.wins + tp.losses # tq.wins + tq.losses
            \/ AtMost(Strengthen(ms, even, q), Strengthen(ms, even, p))

\* A board names everybody once, in the order of the ratings, and an interval is one.
BoardLaw(board, rating, players) ==
  /\ IsInjective(Field(board.rows, "player")) /\ ToSet(Field(board.rows, "player")) = players
  /\ \A i \in DOMAIN board.rows :
       /\ AtMost(board.rows[i].ci[1], board.rows[i].ci[2])
       /\ i > 1 => rating[board.rows[i - 1].player] >= rating[board.rows[i].player]

MatchesSound ==
  ranking = "matches" => \A raw \in MatchLists :
    LET ms == Normalized(raw)
        elo == EloPass(ms)
        fits == <<elo, [p \in Players(SubSeq(ms, 1, 1)) |-> InitRating + p]>>
    IN /\ MatchesLaw(ms, elo, EloPass(Flipped(ms)))
       /\ BoardLaw(Rank(raw, elo, fits), elo, Players(ms))

\* Every record is used or named as unmatched; one more run of the same outcome
\* changes no match; who is ahead by more than epsilon in a case wins there, from
\* whatever side one looks.
DerivedLaw(records, subject, d, again) ==
  LET usable == ToSet(SelectSeq(records, LAMBDA r : ~r.tainted /\ r.score # Nothing)) IN
  /\ d.used + d.unmatched = Len(SelectSeq(records, LAMBDA r : ~r.tainted))
  /\ ToSet(d.matches) = ToSet(again.matches) /\ again.used = 2 * d.used
  /\ Normalized(d.matches) = d.matches
  /\ \A i \in DOMAIN d.matches : LET m == d.matches[i] IN
       /\ {m.a, m.b} \subseteq {PlayerKey(r, subject) : r \in usable}
       /\ \A r, s \in {o \in usable : o.case = m.case} :
            /\ PlayerKey(r, subject) = m.a /\ PlayerKey(s, subject) = m.b
            /\ \A o \in usable : o.case = m.case /\ PlayerKey(o, subject) \in {m.a, m.b} => o \in {r, s}
            => m.outcome = IF Abs(r.score - s.score) <= 1 THEN "tie"
                           ELSE IF r.score > s.score THEN "a" ELSE "b"
DerivedSound ==
  ranking = "derived" => \A x, y, z \in RecordsRead : \A subject \in {"model", "template"} :
    DerivedLaw(<<x, y, z>>, subject, Derived(<<x, y, z>>, subject, 1),
               Derived(<<x, y, z, x, y, z>>, subject, 1))

NowSays(s, gate) == [t \in 1..2 |-> [live |-> [goal |-> s, loop |-> s], gate |-> gate]]

\* Judging again changes nothing that people were compared with, but for ratings
\* from before observations were kept; a rating that was replaced is not counted; a
\* person's verdict on a task is one, on however many axes; people who had seen each
\* other's ratings do not count as agreeing; and trust takes enough pairs.
CalibrationLaw(anns, pairs, later, overall) ==
  LET modern == SelectSeq(pairs, LAMBDA p : p.type # "legacy")
      replaced == {anns[i].supersedes : i \in DOMAIN anns}
  IN /\ modern = SelectSeq(later, LAMBDA p : p.type # "legacy")
     /\ \A i \in DOMAIN pairs : pairs[i].id \notin replaced /\ pairs[i].source = "live" => pairs[i].type = "legacy"
     /\ \A a \in ToSet(anns) : a.id \in replaced \/ \E p \in ToSet(pairs) : p.id = a.id
     /\ overall.n <= Cardinality({<<pairs[i].task, pairs[i].by>> : i \in DOMAIN pairs})
     /\ \A k \in {"goal", "loop"} :
          LET axis == AxisReport(pairs, k)
              inter == InterAnnotator(pairs, k)
          IN /\ Reliable(axis.bands, 6) => axis.bands.n >= MinSamples
             /\ inter = InterAnnotator(SelectSeq(pairs, LAMBDA p : p.blind), k)
             /\ inter.agreed <= inter.n /\ axis.bands.agreed <= axis.bands.n

CalibrationSound ==
  ranking = "calibration" => \A anns \in AnnLists :
    LET pairs == PairsOf(anns, NowSays(8, "passed")) IN
    CalibrationLaw(anns, pairs, PairsOf(anns, NowSays(1, "failed")), Overall(pairs))

\* Both passes are about the same ratings of the same people; a judge that says the
\* same again is no worse and no better; what a mitigation cannot have touched, the
\* scatter and the distance from people, moves only with the scores.
BiasLaw(r, same, judged) ==
  /\ Len(r.off) = Len(r.on) /\ r.failed => r.off = <<>>
  /\ \A i \in DOMAIN r.off :
       /\ [r.off[i] EXCEPT !.judge = 0, !.gate = "none"] = [r.on[i] EXCEPT !.judge = 0, !.gate = "none"]
       /\ r.off[i].key \in judged
  /\ same.off = same.on
  /\ LET before == Overall(same.off) IN BiasPassed(before, Overall(same.on)) = Defined(before.kappa)
  /\ ~Clustering(Field(same.off, "judge"), Field(same.on, "judge")).improved

BiasSound ==
  ranking = "bias" => \A anns \in AnnLists : \A state \in {"there", "gone"} :
    \A off, on \in [{"goal"} -> {Nothing, 4, 8}] :
      LET pairs == PairsOf(anns, NowSays(8, "passed"))
          task == [id |-> 1, state |-> state, thresholds |-> [goal |-> 6]]
      IN /\ BiasLaw(Rejudged(task, pairs, {"goal"}, off, on),
                    Rejudged(task, pairs, {"goal"}, off, off), {"goal"})
         /\ \A human \in {0, 5, 8} : Verbosity(off["goal"], on["goal"], human) =>
              ~Verbosity(on["goal"], off["goal"], human) /\ off # on
         /\ Toggles({}) # {} /\ SelfJudged(1, Field(anns, "by")) <= Len(anns)

\* What is said of models and of the judge follows from what was recorded.
RankingsSound == MatchesSound /\ DerivedSound /\ CalibrationSound /\ BiasSound
=============================================================================
