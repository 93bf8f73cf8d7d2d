------------------------------ MODULE Statistics ------------------------------
(***************************************************************************)
(* The statistics a report rests on (stats.py).  Observations are whole    *)
(* numbers; a quotient is its numerator over a positive denominator; a     *)
(* probability that has no closed form is represented by what it decreases *)
(* with.  A statistic that cannot be computed is Undefined.                *)
(***************************************************************************)
EXTENDS Integers, Sequences, FiniteSets, SequencesExt, FiniteSetsExt, Functions, Combinatorics

VARIABLE stat              \* the statistics this behaviour is about

Undefined == [num |-> 0, den |-> 0]
Quotient(n, d) == [num |-> n, den |-> d]
Defined(q) == q.den > 0
AtMost(p, q) == p.num * q.den <= q.num * p.den
Same(p, q) == Defined(p) = Defined(q) /\ p.num * q.den = q.num * p.den

Total(xs) == FoldLeft(+, 0, xs)
Squares(xs) == FoldLeft(LAMBDA acc, x : acc + x * x, 0, xs)
Abs(n) == IF n < 0 THEN -n ELSE n

\* The squared deviations of n values from their mean, times n.
Scatter(xs) == Len(xs) * Squares(xs) - Total(xs) * Total(xs)

-----------------------------------------------------------------------------
(* Agreement                                                               *)

MinSamples == 3            \* bound of the code: fewer pairs say nothing

\* score_to_band: the bands of the people's feedback.
Band(s) == IF s \notin 0..10 THEN "none" ELSE IF s < 4 THEN "bad" ELSE IF s < 8 THEN "improve" ELSE "good"

MutRanks(xs) ==
  [i \in DOMAIN xs |-> 2 * Cardinality({j \in DOMAIN xs : xs[j] < xs[i]}) + 2]

\* _rank, twice: those below, and half of those that are equal.
Ranks(xs) ==
  [i \in DOMAIN xs |-> 2 * Cardinality({j \in DOMAIN xs : xs[j] < xs[i]})
                         + Cardinality({j \in DOMAIN xs : xs[j] = xs[i]}) + 1]

\* rank_auc, from rank sums.
Auc(pos, neg) ==
  LET ranks == Ranks(pos \o neg) IN
  IF pos = <<>> \/ neg = <<>> THEN Undefined
  ELSE Quotient(Total(SubSeq(ranks, 1, Len(pos))) - Len(pos) * (Len(pos) + 1),
                2 * Len(pos) * Len(neg))

\* pearson: the sign, and the square, of the correlation.
Correlation(xs, ys) ==
  LET cov == Len(xs) * FoldLeftDomain(LAMBDA acc, i : acc + xs[i] * ys[i], 0, xs)
               - Total(xs) * Total(ys)
      spread == Scatter(xs) * Scatter(ys)
  IN IF Len(xs) < MinSamples \/ spread = 0 THEN [sign |-> 0, square |-> Undefined]
     ELSE [sign |-> IF cov > 0 THEN 1 ELSE IF cov < 0 THEN -1 ELSE 0,
           square |-> Quotient(cov * cov, spread)]

Spearman(xs, ys) == Correlation(Ranks(xs), Ranks(ys))

\* cohen_kappa: what is agreed beyond what the margins of both make likely.
Kappa(a, b, labels) ==
  LET n == Len(a)
      agreed == Cardinality({i \in 1..n : a[i] = b[i]})
      Says(r, l) == Cardinality({i \in 1..n : r[i] = l})
      likely == MapThenSumSet(LAMBDA l : Says(a, l) * Says(b, l), labels)
  IN IF n < MinSamples THEN Undefined
     ELSE IF likely >= n * n THEN Quotient(IF agreed = n THEN 1 ELSE 0, 1)
     ELSE Quotient(n * agreed - likely, n * n - likely)

\* mean_bias
MeanBias(judge, human) ==
  IF judge = <<>> THEN Undefined ELSE Quotient(Total(judge) - Total(human), Len(judge))

-----------------------------------------------------------------------------
(* Tests.  A tested sample has the difference of its means and the square  *)
(* of the statistic: the p-value falls as the square grows.                *)

NoTest == [diff |-> Undefined, square |-> Undefined]

\* welch_t_test: groups of their own spread.
Welch(a, b) ==
  LET na == Len(a)
      nb == Len(b)
      diff == Total(a) * nb - Total(b) * na
      error == Scatter(a) * nb * nb * (nb - 1) + Scatter(b) * na * na * (na - 1)
  IN IF na < MinSamples \/ nb < MinSamples \/ error = 0 THEN NoTest
     ELSE [diff |-> Quotient(diff, na * nb),
           square |-> Quotient(diff * diff * (na - 1) * (nb - 1), error)]

MinRanked == 4             \* bound of the code: MIN_MW_SAMPLES

\* Groups of equal values among n: the sum of c^3 - c over their sizes.
Ties(xs) ==
  MapThenSumSet(LAMBDA i : Cardinality({j \in DOMAIN xs : xs[j] = xs[i]})^2 - 1, DOMAIN xs)

\* mann_whitney_u, twice: the smaller of both counts of wins, and the spread the
\* ties leave, twelve n (n - 1) times.
RankSum(wins, na, nb, spread) ==
  IF na < MinRanked \/ nb < MinRanked \/ spread <= 0 THEN [u |-> -1, spread |-> 0]
  ELSE [u |-> Min({wins, 2 * na * nb - wins}), spread |-> spread]
MannWhitney(a, b) ==
  LET na == Len(a)
      nb == Len(b)
      n == na + nb
  IN RankSum(Total(SubSeq(Ranks(a \o b), 1, na)) - na * (na + 1), na, nb,
             na * nb * ((n + 1) * n * (n - 1) - Ties(a \o b)))

\* paired_t_test over the differences.
PairedT(diffs) ==
  LET n == Len(diffs) IN
  IF n < MinSamples \/ Scatter(diffs) = 0 THEN NoTest
  ELSE [diff |-> Quotient(Total(diffs), n),
        square |-> Quotient(Total(diffs) * Total(diffs) * (n - 1), Scatter(diffs))]

MinSigned == 6             \* bound of the code: MIN_WILCOXON_PAIRS

\* wilcoxon_signed_rank: the ranks of what went up, twice, of those that moved.
Wilcoxon(diffs) ==
  LET moved == SelectSeq(diffs, LAMBDA d : d # 0)
      ranks == Ranks([i \in DOMAIN moved |-> Abs(moved[i])])
  IN IF Len(moved) < MinSigned THEN [pairs |-> 0, up |-> 0]
     ELSE [pairs |-> Len(moved),
           up |-> MapThenSumSet(LAMBDA i : ranks[i], {i \in DOMAIN moved : moved[i] > 0})]

\* sign_test: both tails of a fair coin, in parts of 2^n.
SignTest(diffs) ==
  LET up == Len(SelectSeq(diffs, LAMBDA d : d > 0))
      n == Len(SelectSeq(diffs, LAMBDA d : d # 0))
      k == Min({up, n - up})
      tail == MapThenSumSet(LAMBDA i : choose(n, i), 0..k)
  IN IF n < MinSamples THEN [p |-> Undefined, up |-> 0, down |-> 0, ties |-> 0]
     ELSE [p |-> Quotient(Min({2^n, 2 * tail}), 2^n), up |-> up, down |-> n - up,
           ties |-> Len(diffs) - n]

\* paired_effect_size: the mean difference in units of its own spread, squared.
PairedEffect(diffs) ==
  IF Len(diffs) < 2 \/ Scatter(diffs) = 0 THEN Undefined
  ELSE Quotient(Total(diffs) * Total(diffs) * (Len(diffs) - 1), Len(diffs) * Scatter(diffs))

\* hedges_g: the pooled spread; the sign of the effect is the sign of diff.
Pooled(a, b) ==
  IF Len(a) < 2 \/ Len(b) < 2 THEN Undefined
  ELSE Quotient(Scatter(a) * Len(b) + Scatter(b) * Len(a),
                Len(a) * Len(b) * (Len(a) + Len(b) - 2))

HedgesDefined(a, b) == Defined(Pooled(a, b)) /\ Pooled(a, b).num > 0

-----------------------------------------------------------------------------
(* Equivalence, false discoveries, proportions, power                      *)

\* The square of the one-sided five percent quantile of Student's t, in tenths.
Critical(df) == CASE df = 2 -> 85 [] df = 3 -> 55 [] OTHER -> 45

\* tost_equivalence: the mean lies above -margin and below margin, both beyond
\* the quantile; when every case moved alike no test is needed.
Tost(diffs, margin) ==
  LET n == Len(diffs)
      Beyond(distance) ==
        distance > 0 /\ 10 * distance * distance * (n - 1) > Critical(n - 1) * Scatter(diffs)
  IN IF margin <= 0 \/ n < MinSamples THEN "undefined"
     ELSE IF IF Scatter(diffs) = 0 THEN Abs(Total(diffs)) < n * margin
             ELSE Beyond(Total(diffs) + n * margin) /\ Beyond(n * margin - Total(diffs))
          THEN "equivalent" ELSE "inconclusive"

Whole(m) == factorial[m]   \* a common multiple of the ranks

MutBenjaminiHochberg(ps, one) ==
  LET m == Len(ps)
      order == SortSeq([i \in 1..m |-> i], LAMBDA i, j : ps[i] < ps[j] \/ (ps[i] = ps[j] /\ i < j))
  IN [i \in 1..m |-> LET rank == Min({k \in 1..m : order[k] = i}) IN
        Min({one * Whole(m), ps[i] * m * (Whole(m) \div rank)})]

\* benjamini_hochberg, Whole(m) times: each q-value is capped by the next larger.
BenjaminiHochberg(ps, one) ==
  LET m == Len(ps)
      order == SortSeq([i \in 1..m |-> i], LAMBDA i, j : ps[i] < ps[j] \/ (ps[i] = ps[j] /\ i < j))
      Cap(i, acc) ==
        LET q == Min({acc.running, ps[order[i]] * m * (Whole(m) \div i)}) IN
        [running |-> q, q |-> [acc.q EXCEPT ![order[i]] = q]]
  IN FoldRight(Cap, [i \in 1..m |-> i],
               [running |-> one * Whole(m), q |-> [i \in 1..m |-> 0]]).q

\* wilson_interval, in percent: the proportions that n observations with so many
\* successes do not reject (z squared is 3.84).
Wilson(successes, n) ==
  IF n <= 0 \/ successes \notin 0..n THEN {}
  ELSE {x \in 0..100 : 25 * (100 * successes - n * x) * (100 * successes - n * x)
                         <= 96 * n * x * (100 - x)}

\* _percentiles of m sorted draws, a share of one part in "of" cut off at each end.
Percentiles(draws, of) ==
  LET m == Len(draws) IN
  [lo |-> draws[Max({0, (m \div of) - 1}) + 1],
   hi |-> draws[Min({m - 1, (m * (of - 1)) \div of}) + 1]]

\* _power_from_sd: z squared is 7.85.  What n could have seen, and the least n
\* that would have seen what was observed.
Power(var, diff, n, paired) ==
  LET groups == IF paired THEN 1 ELSE 2
      need == 157 * groups * var.num * diff.den * diff.den
      per == 20 * var.den * diff.num * diff.num
  IN IF ~Defined(var) \/ var.num = 0 \/ n < 2 THEN [mde |-> Undefined, required |-> 0]
     ELSE [mde |-> Quotient(157 * groups * var.num, 20 * var.den * n),
           required |-> IF diff.num = 0 THEN 0 ELSE Max({2, (need + per - 1) \div per})]

\* paired_power, unpaired_power: groups of different size count as their harmonic
\* mean, rounded down.
PairedPower(diffs) ==
  LET n == Len(diffs) IN
  Power(Quotient(Scatter(diffs), n * (n - 1)), Quotient(Total(diffs), n), n, TRUE)
UnpairedPower(a, b) ==
  Power(Pooled(a, b), Quotient(Total(a) * Len(b) - Total(b) * Len(a), Len(a) * Len(b)),
        (2 * Len(a) * Len(b)) \div (Len(a) + Len(b)), FALSE)

-----------------------------------------------------------------------------
(* The inputs                                                              *)

Samples(S, lo, hi) == UNION {[1..n -> S] : n \in lo..hi}

\* The order within a group says nothing.
Ascending(S, lo, hi) ==
  {xs \in Samples(S, lo, hi) : \A i \in 1..(Len(xs) - 1) : xs[i] <= xs[i + 1]}

StatisticsInit == stat \in {"agreement", "paired", "groups", "discoveries", "intervals"}

-----------------------------------------------------------------------------
(* Properties                                                              *)

Negated(xs) == [i \in DOMAIN xs |-> -xs[i]]

\* Agreement does not depend on who is named first, is one only for raters that
\* agree on everything, and is the same for a scale that is stretched; the share
\* of wins is what counting the pairs gives and loses nothing to the other side.
AgreementSound ==
  stat = "agreement" =>
    /\ \A a \in Ascending(0..2, 1, 4) : \A b \in [DOMAIN a -> 0..2] :
         LET n == Len(a)
             k == Kappa(a, b, 0..2)
             r == Spearman(a, b)
             stretched == Spearman([i \in 1..n |-> a[i] * a[i]], b)
         IN /\ Same(k, Kappa(b, a, 0..2)) /\ Defined(k) = (n >= MinSamples)
            /\ Defined(k) => k.num <= k.den /\ (k.num = k.den) = (a = b)
            /\ r = stretched /\ r.square = Spearman(b, a).square
            /\ Defined(r.square) => r.square.num <= r.square.den
            /\ a = b /\ Defined(r.square) => r.sign = 1
            /\ Same(MeanBias(a, b), Quotient(-MeanBias(b, a).num, n))
    /\ \A p, q \in Ascending(0..2, 1, 3) :
         LET wins == Cardinality({i \in (DOMAIN p) \X (DOMAIN q) : p[i[1]] > q[i[2]]})
             ties == Cardinality({i \in (DOMAIN p) \X (DOMAIN q) : p[i[1]] = q[i[2]]})
         IN /\ Auc(p, q).num = 2 * wins + ties
            /\ Auc(p, q).num + Auc(q, p).num = Auc(p, q).den
    /\ \A s \in -1..10 : (Band(s) = "none") = (s < 0)

\* A paired comparison reads the same from both sides; shifting every case alike
\* is found by the sign test and by no test that needs a spread; four cases can
\* never be significant there; a difference cannot be found equivalent to nothing at a
\* margin it exceeds, and a wider margin never takes the equivalence back.
PairedSound ==
  stat = "paired" =>
    /\ \A diffs \in Samples(-2..2, 1, 4) :
         LET back == Negated(diffs)
             s == SignTest(diffs)
             t == PairedT(diffs)
             needed == PairedPower(diffs)
         IN /\ Same(s.p, SignTest(back).p) /\ <<s.up, s.down>> = <<SignTest(back).down, SignTest(back).up>>
            /\ Same(t.square, PairedT(back).square) /\ t.diff.num = -PairedT(back).diff.num
            /\ Defined(s.p) => s.p.num <= s.p.den /\ 20 * s.p.num > s.p.den
            /\ ~Defined(t.square) /\ Len(diffs) >= 3 /\ Total(diffs) # 0 => Defined(s.p)
            /\ Defined(t.square) => Defined(PairedEffect(diffs))
            /\ \A m \in 1..3 :
                 /\ Tost(diffs, m) = "equivalent" => /\ Abs(Total(diffs)) < m * Len(diffs)
                                                     /\ Tost(diffs, m + 1) = "equivalent"
                 /\ Tost(diffs, m) = Tost(back, m)
            /\ needed.required > 0 =>
                 LET d == Quotient(Total(diffs) * Total(diffs), Len(diffs) * Len(diffs))
                     Sees(k) == AtMost(Quotient(needed.mde.num * Len(diffs), needed.mde.den * k), d)
                 IN /\ Sees(needed.required)
                    /\ needed.required > 2 => ~Sees(needed.required - 1)
    /\ \A diffs \in [1..6 -> {-2, -1, 1}] :
         LET w == Wilcoxon(diffs) IN
         /\ w.up + Wilcoxon(Negated(diffs)).up = 6 * 7
         /\ Wilcoxon(diffs \o <<0>>) = w
         /\ w.up = 0 <=> SignTest(diffs).up = 0

\* Two groups compare the same from both sides and on a stretched scale as far as
\* only ranks are read; every test is silent about groups without any spread.
GroupsSound ==
  stat = "groups" =>
    /\ \A a, b \in Ascending(0..2, 2, 3) :
         LET t == Welch(a, b)
             power == UnpairedPower(a, b)
         IN /\ Same(t.square, Welch(b, a).square) /\ t.diff.num = -Welch(b, a).diff.num
            /\ Defined(t.square) => HedgesDefined(a, b)
            /\ HedgesDefined(a, b) = Defined(power.mde)
            /\ power.required = UnpairedPower(b, a).required
    /\ \A a, b \in Ascending(0..2, 4, 4) :
         LET u == MannWhitney(a, b)
             stretched == MannWhitney([i \in 1..4 |-> a[i] * a[i]], [i \in 1..4 |-> b[i] * b[i]])
         IN /\ u = MannWhitney(b, a) /\ u = stretched
            /\ (u.spread = 0) = (ToSet(a) = ToSet(b) /\ Cardinality(ToSet(a)) = 1)
            /\ u.spread > 0 => u.u = Min({Auc(a, b).num, Auc(b, a).num})

\* Correction only takes away: a q-value is at least its p-value and a probability,
\* equal tests stay equal, the ranking of findings survives, and one more hopeless
\* test never makes another one more significant.
DiscoveriesSound ==
  stat = "discoveries" => \A ps \in Samples(0..4, 1, 4) :
    LET q == BenjaminiHochberg(ps, 4)
        more == BenjaminiHochberg(Append(ps, 4), 4)
    IN \A i, j \in DOMAIN ps :
         /\ ps[i] * Whole(Len(ps)) <= q[i] /\ q[i] <= 4 * Whole(Len(ps))
         /\ ps[i] <= ps[j] => q[i] <= q[j]
         /\ q[i] * (Len(ps) + 1) <= more[i]

\* An interval holds what was observed, mirrors when successes and failures swap,
\* claims no certainty on an empty cell, and the tails it cuts are equally long.
IntervalsSound ==
  stat = "intervals" =>
    /\ \A n \in 1..8 : \A s \in 0..n :
         LET w == Wilson(s, n) IN
         /\ {(100 * s) \div n, (100 * s + n - 1) \div n} \cap w # {}
         /\ w = {100 - x : x \in Wilson(n - s, n)}
         /\ Max(w) - Min(w) > 30 /\ w = Min(w)..Max(w)
         /\ s < n => Max(w) <= Max(Wilson(s + 1, n)) /\ Min(w) <= Min(Wilson(s + 1, n))
    /\ \A m \in {4, 8} : \A cut \in 0..m : \A top \in cut..m :
         LET draws == [i \in 1..m |-> IF i <= cut THEN 0 ELSE IF i <= top THEN 1 ELSE 2]
             ci == Percentiles(draws, 4)
             mirrored == Percentiles([i \in 1..m |-> 2 - draws[m + 1 - i]], 4)
         IN /\ ci.lo <= ci.hi
            /\ mirrored = [lo |-> 2 - ci.hi, hi |-> 2 - ci.lo]

\* A report's numbers mean what their names say.
StatisticsSound ==
  /\ AgreementSound /\ PairedSound /\ GroupsSound /\ DiscoveriesSound /\ IntervalsSound
=============================================================================
