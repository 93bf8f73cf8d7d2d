------------------------ MODULE Computations_proofs ------------------------
(***************************************************************************)
(* What evaluators and reports compute, for every input.  The runs check   *)
(* these computations on the inputs their modules list; here are those of  *)
(* their laws that need no fold over a sequence: the gate of a profile,    *)
(* the tools a task requires, the grade of a density, the files a probe    *)
(* inspects, the trust in an axis, the frontier of configurations, the     *)
(* drift under an experiment, agreement, the ratings of matches, the word  *)
(* a rating keeps of its judge, buckets and intervals.                     *)
(***************************************************************************)
EXTENDS Verdicts, Rankings, FiniteSetTheorems, SequenceTheorems, WellFoundedInduction, TLAPS

-----------------------------------------------------------------------------
(* The tools a task requires                                                *)

\* A name has a first part; behind a server's name there are more.
ToolName == Seq(STRING) \ {<<>>}
Served(names, server) == {<<server>> \o c : c \in names}

\* What is left of a sequence behind its first member.
LEMMA TailOfJoined ==
  ASSUME NEW S, NEW c \in Seq(S), NEW x \in S
  PROVE  Len(<<x>> \o c) = Len(c) + 1 /\ Tail(<<x>> \o c) = c
<1>0. <<x>> \in Seq(S) /\ Len(<<x>>) = 1
  OBVIOUS
<1>1. PICK h \in Seq(S) : h = <<x>> /\ Len(h) = 1
  BY <1>0
<1>2. /\ h \o c \in Seq(S) /\ Len(h \o c) = Len(h) + Len(c)
      /\ \A i \in 1..Len(h) + Len(c) : (h \o c)[i] = IF i <= Len(h) THEN h[i] ELSE c[i - Len(h)]
  BY ConcatProperties, Zenon
<1>3. PICK d \in Seq(S) : d = h \o c
  BY <1>2, Zenon
<1>4. /\ Len(d) = Len(h) + Len(c)
      /\ \A i \in 1..Len(h) + Len(c) : d[i] = IF i <= Len(h) THEN h[i] ELSE c[i - Len(h)]
  BY <1>2, <1>3
<1>5. Len(d) = Len(c) + 1 /\ Len(c) \in Nat /\ c \in [1..Len(c) -> S]
  BY <1>1, <1>4
<1>6. \A i \in 1..Len(c) : d[i + 1] = c[i]
  BY <1>1, <1>4, <1>5
<1>7. d # <<>>
  BY <1>5
<1>8. Tail(d) \in Seq(S) /\ Len(Tail(d)) = Len(d) - 1 /\ \A i \in 1..Len(Tail(d)) : Tail(d)[i] = d[i + 1]
  BY <1>7, HeadTailProperties, Zenon
<1>9. PICK e \in Seq(S) : e = Tail(d)
  BY <1>8, Zenon
<1>10. Len(e) = Len(c)
  BY <1>5, <1>8, <1>9
<1>11. e \in [1..Len(c) -> S]
  BY <1>10
<1>12. \A i \in 1..Len(c) : e[i] = c[i]
  BY <1>6, <1>8, <1>9, <1>10
<1>13. e = c
  BY <1>5, <1>11, <1>12
<1>14. <<x>> \o c = d
  BY <1>1, <1>3
<1>15. QED
  BY <1>14, <1>5, <1>9, <1>13, Zenon

\* Behind a server's name a tool is known by its own.
LEMMA ServedIsKnown ==
  ASSUME NEW c \in ToolName, NEW server \in STRING, NEW called, <<server>> \o c \in called
  PROVE  c \in Expanded(called)
<1>1. c \in Seq(STRING) /\ Len(c) \in Nat /\ Len(c) # 0
  BY DEF ToolName
<1>2. PICK n : n = <<server>> \o c
  OBVIOUS
<1>3. Len(n) = Len(c) + 1 /\ Tail(n) = c
  BY <1>1, <1>2, TailOfJoined, Zenon
<1>4. Len(n) > 1
  BY <1>1, <1>3
<1>5. n \in {m \in called : Len(m) > 1}
  BY <1>2, <1>4
<1>6. QED
  BY <1>3, <1>5, Zenon DEF Expanded

\* More calls, more names.
LEMMA MoreIsKnown ==
  ASSUME NEW called, NEW more
  PROVE  Expanded(called) \subseteq Expanded(called \cup more)
BY DEF Expanded

\* Required tools count as used only on a call, of the tool or of it behind a server;
\* further calls never take that back; and all of them are more than any of them.
THEOREM ToolsHold ==
  ASSUME NEW required \in SUBSET ToolName, required # {}, NEW called \in SUBSET ToolName,
         NEW more \in SUBSET ToolName, NEW server \in STRING
  PROVE  /\ ToolUsed(required, called, "all") => ToolUsed(required, called, "any")
         /\ \A m \in {"all", "any"} :
              /\ ToolUsed(required, called, m) => ToolUsed(required, called \cup more, m)
              /\ ToolUsed(required, Served(required, server) \cup called, m)
              /\ ToolUsed(required, called, m) => \E t \in required : t \in Expanded(called)
         /\ \A m \in {"all", "any"} : ~ToolUsed(required, {}, m)
<1>1. ToolUsed(required, called, "all") => ToolUsed(required, called, "any")
  BY DEF ToolUsed
<1>2. ASSUME NEW m \in {"all", "any"}, ToolUsed(required, called, m)
      PROVE  ToolUsed(required, called \cup more, m)
  BY <1>2, MoreIsKnown DEF ToolUsed
<1>3. \A t \in required : t \in Expanded(Served(required, server) \cup called)
  BY ServedIsKnown DEF Served
<1>4. ASSUME NEW m \in {"all", "any"}
      PROVE  ToolUsed(required, Served(required, server) \cup called, m)
  BY <1>3 DEF ToolUsed
<1>5. ASSUME NEW m \in {"all", "any"}, NEW names, ToolUsed(required, names, m)
      PROVE  \E t \in required : t \in Expanded(names)
  BY <1>5 DEF ToolUsed
<1>6. Expanded({}) = {}
  BY DEF Expanded
<1>7. QED
  BY <1>1, <1>2, <1>4, <1>5, <1>6

-----------------------------------------------------------------------------
(* Drift                                                                    *)

\* A set of values is one value, or two of them differ.
LEMMA TwoDiffer ==
  ASSUME NEW S, IsFiniteSet(S)
  PROVE  Cardinality(S) > 1 <=> \E x, y \in S : x # y
<1>1. CASE S = {}
  BY <1>1, FS_EmptySet
<1>2. CASE S # {}
  <2>1. PICK x \in S : TRUE
    BY <1>2
  <2>2. IsFiniteSet(S \ {x}) /\ Cardinality(S \ {x}) = Cardinality(S) - 1 /\ Cardinality(S) \in Nat
    BY <2>1, FS_RemoveElement, FS_CardinalityType
  <2>3. Cardinality(S \ {x}) \in Nat /\ (Cardinality(S \ {x}) = 0 <=> S \ {x} = {})
    BY <2>2, FS_EmptySet, FS_CardinalityType
  <2>4. Cardinality(S) > 1 <=> S \ {x} # {}
    BY <2>2, <2>3
  <2>5. QED
    BY <2>1, <2>4
<1>3. QED
  BY <1>1, <1>2

\* The image of a sequence is finite.
LEMMA ImageFinite ==
  ASSUME NEW f, NEW n \in Nat, DOMAIN f = 1..n
  PROVE  IsFiniteSet({f[i] : i \in 1..n})
<1>1. PICK T : T = {f[i] : i \in 1..n}
  OBVIOUS
<1>2. PICK g : g = [i \in 1..n |-> f[i]]
  OBVIOUS
<1>3. g \in Surjection(1..n, T)
  BY <1>1, <1>2 DEF Surjection
<1>4. IsFiniteSet(1..n)
  BY FS_Interval
<1>5. IsFiniteSet(T)
  BY <1>3, <1>4, FS_Surjection, Zenon
<1>6. QED
  BY <1>1, <1>5

-----------------------------------------------------------------------------
(* The frontier of configurations                                           *)

Quot == [num : Int, den : Nat]
Point == [quality : Quot, cost : Quot, effort : Quot]
Valued == {p \in Point : Defined(p.quality)}

\* Quotients are ordered: each is at most itself, and the order carries over.
LEMMA AtMostOrder ==
  ASSUME NEW p \in Quot, NEW q \in Quot, NEW r \in Quot, Defined(p), Defined(q), Defined(r)
  PROVE  AtMost(p, p) /\ (AtMost(p, q) /\ AtMost(q, r) => AtMost(p, r))
<1>1. PICK a \in Int, b \in Nat : a = p.num /\ b = p.den /\ b > 0
  BY DEF Quot, Defined
<1>2. PICK c \in Int, d \in Nat : c = q.num /\ d = q.den /\ d > 0
  BY DEF Quot, Defined
<1>3. PICK e \in Int, f \in Nat : e = r.num /\ f = r.den /\ f > 0
  BY DEF Quot, Defined
<1>4. ASSUME a * d <= c * b, c * f <= e * d
      PROVE  a * f <= e * b
  <2>1. (a * d) * f <= (c * b) * f
    BY <1>1, <1>2, <1>3, <1>4
  <2>2. (c * f) * b <= (e * d) * b
    BY <1>1, <1>2, <1>3, <1>4
  <2>3. (a * d) * f = (a * f) * d /\ (c * b) * f = (c * f) * b /\ (e * d) * b = (e * b) * d
    BY <1>1, <1>2, <1>3
  <2>4. PICK x \in Int, y \in Int : x = a * f /\ y = e * b
    BY <1>1, <1>3
  <2>5. PICK z \in Int : z = (c * f) * b
    BY <1>1, <1>2, <1>3
  <2>6. x * d <= z /\ z <= y * d /\ x * d \in Int /\ y * d \in Int
    BY <2>1, <2>2, <2>3, <2>4, <2>5, <1>2
  <2>7. x * d <= y * d
    BY <2>6, <2>5
  <2>8. x <= y
    BY <2>4, <2>7, <1>2
  <2>9. QED
    BY <2>4, <2>8
<1>5. a * b <= a * b
  BY <1>1
<1>6. QED
  BY <1>1, <1>2, <1>3, <1>4, <1>5 DEF AtMost

\* So are the points of a report: to be at least as good carries over, and to be
\* better too.
LEMMA AtleastOrder ==
  ASSUME NEW p \in Valued, NEW q \in Valued, NEW r \in Valued
  PROVE  /\ Atleast(p, p)
         /\ Atleast(p, q) /\ Atleast(q, r) => Atleast(p, r)
         /\ Dominates(p, q) /\ Dominates(q, r) => Dominates(p, r)
         /\ ~Dominates(p, p)
<1>1. \A v \in Valued : /\ v.quality \in Quot /\ Free(v.cost) \in Quot /\ Free(v.effort) \in Quot
                        /\ Defined(v.quality) /\ Defined(Free(v.cost)) /\ Defined(Free(v.effort))
  BY DEF Valued, Point, Quot, Free, Defined, Quotient
<1>2. \A u, v, w \in Valued : Atleast(u, v) /\ Atleast(v, w) => Atleast(u, w)
  <2> TAKE u, v, w \in Valued
  <2>1. AtMost(w.quality, v.quality) /\ AtMost(v.quality, u.quality) => AtMost(w.quality, u.quality)
    BY <1>1, AtMostOrder
  <2>2. AtMost(Free(u.cost), Free(v.cost)) /\ AtMost(Free(v.cost), Free(w.cost))
          => AtMost(Free(u.cost), Free(w.cost))
    BY <1>1, AtMostOrder
  <2>3. AtMost(Free(u.effort), Free(v.effort)) /\ AtMost(Free(v.effort), Free(w.effort))
          => AtMost(Free(u.effort), Free(w.effort))
    BY <1>1, AtMostOrder
  <2>4. QED
    BY <2>1, <2>2, <2>3 DEF Atleast
<1>3. \A v \in Valued : Atleast(v, v)
  BY <1>1, AtMostOrder DEF Atleast
<1>4. QED
  BY <1>2, <1>3 DEF Dominates

\* Somebody is on the frontier, nobody on it is beaten, whoever is not on it is
\* beaten by somebody who is, and who reached the same is on it too: for any
\* configurations, however many (FrontierSound in Reports).
THEOREM FrontierHolds ==
  ASSUME NEW Names, IsFiniteSet(Names), NEW points \in [Names -> Point],
         NEW valid, valid = {c \in Names : Defined(points[c].quality)},
         NEW on, on = ParetoFrontier(points)
  PROVE  /\ valid # {} => on # {}
         /\ \A c \in on, d \in valid : ~Dominates(points[d], points[c])
         /\ \A c \in valid \ on : \E d \in on : Dominates(points[d], points[c])
         /\ \A c \in on, d \in valid : points[c] = points[d] => d \in on
<1>1. on = {c \in valid : ~\E d \in valid \ {c} : Dominates(points[d], points[c])}
  BY DEF ParetoFrontier
<1>2. \A c \in valid : points[c] \in Valued
  BY DEF Valued
<1>3. \A c \in valid : c \in on <=> ~\E d \in valid : Dominates(points[d], points[c])
  BY <1>1, <1>2, AtleastOrder
<1>4. ASSUME NEW c \in valid, c \notin on
      PROVE  \E d \in on : Dominates(points[d], points[c])
  <2>1. PICK Over : Over = [e \in valid |-> {d \in valid : Dominates(points[d], points[e])}]
    OBVIOUS
  <2>2. PICK T : T = {Over[e] : e \in Over[c]}
    OBVIOUS
  <2>0. PICK w \in valid : w \in Over[c]
    BY <1>3, <1>4, <2>1
  <2>3. T # {}
    BY <2>0, <2>2
  <2>4. IsFiniteSet(valid)
    BY FS_Subset
  <2>5. T \subseteq SUBSET valid
    BY <2>1, <2>2
  <2>6. IsWellFoundedOn(StrictSubsetOrdering(valid), SUBSET valid)
    BY <2>4, FS_StrictSubsetOrderingWellFounded, FS_FiniteSubsetsOfFinite
  <2>7. PICK least \in T : \A other \in T : <<other, least>> \notin StrictSubsetOrdering(valid)
    BY <2>3, <2>5, <2>6, WFMin, Zenon
  <2>8. PICK d \in valid : d \in Over[c] /\ least = Over[d]
    BY <2>1, <2>2, <2>7
  <2>9. ASSUME NEW f \in valid, Dominates(points[f], points[d])
        PROVE  FALSE
    <3>1. f \in Over[c]
      BY <1>2, <2>1, <2>8, <2>9, AtleastOrder
    <3>2. Over[f] \in T
      BY <2>2, <3>1
    <3>3. Over[f] \subseteq Over[d]
      BY <1>2, <2>1, <2>9, AtleastOrder
    <3>4. f \in Over[d] /\ f \notin Over[f]
      BY <1>2, <2>1, <2>9, AtleastOrder
    <3>5. <<Over[f], Over[d]>> \in StrictSubsetOrdering(valid)
      BY <2>5, <2>8, <3>2, <3>3, <3>4 DEF StrictSubsetOrdering
    <3>6. QED
      BY <2>7, <2>8, <3>2, <3>5
  <2>10. d \in on
    BY <1>3, <2>9
  <2>11. QED
    BY <2>1, <2>8, <2>10
<1>5. QED
  BY <1>1, <1>3, <1>4

-----------------------------------------------------------------------------
(* Trust in a judged axis                                                   *)

PeopleReading == [kappa : Quot, n : Nat, rho : Int]
Counter == [ran : BOOLEAN, paired : Nat, kappa : Quot]

\* As much evidence and as much agreement.
AsSure(more, than) ==
  /\ more.n >= than.n /\ more.rho >= than.rho
  /\ Defined(than.kappa) => Defined(more.kappa) /\ AtMost(than.kappa, more.kappa)

\* What agrees at least as well passes every threshold the other passes.
LEMMA ThresholdKept ==
  ASSUME NEW p \in Quot, NEW q \in Quot, Defined(p), Defined(q), AtMost(p, q),
         NEW t \in Nat, 10 * p.num >= t * p.den
  PROVE  10 * q.num >= t * q.den
<1>1. PICK a \in Int, b \in Nat : a = p.num /\ b = p.den /\ b > 0
  BY DEF Quot, Defined
<1>2. PICK c \in Int, d \in Nat : c = q.num /\ d = q.den /\ d > 0
  BY DEF Quot, Defined
<1>3. a * d <= c * b /\ 10 * a >= t * b
  BY <1>1, <1>2 DEF AtMost
<1>4. (10 * a) * d >= (t * b) * d
  BY <1>1, <1>2, <1>3
<1>5. (10 * a) * d = 10 * (a * d) /\ (t * b) * d = (t * d) * b /\ (10 * c) * b = 10 * (c * b)
  BY <1>1, <1>2
<1>6. PICK x \in Int, y \in Int : x = 10 * c /\ y = t * d
  BY <1>2
<1>7. PICK u \in Int, v \in Int : u = a * d /\ v = c * b
  BY <1>1, <1>2
<1>8. u <= v /\ 10 * u >= y * b /\ x * b = 10 * v /\ y * b \in Int /\ x * b \in Int
  BY <1>1, <1>3, <1>4, <1>5, <1>6, <1>7
<1>9. x * b >= y * b
  BY <1>7, <1>8
<1>10. x >= y
  BY <1>1, <1>6, <1>9
<1>11. QED
  BY <1>2, <1>6, <1>10

\* Evidence is needed to be trusted, and as sure a reading is trusted as much.
LEMMA PeopleTrust ==
  ASSUME NEW p \in PeopleReading
  PROVE  /\ ByPeople(p).status \in RankTrust => p.n >= MinSamples /\ Defined(p.kappa)
         /\ \A q \in PeopleReading : AsSure(q, p) =>
              /\ ByPeople(p).status \in NumericTrust => ByPeople(q).status \in NumericTrust
              /\ ByPeople(p).status \in RankTrust => ByPeople(q).status \in RankTrust
<1>1. \A r \in PeopleReading :
        /\ r.n \in Nat /\ r.kappa \in Quot /\ r.rho \in Int
        /\ ByPeople(r).status \in RankTrust => r.n >= MinSamples /\ Defined(r.kappa)
        /\ r.n >= MinSamples /\ Defined(r.kappa) =>
             /\ ByPeople(r).status \in NumericTrust <=> 10 * r.kappa.num >= 4 * r.kappa.den
             /\ ByPeople(r).status \in RankTrust <=> 10 * r.kappa.num >= 4 * r.kappa.den \/ r.rho >= 50
  <2> TAKE r \in PeopleReading
  <2>1. r.n \in Nat /\ r.kappa \in Quot /\ r.rho \in Int
    BY DEF PeopleReading
  <2>2. PICK k \in Int, d \in Nat : k = r.kappa.num /\ d = r.kappa.den
    BY <2>1 DEF Quot
  <2>3. PICK n \in Nat, rho \in Int : n = r.n /\ rho = r.rho
    BY <2>1
  <2>4. ByPeople(r).status =
          IF d = 0 \/ n < MinSamples THEN "insufficient"
          ELSE IF 10 * k >= 6 * d THEN "reliable_absolute"
          ELSE IF 10 * k >= 4 * d THEN "moderate_agreement"
          ELSE IF rho >= 50 THEN "rank_only" ELSE "unreliable"
    BY <2>2, <2>3 DEF ByPeople, ClassifyReliability, Defined, MinSamples
  <2>5. PICK st : st = ByPeople(r).status
    OBVIOUS
  <2>6. /\ st \in RankTrust => n >= MinSamples /\ d > 0
        /\ n >= MinSamples /\ d > 0 =>
             /\ st \in NumericTrust <=> 10 * k >= 4 * d
             /\ st \in RankTrust <=> 10 * k >= 4 * d \/ rho >= 50
    BY <2>4, <2>5 DEF RankTrust, NumericTrust, MinSamples
  <2>7. QED
    BY <2>1, <2>2, <2>3, <2>5, <2>6 DEF Defined
<1>2. ASSUME NEW q \in PeopleReading, AsSure(q, p), p.n >= MinSamples, Defined(p.kappa)
      PROVE  /\ q.n >= MinSamples /\ Defined(q.kappa) /\ q.rho >= p.rho
             /\ 10 * p.kappa.num >= 4 * p.kappa.den => 10 * q.kappa.num >= 4 * q.kappa.den
  BY <1>1, <1>2, ThresholdKept DEF AsSure, MinSamples
<1>3. ASSUME NEW q \in PeopleReading, AsSure(q, p)
      PROVE  /\ ByPeople(p).status \in NumericTrust => ByPeople(q).status \in NumericTrust
             /\ ByPeople(p).status \in RankTrust => ByPeople(q).status \in RankTrust
  <2>1. NumericTrust \subseteq RankTrust
    BY DEF RankTrust
  <2>2. CASE p.n >= MinSamples /\ Defined(p.kappa)
    BY <1>1, <1>2, <1>3, <2>2
  <2>3. CASE ~(p.n >= MinSamples /\ Defined(p.kappa))
    BY <1>1, <2>1, <2>3
  <2>4. QED
    BY <2>2, <2>3
<1>4. QED
  BY <1>1, <1>3

\* What the axes of a judge may carry, whoever was rated on whichever of them: what
\* may carry a number may be ranked; nothing is ranked without people who rated it
\* enough and agreed with it measurably; the counter that says yes or no licenses
\* neither and overrules no people who rated enough; and more people, who agree as
\* well, never cost an axis its trust (TrustSound in Reports).
THEOREM TrustHolds ==
  ASSUME NEW Rated1, NEW people \in [Rated1 -> PeopleReading],
         NEW Rated2, NEW later \in [Rated2 -> PeopleReading],
         Rated1 \subseteq Rated2, \A a \in Rated1 : AsSure(later[a], people[a]),
         NEW counted \in Counter,
         NEW trust, trust = AxisReliability(people, counted),
         NEW more, more = AxisReliability(later, counted)
  PROVE  /\ Numeric(trust) \subseteq Ranked(trust)
         /\ \A a \in Ranked(trust) :
              /\ a \in Rated1 /\ trust[a].source = "human"
              /\ people[a].n >= MinSamples /\ Defined(people[a].kappa)
         /\ \A a \in EveryAxis : trust[a].source = "structural" =>
              a \notin Ranked(trust) /\ (a \in Rated1 => people[a].n < MinSamples)
         /\ Numeric(trust) \subseteq Numeric(more) /\ Ranked(trust) \subseteq Ranked(more)
         /\ \A a \in Ranked(OutcomeReliability(people)) : a \in Rated1 \ EveryAxis
<1>1. /\ DOMAIN trust = EveryAxis /\ DOMAIN more = EveryAxis
      /\ DOMAIN people = Rated1 /\ DOMAIN later = Rated2
  BY DEF AxisReliability
<1> DEFINE Structural == [source |-> "structural",
                          status |-> ClassifyReliability(counted.kappa, counted.paired, TRUE, 0, TRUE)]
<1>2. Structural.status \notin RankTrust
  BY DEF ClassifyReliability, RankTrust, NumericTrust
<1>3. Nobody.status \notin RankTrust
  BY DEF Nobody, RankTrust, NumericTrust
<1>4. \A a \in EveryAxis :
        \/ /\ a \in Rated1 /\ trust[a] = ByPeople(people[a])
           /\ people[a].n < MinSamples => ByPeople(people[a]).status \notin RankTrust
        \/ trust[a] = Structural /\ (a \in Rated1 => people[a].n < MinSamples)
        \/ trust[a] = Nobody /\ a \notin Rated1
  <2> TAKE a \in EveryAxis
  <2>1. a \in Rated1 /\ people[a].n < MinSamples => ByPeople(people[a]).status \notin RankTrust
    BY PeopleTrust DEF PeopleReading, MinSamples
  <2>2. a \in Rated1 => people[a].n \in Nat
    BY DEF PeopleReading
  <2>3. trust[a] = IF a \in Rated1 /\ people[a].n >= MinSamples THEN ByPeople(people[a])
                   ELSE IF a = "loop" /\ counted.ran /\ counted.paired >= MinSamples THEN Structural
                   ELSE IF a \in Rated1 THEN ByPeople(people[a])
                   ELSE IF a = "loop" /\ counted.ran THEN Structural ELSE Nobody
    BY <1>1, Zenon DEF AxisReliability
  <2>4. a \in Rated1 => (people[a].n < MinSamples <=> ~(people[a].n >= MinSamples))
    BY <2>2 DEF MinSamples
  <2> HIDE DEF Structural
  <2>5. QED
    BY <2>1, <2>3, <2>4
<1>5. \A a \in Rated2 \cap EveryAxis : later[a].n >= MinSamples => more[a] = ByPeople(later[a])
  BY <1>1 DEF AxisReliability
<1>6. \A r : ByPeople(r).source = "human"
  BY DEF ByPeople
<1>7. \A a \in EveryAxis : trust[a].status \in RankTrust =>
        /\ a \in Rated1 /\ trust[a] = ByPeople(people[a]) /\ trust[a].source = "human"
        /\ people[a].n >= MinSamples /\ Defined(people[a].kappa)
  BY <1>2, <1>3, <1>4, <1>6, PeopleTrust
<1>8. NumericTrust \subseteq RankTrust
  BY DEF RankTrust
<1>9. ASSUME NEW a \in EveryAxis, trust[a].status \in RankTrust
      PROVE  /\ more[a].status \in RankTrust
             /\ trust[a].status \in NumericTrust => more[a].status \in NumericTrust
  <2>1. a \in Rated1 /\ a \in Rated2 /\ people[a] \in PeopleReading /\ later[a] \in PeopleReading
    BY <1>7, <1>9
  <2>2. /\ ByPeople(later[a]).status \in RankTrust
        /\ trust[a].status \in NumericTrust => ByPeople(later[a]).status \in NumericTrust
    BY <1>7, <1>9, <2>1, PeopleTrust
  <2>3. later[a].n >= MinSamples
    BY <2>1, <2>2, PeopleTrust
  <2>4. QED
    BY <1>5, <2>1, <2>2, <2>3
<1>10. Numeric(trust) \subseteq Ranked(trust)
  BY <1>8 DEF Numeric, Ranked
<1>11. \A a \in Ranked(trust) : a \in EveryAxis /\ trust[a].status \in RankTrust
  BY <1>1 DEF Ranked
<1>12. \A a \in EveryAxis : trust[a].source = "structural" =>
         a \notin Ranked(trust) /\ (a \in Rated1 => people[a].n < MinSamples)
  <2>1. Nobody.source # "structural" /\ "human" # "structural"
    BY DEF Nobody
  <2>2. QED
    BY <1>4, <1>6, <1>7, <1>11, <2>1
<1>13. Ranked(trust) \subseteq Ranked(more)
  BY <1>1, <1>9, <1>11 DEF Ranked
<1>14. Numeric(trust) \subseteq Numeric(more)
  BY <1>1, <1>8, <1>9 DEF Numeric
<1>15. \A a \in Ranked(OutcomeReliability(people)) : a \in Rated1 \ EveryAxis
  BY <1>1 DEF Ranked, OutcomeReliability
<1>16. QED
  BY <1>7, <1>10, <1>11, <1>12, <1>13, <1>14, <1>15

-----------------------------------------------------------------------------
(* Drift under an experiment                                                *)

\* Some members of a finite sequence, seen by one field, are more than one exactly
\* if two of them differ there.
LEMMA FieldsDiffer ==
  ASSUME NEW n \in Nat, NEW f, DOMAIN f = 1..n, NEW in \in SUBSET (1..n)
  PROVE  Cardinality({f[i] : i \in in}) > 1 <=> \E i, j \in in : f[i] # f[j]
<1>1. IsFiniteSet({f[i] : i \in 1..n})
  BY ImageFinite
<1>2. {f[i] : i \in in} \subseteq {f[i] : i \in 1..n}
  OBVIOUS
<1>3. PICK S : S = {f[i] : i \in in}
  OBVIOUS
<1>4. IsFiniteSet(S)
  BY <1>1, <1>2, <1>3, FS_Subset
<1>5. Cardinality(S) > 1 <=> \E x, y \in S : x # y
  BY <1>4, TwoDiffer
<1>6. QED
  BY <1>3, <1>5

\* A configuration is reported exactly if it changed: it is not what was pinned, as
\* far as both are known, or two of its executions ran under different cores, or two
\* of one case under anything different - also when it was changed back since
\* (DriftSound in Reports).
THEOREM DriftHolds ==
  ASSUME NEW n \in Nat, NEW Cores, NEW Cases, NEW Fulls,
         NEW executions \in [1..n -> [case : Cases, core : Cores, full : Fulls]],
         NEW pinned, NEW now
  PROVE  Drifted(ConfigDrift(executions, pinned, now)) <=>
           \/ \E f \in DOMAIN pinned :
                /\ pinned[f] # now[f]
                /\ f = "image" => Nothing \notin {pinned[f], now[f]}
           \/ \E i, j \in 1..n : executions[i].core # executions[j].core
           \/ \E i, j \in 1..n : /\ executions[i].case = executions[j].case
                                 /\ executions[i].full # executions[j].full
<1> DEFINE drift == ConfigDrift(executions, pinned, now)
<1>1. PICK cores : cores = [i \in 1..n |-> executions[i].core]
  OBVIOUS
<1>2. PICK fulls : fulls = [i \in 1..n |-> executions[i].full]
  OBVIOUS
<1>3. PICK Of1 : Of1 = [k \in Cases |-> {i \in 1..n : executions[i].case = k}]
  OBVIOUS
<1>4. drift.cores # {} <=> \E i, j \in 1..n : executions[i].core # executions[j].core
  <2>1. {executions[i].core : i \in DOMAIN executions} = {cores[i] : i \in 1..n}
    BY <1>1
  <2>2. Cardinality({cores[i] : i \in 1..n}) > 1 <=> \E i, j \in 1..n : cores[i] # cores[j]
    <3>1. DOMAIN cores = 1..n /\ 1..n \in SUBSET (1..n)
      BY <1>1
    <3>2. QED
      BY <3>1, FieldsDiffer, Zenon
  <2>3. (\E i, j \in 1..n : cores[i] # cores[j]) => {cores[i] : i \in 1..n} # {}
    OBVIOUS
  <2>4. drift.cores = IF Cardinality({cores[i] : i \in 1..n}) > 1 THEN {cores[i] : i \in 1..n} ELSE {}
    BY <2>1 DEF ConfigDrift
  <2>5. drift.cores # {} <=> \E i, j \in 1..n : cores[i] # cores[j]
    BY <2>2, <2>3, <2>4
  <2>6. QED
    BY <1>1, <2>5
<1>5. drift.split # {} <=> \E i, j \in 1..n : /\ executions[i].case = executions[j].case
                                              /\ executions[i].full # executions[j].full
  <2>1. \A k \in Cases :
          {executions[i].full : i \in {j \in DOMAIN executions : executions[j].case = k}}
            = {fulls[i] : i \in Of1[k]}
    BY <1>2, <1>3
  <2>2. \A k \in Cases : Cardinality({fulls[i] : i \in Of1[k]}) > 1
                           <=> \E i, j \in Of1[k] : fulls[i] # fulls[j]
    <3>1. \A k \in Cases : Of1[k] \in SUBSET (1..n)
      BY <1>3
    <3>2. DOMAIN fulls = 1..n
      BY <1>2
    <3>3. QED
      BY <3>1, <3>2, FieldsDiffer
  <2>3. drift.split = {k \in {executions[i].case : i \in DOMAIN executions} :
          Cardinality({executions[i].full : i \in {j \in DOMAIN executions : executions[j].case = k}}) > 1}
    BY DEF ConfigDrift
  <2>4. {executions[i].case : i \in DOMAIN executions} \subseteq Cases
    OBVIOUS
  <2>5. \A k : k \in drift.split <=> /\ \E i \in 1..n : executions[i].case = k
                                     /\ k \in Cases
                                     /\ Cardinality({fulls[i] : i \in Of1[k]}) > 1
    <3> TAKE k
    <3>1. CASE k \notin Cases
      BY <2>3, <2>4, <3>1
    <3>2. CASE k \in Cases
      <4>1. PICK F : F = {fulls[i] : i \in Of1[k]}
        OBVIOUS
      <4>2. F = {executions[i].full : i \in {j \in DOMAIN executions : executions[j].case = k}}
        BY <2>1, <3>2, <4>1
      <4>3. k \in drift.split <=> /\ k \in {executions[i].case : i \in DOMAIN executions}
                                  /\ Cardinality(F) > 1
        BY <2>3, <4>2
      <4>4. QED
        BY <3>2, <4>1, <4>3
    <3>3. QED
      BY <3>1, <3>2
  <2>6. \A k : k \in drift.split <=> k \in Cases /\ \E i, j \in Of1[k] : fulls[i] # fulls[j]
    <3> HIDE DEF drift
    <3> TAKE k
    <3>1. CASE k \notin Cases
      BY <2>5, <3>1
    <3>2. CASE k \in Cases
      <4>1. Cardinality({fulls[i] : i \in Of1[k]}) > 1 <=> \E i, j \in Of1[k] : fulls[i] # fulls[j]
        BY <2>2, <3>2
      <4>2. Of1[k] # {} => \E i \in 1..n : executions[i].case = k
        BY <1>3, <3>2
      <4>3. k \in drift.split <=> /\ \E i \in 1..n : executions[i].case = k
                                  /\ Cardinality({fulls[i] : i \in Of1[k]}) > 1
        BY <2>5, <3>2
      <4>4. QED
        BY <3>2, <4>1, <4>2, <4>3
    <3>3. QED
      BY <3>1, <3>2
  <2>7. PICK split : split = drift.split
    OBVIOUS
  <2>8. \A k : k \in split <=> k \in Cases /\ \E i, j \in Of1[k] : fulls[i] # fulls[j]
    BY <2>6, <2>7
  <2>9. ASSUME NEW i \in 1..n, NEW j \in 1..n, executions[i].case = executions[j].case,
               executions[i].full # executions[j].full
        PROVE  split # {}
    <3>1. executions[i].case \in Cases /\ i \in Of1[executions[i].case] /\ j \in Of1[executions[i].case]
      BY <1>3, <2>9
    <3>2. fulls[i] # fulls[j]
      BY <1>2, <2>9
    <3>3. QED
      BY <2>8, <3>1, <3>2
  <2>10. ASSUME NEW k \in split
         PROVE  \E i, j \in 1..n : /\ executions[i].case = executions[j].case
                                   /\ executions[i].full # executions[j].full
    <3>1. k \in Cases /\ \E i, j \in Of1[k] : fulls[i] # fulls[j]
      BY <2>8, <2>10
    <3>2. QED
      BY <1>2, <1>3, <3>1
  <2>11. QED
    BY <2>7, <2>9, <2>10
<1>6. drift.changed # {} <=> \E f \in DOMAIN pinned :
                /\ pinned[f] # now[f]
                /\ f = "image" => Nothing \notin {pinned[f], now[f]}
  <2>1. drift.changed = {f \in DOMAIN pinned : /\ pinned[f] # now[f]
                                               /\ ~(f = "image" /\ pinned[f] = Nothing)
                                               /\ ~(f = "image" /\ now[f] = Nothing)}
    BY DEF ConfigDrift
  <2>2. QED
    BY <2>1
<1>7. QED
  BY <1>4, <1>5, <1>6 DEF Drifted

-----------------------------------------------------------------------------
(* The gate of a profile                                                    *)

Dimension == [evaluator : STRING, mode : STRING, critical : BOOLEAN, threshold : Int, weight : Nat]
Answer == [reply : [call : {"absent", "blank", "garbled", "json", "lost"}, content : {"prose", "json"}],
           applicable : BOOLEAN, silent : BOOLEAN, raw : Int, material : BOOLEAN, findings : Nat, lines : Nat]

\* The larger and the smaller of two numbers.
LEMMA OfTwo ==
  ASSUME NEW a \in Int, NEW b \in Int
  PROVE  /\ Max({a, b}) = IF a >= b THEN a ELSE b
         /\ Min({a, b}) = IF a <= b THEN a ELSE b
<1>1. \A m : m \in {a, b} /\ (\A x \in {a, b} : m >= x) <=> m = IF a >= b THEN a ELSE b
  OBVIOUS
<1>2. \A m : m \in {a, b} /\ (\A x \in {a, b} : m <= x) <=> m = IF a <= b THEN a ELSE b
  OBVIOUS
<1>3. QED
  BY <1>1, <1>2 DEF Max, Min

\* A score is brought onto the scale, and what is on it stays.
LEMMA ClampedRange ==
  ASSUME NEW raw \in Int
  PROVE  /\ Clamped(raw) \in 0..MaxScale
         /\ raw \in 0..MaxScale => Clamped(raw) = raw
         /\ raw >= MaxScale => Clamped(raw) = MaxScale
<1>1. PICK m \in Int : m = Min({MaxScale, raw}) /\ m = IF MaxScale <= raw THEN MaxScale ELSE raw
  BY OfTwo DEF MaxScale
<1>2. Max({0, m}) = IF 0 >= m THEN 0 ELSE m
  BY OfTwo
<1>3. Clamped(raw) = Max({0, m})
  BY <1>1 DEF Clamped
<1>4. QED
  BY <1>1, <1>2, <1>3 DEF MaxScale

\* A quotient and its rest.
LEMMA Division ==
  ASSUME NEW n \in Nat, NEW d \in Nat, d > 0
  PROVE  /\ n \div d \in Nat /\ n % d \in 0..(d - 1)
         /\ n = d * (n \div d) + (n % d)
<1>1. n \div d \in Nat
  OBVIOUS
<1>2. n % d \in 0..(d - 1)
  OBVIOUS
<1>3. n = d * (n \div d) + (n % d)
  OBVIOUS
<1>4. QED
  BY <1>1, <1>2, <1>3, Zenon

\* What follows an odd number is even.
LEMMA OddAndEven ==
  ASSUME NEW q \in Nat, q % 2 = 1
  PROVE (q+1) % 2 = 0
OBVIOUS

\* A number is even or odd.
LEMMA EvenOrOdd ==
  ASSUME NEW q \in Nat
  PROVE q % 2 \in {0,1}
OBVIOUS

\* A quotient is rounded to the nearest number, halves to the even one.
LEMMA RoundedNear ==
  ASSUME NEW n \in Nat, NEW d \in Nat, d > 0
  PROVE  \E r \in Nat :
         /\ r = Rounded(n, d)
         /\ (2 * r - 1) * d <= 2 * n /\ 2 * n <= (2 * r + 1) * d
         /\ 2 * n \in {(2 * r - 1) * d, (2 * r + 1) * d} => r % 2 = 0
<1>1. PICK q \in Nat, m \in Nat : q = n \div d /\ m = n % d /\ m < d /\ n = d * q + m
  BY Division
<1>2. PICK dq \in Nat : dq = d * q
  BY <1>1
<1>3. 2 * n = 2 * dq + 2 * m
  BY <1>1, <1>2
<1>4. CASE 2 * m > d \/ (2 * m = d /\ q % 2 = 1)
  <2>1. PICK r \in Nat : r = q + 1
    BY <1>1
  <2>2. (2 * r - 1) * d = 2 * dq + d /\ (2 * r + 1) * d = 2 * dq + 3 * d
    BY <2>1, <1>2
  <2>3. q % 2 = 1 => r % 2 = 0
    BY <2>1, OddAndEven
  <2>4. r = Rounded(n, d)
    BY <1>1, <1>4, <2>1 DEF Rounded
  <2>5. QED
    BY <1>1, <1>3, <1>4, <2>2, <2>3, <2>4
<1>5. CASE ~(2 * m > d \/ (2 * m = d /\ q % 2 = 1))
  <2>1. (2 * q - 1) * d = 2 * dq - d /\ (2 * q + 1) * d = 2 * dq + d
    BY <1>2
  <2>2. 2 * m = d => q % 2 = 0
    BY <1>5, EvenOrOdd
  <2>3. q = Rounded(n, d)
    BY <1>1, <1>5 DEF Rounded
  <2>4. QED
    BY <1>1, <1>3, <1>5, <2>1, <2>2, <2>3
<1>6. QED
  BY <1>4, <1>5

\* What is larger is not rounded to less.
LEMMA RoundedOrder ==
  ASSUME NEW n \in Nat, NEW d \in Nat, d > 0, NEW m \in Nat, NEW e \in Nat, e > 0,
         n * e <= m * d
  PROVE  Rounded(n, d) \in Nat /\ Rounded(m, e) \in Nat /\ Rounded(n, d) <= Rounded(m, e)
<1>1. PICK r \in Nat : /\ r = Rounded(n, d)
                       /\ (2 * r - 1) * d <= 2 * n /\ 2 * n <= (2 * r + 1) * d
                       /\ 2 * n \in {(2 * r - 1) * d, (2 * r + 1) * d} => r % 2 = 0
  BY RoundedNear
<1>2. PICK s \in Nat : /\ s = Rounded(m, e)
                       /\ (2 * s - 1) * e <= 2 * m /\ 2 * m <= (2 * s + 1) * e
                       /\ 2 * m \in {(2 * s - 1) * e, (2 * s + 1) * e} => s % 2 = 0
  BY RoundedNear
<1>3. ASSUME s < r PROVE FALSE
  <2>1. PICK x \in Int, y \in Int : x = 2 * r - 1 /\ y = 2 * s + 1 /\ x >= y
    BY <1>3
  <2>2. x * d <= 2 * n /\ 2 * m <= y * e
    BY <1>1, <1>2, <2>1
  <2>3. (x * d) * e <= (2 * n) * e /\ (2 * m) * d <= (y * e) * d
    BY <2>1, <2>2
  <2>4. (2 * n) * e = 2 * (n * e) /\ (2 * m) * d = 2 * (m * d)
    OBVIOUS
  <2>5. PICK p \in Nat : p = d * e /\ p > 0
    OBVIOUS
  <2>6. (x * d) * e = x * p /\ (y * e) * d = y * p
    BY <2>1, <2>5
  <2>7. PICK u \in Nat, v \in Nat : u = n * e /\ v = m * d /\ u <= v
    OBVIOUS
  <2>8. x * p \in Int /\ y * p \in Int /\ x * p <= 2 * u /\ 2 * v <= y * p
    BY <2>1, <2>3, <2>4, <2>5, <2>6, <2>7
  <2>9. y * p <= x * p
    BY <2>1, <2>5
  <2>10. x * p = 2 * u /\ 2 * v = y * p /\ x * p = y * p
    BY <2>7, <2>8, <2>9
  <2>11. x = y
    BY <2>1, <2>5, <2>10
  <2>12. (x * d) * e = (2 * n) * e /\ (2 * m) * d = (y * e) * d
    BY <2>4, <2>6, <2>7, <2>10
  <2>13. x * d = 2 * n
    <3>1. PICK a \in Int, b \in Int : a = x * d /\ b = 2 * n /\ a * e = b * e
      BY <2>1, <2>12
    <3>2. QED
      BY <3>1
  <2>14. 2 * m = y * e
    <3>1. PICK a \in Int, b \in Int : a = 2 * m /\ b = y * e /\ a * d = b * d
      BY <2>1, <2>12
    <3>2. QED
      BY <3>1
  <2>15. r % 2 = 0 /\ s % 2 = 0
    BY <1>1, <1>2, <2>1, <2>13, <2>14
  <2>16. r = s + 1
    BY <2>1, <2>11
  <2>17. QED
    BY <2>15, <2>16
<1>4. QED
  BY <1>1, <1>2, <1>3

\* A lint or type check is graded on the scale, in full when it finds nothing; more
\* findings never grade better, and as many in a longer text never worse
\* (ProbesGradeFairly in Verdicts).
THEOREM DensityHolds ==
  ASSUME NEW few \in Nat, NEW many \in Nat, few <= many,
         NEW short \in Nat, NEW long \in Nat, short <= long
  PROVE  /\ DensityScore(few, short) \in 0..MaxScale
         /\ DensityScore(0, short) = MaxScale
         /\ DensityScore(many, short) <= DensityScore(few, long)
<1> DEFINE Loc(lines) == IF lines <= 1 THEN 1 ELSE lines
           Left(n, lines) == 10 * Loc(lines) - 100 * n
<1>1. \A n, lines \in Nat : DensityScore(n, lines) =
        IF n * 10 >= Loc(lines) THEN 0 ELSE Rounded(Left(n, lines), Loc(lines))
  <2> TAKE n, lines \in Nat
  <2>1. Max({1, lines}) = Loc(lines)
    BY OfTwo
  <2>2. QED
    BY <2>1, Zenon DEF DensityScore, MaxScale
<1>2. \A lines \in Nat : Loc(lines) \in Nat /\ Loc(lines) > 0
  OBVIOUS
<1>3. Loc(short) <= Loc(long)
  OBVIOUS
<1>4. ASSUME NEW n \in Nat, NEW lines \in Nat, n * 10 < Loc(lines)
      PROVE  Left(n, lines) \in Nat /\ Rounded(Left(n, lines), Loc(lines)) \in 0..10
  <2>1. PICK loc \in Nat : loc = Loc(lines) /\ loc > 0
    BY <1>2
  <2>2. PICK left \in Nat : left = Left(n, lines) /\ left <= 10 * loc
    BY <1>4, <2>1
  <2>3. Rounded(10, 1) = 10
    BY DEF Rounded
  <2>4. left * 1 <= 10 * loc
    BY <2>2
  <2>5. Rounded(left, loc) \in Nat /\ Rounded(left, loc) <= Rounded(10, 1)
    BY <2>1, <2>4, RoundedOrder
  <2>6. QED
    BY <2>1, <2>2, <2>3, <2>5
<1>5. \A n, lines \in Nat : DensityScore(n, lines) \in 0..10
  <2> TAKE n, lines \in Nat
  <2>1. CASE n * 10 < Loc(lines)
    <3>1. Rounded(Left(n, lines), Loc(lines)) \in 0..10
      BY <1>4, <2>1
    <3>2. ~(n * 10 >= Loc(lines))
      BY <1>2, <2>1
    <3> HIDE DEF Loc, Left
    <3>3. QED
      BY <1>1, <3>1, <3>2
  <2>2. CASE ~(n * 10 < Loc(lines))
    <3>1. n * 10 >= Loc(lines)
      BY <1>2, <2>2
    <3> HIDE DEF Loc, Left
    <3>2. QED
      BY <1>1, <3>1
  <2>3. QED
    BY <2>1, <2>2
<1>6. DensityScore(0, short) = 10
  <2> HIDE DEF Loc
  <2>1. PICK loc \in Nat : loc = Loc(short) /\ loc > 0
    BY <1>2
  <2>2. DensityScore(0, short) = Rounded(10 * loc, loc)
    BY <1>1, <2>1
  <2>3. 10 * loc <= 10 * loc /\ (10 * loc) * 1 <= 10 * loc /\ 10 * loc <= (10 * loc) * 1
    BY <2>1
  <2>4. Rounded(10, 1) = 10
    BY DEF Rounded
  <2>5. Rounded(10, 1) <= Rounded(10 * loc, loc) /\ Rounded(10 * loc, loc) <= Rounded(10, 1)
        /\ Rounded(10 * loc, loc) \in Nat
    <3>1. PICK t \in Nat : t = 10 * loc
      BY <2>1
    <3>2. 10 * loc <= t * 1 /\ t * 1 <= 10 * loc
      BY <3>1
    <3>3. QED
      BY <2>1, <3>1, <3>2, RoundedOrder
  <2>6. QED
    BY <2>2, <2>4, <2>5
<1>7. DensityScore(many, short) <= DensityScore(few, long)
  <2> HIDE DEF Loc
  <2>1. CASE many * 10 >= Loc(short)
    <3>1. DensityScore(many, short) = 0
      BY <1>1, <2>1
    <3>2. DensityScore(few, long) \in 0..10
      BY <1>5
    <3>3. QED
      BY <3>1, <3>2
  <2>2. CASE many * 10 < Loc(short)
    <3>1. PICK d \in Nat : d = Loc(short) /\ d > 0
      BY <1>2
    <3>2. PICK e \in Nat : e = Loc(long) /\ e > 0
      BY <1>2
    <3>3. d <= e /\ few * 10 < e /\ many * 10 < d
      BY <1>3, <2>2, <3>1, <3>2
    <3>4. PICK x \in Nat : x = 10 * d - 100 * many
      <4>1. 10 * d - 100 * many \in Nat
        BY <3>3
      <4>2. QED
        BY <4>1, Zenon
    <3>5. PICK y \in Nat : y = 10 * e - 100 * few
      <4>1. 10 * e - 100 * few \in Nat
        BY <3>3
      <4>2. QED
        BY <4>1, Zenon
    <3>6. x * e <= y * d
      <4>1. PICK p \in Nat : p = d * e
        OBVIOUS
      <4>2. x * e = 10 * p - 100 * (many * e) /\ y * d = 10 * p - 100 * (few * d)
        BY <3>4, <3>5, <4>1
      <4>3. few * d <= many * e
        <5>1. few * d <= many * d /\ many * d <= many * e
          BY <3>1, <3>2, <3>3
        <5>2. few * d \in Nat /\ many * d \in Nat /\ many * e \in Nat
          OBVIOUS
        <5>3. QED
          BY <5>1, <5>2
      <4>4. PICK u \in Nat, v \in Nat : u = few * d /\ v = many * e
        OBVIOUS
      <4>5. QED
        BY <4>1, <4>2, <4>3, <4>4
    <3>7. Rounded(x, d) <= Rounded(y, e)
      BY <3>1, <3>2, <3>6, RoundedOrder
    <3>8. DensityScore(many, short) = Rounded(x, d)
      BY <1>1, <2>2, <3>1, <3>4
    <3>9. DensityScore(few, long) = Rounded(y, e)
      BY <1>1, <3>2, <3>3, <3>5
    <3>10. QED
      BY <3>7, <3>8, <3>9
  <2>3. QED
    BY <1>2, <2>1, <2>2
<1>8. QED
  BY <1>5, <1>6, <1>7 DEF MaxScale

\* What came out of a dimension: a score on the scale, and a cause of an error.
OutcomeSet ==
  [status : {"scored", "error", "not_applicable", "skipped", "deferred"}, score : 0..MaxScale,
   cause : {"none", "evaluation", "infrastructure"}]

\* Only a judge who has to answer in a form is kept from it by the provider; and
\* where it was, an answer in full marks would have counted.
LEMMA OutcomeRange ==
  ASSUME NEW d \in Dimension, NEW a \in Answer
  PROVE  /\ Outcome(d, a) \in OutcomeSet
         /\ Outcome(d, a).cause = "infrastructure" => Outcome(d, Fine) = Scored(MaxScale)
<1>1. Clamped(a.raw) \in 0..MaxScale /\ DensityScore(a.findings, a.lines) \in 0..MaxScale
      /\ Clamped(12) = MaxScale /\ Clamped(12) \in 0..MaxScale
  <2>1. a.raw \in Int /\ a.findings \in Nat /\ a.lines \in Nat
    BY DEF Answer
  <2>2. 12 \in Int /\ 12 >= MaxScale
    BY DEF MaxScale
  <2>3. a.findings <= a.findings /\ a.lines <= a.lines
    BY <2>1
  <2>4. QED
    BY <2>1, <2>2, <2>3, ClampedRange, DensityHolds, Zenon
<1>2. Reading(a.reply) \in {"json", "evaluation", "infrastructure"}
  BY DEF Reading
<1>3. 0 \in 0..MaxScale /\ MaxScale \in 0..MaxScale
  BY DEF MaxScale
<1>4. \A c \in {"evaluation", "infrastructure"} : Failed(c) \in OutcomeSet /\ Failed(c).cause = c
  BY <1>3 DEF Failed, OutcomeSet
<1>5. \A v \in 0..MaxScale : Scored(v) \in OutcomeSet /\ Scored(v).cause = "none"
  BY DEF Scored, OutcomeSet
<1>6. \A st \in {"not_applicable", "skipped", "deferred"} :
        Unscored(st) \in OutcomeSet /\ Unscored(st).cause = "none"
  BY <1>3 DEF Unscored, OutcomeSet
<1>7. Reading(Fine.reply) = "json" /\ Fine.applicable /\ ~Fine.silent /\ Fine.material /\ Fine.raw = 12
  BY DEF Fine, Reading
<1>8. JudgeDimension(a) \in OutcomeSet /\ JudgeDimension(Fine) = Scored(MaxScale)
  BY <1>1, <1>2, <1>4, <1>5, <1>6, <1>7 DEF JudgeDimension
<1>9. ReferenceDimension(d.mode, a) \in OutcomeSet
  BY <1>1, <1>2, <1>3, <1>4, <1>5, <1>6 DEF ReferenceDimension
<1>10. /\ ReferenceDimension(d.mode, a).cause = "infrastructure" => d.mode = "pointwise"
       /\ ReferenceDimension("pointwise", Fine) = Scored(MaxScale)
  BY <1>1, <1>2, <1>3, <1>4, <1>5, <1>6, <1>7 DEF ReferenceDimension
<1>11. ObjectiveDimension(d.mode, a) \in OutcomeSet /\ ObjectiveDimension(d.mode, a).cause # "infrastructure"
  BY <1>1, <1>4, <1>5, <1>6 DEF ObjectiveDimension
<1>12. Unscored("deferred") \in OutcomeSet /\ Unscored("deferred").cause = "none"
  BY <1>6
<1>13. CASE d.evaluator = "judge"
  BY <1>8, <1>13 DEF Outcome
<1>14. CASE d.evaluator = "reference"
  BY <1>9, <1>10, <1>14 DEF Outcome
<1>15. CASE d.evaluator = "objective"
  BY <1>11, <1>15 DEF Outcome
<1>16. CASE d.evaluator \notin {"judge", "reference", "objective"}
  BY <1>12, <1>16 DEF Outcome
<1>17. QED
  BY <1>13, <1>14, <1>15, <1>16

\* Which dimensions close a gate.
LEMMA ClosedBy ==
  ASSUME NEW n \in Nat, NEW dims \in [1..n -> Dimension], NEW answers \in [1..n -> Answer]
  PROVE  Profile(dims, answers).failed =
           {i \in 1..n : dims[i].critical /\ Misses(dims[i], Outcome(dims[i], answers[i]))}
<1>1. PICK o : o = [i \in DOMAIN dims |-> Outcome(dims[i], answers[i])]
  OBVIOUS
<1>2. Profile(dims, answers).failed = {i \in DOMAIN dims : dims[i].critical /\ Misses(dims[i], o[i])}
  BY <1>1 DEF Profile
<1>3. DOMAIN dims = 1..n
  OBVIOUS
<1>4. \A i \in 1..n : o[i] = Outcome(dims[i], answers[i])
  BY <1>1, <1>3
<1>5. QED
  BY <1>2, <1>3, <1>4

\* What a profile says of its dimensions.
LEMMA GateIs ==
  ASSUME NEW n \in Nat, NEW dims \in [1..n -> Dimension], NEW answers \in [1..n -> Answer],
         NEW p, p = Profile(dims, answers)
  PROVE  /\ \A i \in 1..n : p.outcomes[i] = Outcome(dims[i], answers[i])
         /\ p.failed = {i \in 1..n : dims[i].critical /\ Misses(dims[i], Outcome(dims[i], answers[i]))}
         /\ p.uncertifiable = {i \in p.failed : Outcome(dims[i], answers[i]).cause = "infrastructure"}
         /\ p.errors = {i \in 1..n : Outcome(dims[i], answers[i]).status = "error"}
<1>1. PICK o : o = [i \in DOMAIN dims |-> Outcome(dims[i], answers[i])]
  OBVIOUS
<1>2. PICK failed : failed = {i \in DOMAIN dims : dims[i].critical /\ Misses(dims[i], o[i])}
  OBVIOUS
<1>3. /\ p.outcomes = o /\ p.failed = failed
      /\ p.uncertifiable = {i \in failed : o[i].cause = "infrastructure"}
      /\ p.errors = {i \in DOMAIN dims : o[i].status = "error"}
  BY <1>1, <1>2 DEF Profile
<1>4. DOMAIN dims = 1..n
  OBVIOUS
<1>5. \A i \in 1..n : o[i] = Outcome(dims[i], answers[i])
  BY <1>1, <1>4
<1>6. QED
  BY <1>2, <1>3, <1>4, <1>5

\* The gate fails closed and blames nobody wrongly, for any dimensions and whatever
\* the evaluators answer: a critical dimension that went wrong keeps it closed; no
\* answer of those that are as good or better closes it; dimensions without a
\* verdict of their own and the order of the others do not matter; and where only
\* the provider kept the judge from answering, full marks from it would have opened
\* the gate (GateFailsClosed in Verdicts).
THEOREM GateHolds ==
  ASSUME NEW n \in Nat, NEW dims \in [1..n -> Dimension], NEW answers \in [1..n -> Answer],
         NEW p, p = Profile(dims, answers)
  PROVE  /\ {i \in p.errors : dims[i].critical} \subseteq p.failed
         /\ \A better \in [1..n -> Answer] :
              /\ \A i \in 1..n : \/ better[i] = answers[i]
                                 \/ Better(p.outcomes[i], Outcome(dims[i], better[i]))
              /\ GatePassed(p)
              => GatePassed(Profile(dims, better))
         /\ \A m \in Nat : \A pick \in [1..m -> 1..n] :
              {i \in 1..n : p.outcomes[i].status \in {"scored", "error"}} \subseteq {pick[k] : k \in 1..m}
              => (GatePassed(Profile([k \in 1..m |-> dims[pick[k]]], [k \in 1..m |-> answers[pick[k]]]))
                    <=> GatePassed(p))
         /\ (\A i \in 1..n : dims[i].threshold <= MaxScale) /\ p.failed = p.uncertifiable
            => GatePassed(Profile(dims, [i \in 1..n |-> IF i \in p.uncertifiable THEN Fine ELSE answers[i]]))
<1>0. \A m \in Nat : \A ds \in [1..m -> Dimension], as \in [1..m -> Answer] :
        Profile(ds, as).failed = {k \in 1..m : ds[k].critical /\ Misses(ds[k], Outcome(ds[k], as[k]))}
  BY ClosedBy, ZenonT(60)
<1>1. \A i \in 1..n : dims[i] \in Dimension /\ answers[i] \in Answer
  OBVIOUS
<1>2. Fine \in Answer
  BY DEF Fine, Answer
<1>3. {i \in p.errors : dims[i].critical} \subseteq p.failed
  BY GateIs DEF Misses
<1>4. ASSUME NEW better \in [1..n -> Answer], GatePassed(p),
             \A i \in 1..n : \/ better[i] = answers[i]
                             \/ Better(p.outcomes[i], Outcome(dims[i], better[i]))
      PROVE  GatePassed(Profile(dims, better))
  <2>1. PICK q : q = Profile(dims, better)
    OBVIOUS
  <2>2. q.failed = {i \in 1..n : dims[i].critical /\ Misses(dims[i], Outcome(dims[i], better[i]))}
    BY <2>1, <1>0, ZenonT(60)
  <2>3. ASSUME NEW i \in 1..n, dims[i].critical, Misses(dims[i], Outcome(dims[i], better[i]))
        PROVE  FALSE
    <3>1. PICK old, new : old = Outcome(dims[i], answers[i]) /\ new = Outcome(dims[i], better[i])
      OBVIOUS
    <3>2. /\ old \in OutcomeSet /\ new \in OutcomeSet /\ dims[i].threshold \in Int
          /\ better[i] \in Answer
      BY <1>1, <3>1, OutcomeRange DEF Dimension
    <3>3. ~Misses(dims[i], old)
      BY <1>4, <2>3, <3>1, GateIs DEF GatePassed
    <3>4. old # new => Better(old, new)
      BY <1>4, <3>1, GateIs
    <3>5. old.score \in Int /\ new.score \in Int
      BY <3>2 DEF OutcomeSet, MaxScale
    <3>6. QED
      BY <2>3, <3>1, <3>2, <3>3, <3>4, <3>5 DEF Misses, Better
  <2>4. QED
    BY <2>1, <2>2, <2>3 DEF GatePassed
<1>5. ASSUME NEW m \in Nat, NEW pick \in [1..m -> 1..n],
             {i \in 1..n : p.outcomes[i].status \in {"scored", "error"}} \subseteq {pick[k] : k \in 1..m}
      PROVE  GatePassed(Profile([k \in 1..m |-> dims[pick[k]]], [k \in 1..m |-> answers[pick[k]]]))
               <=> GatePassed(p)
  <2>1. PICK ds \in [1..m -> Dimension] : ds = [k \in 1..m |-> dims[pick[k]]]
    OBVIOUS
  <2>2. PICK as \in [1..m -> Answer] : as = [k \in 1..m |-> answers[pick[k]]]
    OBVIOUS
  <2>3. PICK q : q = Profile(ds, as)
    OBVIOUS
  <2>4. q.failed = {k \in 1..m : ds[k].critical /\ Misses(ds[k], Outcome(ds[k], as[k]))}
    BY <2>3, <1>0, ZenonT(60)
  <2>5. \A k \in 1..m : ds[k] = dims[pick[k]] /\ as[k] = answers[pick[k]] /\ pick[k] \in 1..n
    BY <2>1, <2>2
  <2>6. \A k \in 1..m : k \in q.failed <=> pick[k] \in p.failed
    <3>1. p.failed = {i \in 1..n : dims[i].critical /\ Misses(dims[i], Outcome(dims[i], answers[i]))}
      BY <1>0, ZenonT(60)
    <3>2. QED
      BY <2>4, <2>5, <3>1
  <2>7. q.failed \subseteq 1..m
    BY <2>4
  <2>8. \A i \in p.failed : i \in 1..n /\ p.outcomes[i].status \in {"scored", "error"}
    BY GateIs DEF Misses
  <2>9. \A i \in p.failed : \E k \in 1..m : pick[k] = i
    BY <1>5, <2>8
  <2>10. q.failed = {} <=> p.failed = {}
    BY <2>6, <2>7, <2>9
  <2>11. QED
    BY <2>1, <2>2, <2>3, <2>10 DEF GatePassed
<1>6. ASSUME \A i \in 1..n : dims[i].threshold <= MaxScale, p.failed = p.uncertifiable
      PROVE  GatePassed(Profile(dims, [i \in 1..n |-> IF i \in p.uncertifiable THEN Fine ELSE answers[i]]))
  <2>1. PICK as \in [1..n -> Answer] :
          as = [i \in 1..n |-> IF i \in p.uncertifiable THEN Fine ELSE answers[i]]
    BY <1>2
  <2>2. PICK q : q = Profile(dims, as)
    OBVIOUS
  <2>3. q.failed = {i \in 1..n : dims[i].critical /\ Misses(dims[i], Outcome(dims[i], as[i]))}
    BY <2>2, <1>0, ZenonT(60)
  <2>4. ASSUME NEW i \in 1..n, dims[i].critical, Misses(dims[i], Outcome(dims[i], as[i]))
        PROVE  FALSE
    <3>1. CASE i \in p.failed
      <4>1. as[i] = Fine /\ Outcome(dims[i], answers[i]).cause = "infrastructure"
        BY <1>6, <2>1, <3>1, GateIs
      <4>2. Outcome(dims[i], as[i]) = Scored(MaxScale)
        BY <1>1, <4>1, OutcomeRange
      <4>3. dims[i].threshold \in Int /\ dims[i].threshold <= MaxScale
        BY <1>1, <1>6 DEF Dimension
      <4>4. QED
        BY <2>4, <4>2, <4>3 DEF Misses, Scored, MaxScale
    <3>2. CASE i \notin p.failed
      <4>1. as[i] = answers[i]
        BY <1>6, <2>1, <3>2
      <4>2. QED
        BY <2>4, <3>2, <4>1, GateIs
    <3>3. QED
      BY <3>1, <3>2
  <2>5. QED
    BY <2>1, <2>2, <2>3, <2>4 DEF GatePassed
<1>7. QED
  BY <1>3, <1>4, <1>5, <1>6

-----------------------------------------------------------------------------
(* Agreement of two raters, and the effort to see a difference              *)

\* Agreement beyond chance is the same whoever is named first, never passes one and
\* is one only if the raters disagreed on nothing (Loops and People in Reports).
THEOREM AgreementHolds ==
  ASSUME NEW both \in Nat, NEW first \in Nat, NEW second \in Nat, NEW neither \in Nat,
         NEW k, k = BinaryKappa(both, first, second, neither)
  PROVE  /\ k = BinaryKappa(both, second, first, neither)
         /\ k = BinaryKappa(neither, first, second, both)
         /\ Defined(k) => k.num <= k.den /\ (k.num = k.den <=> first = 0 /\ second = 0)
<1> DEFINE n == both + first + second + neither
           likely == (both + first) * (both + second) + (second + neither) * (first + neither)
<1>1. PICK N \in Nat, L \in Nat : N = n /\ L = likely
  <2>1. n \in Nat /\ likely \in Nat
    OBVIOUS
  <2>2. QED
    BY <2>1, Zenon
<1>2. k = IF N = 0 \/ L >= N * N THEN Undefined
          ELSE Quotient(N * (both + neither) - L, N * N - L)
  BY <1>1, Zenon DEF BinaryKappa
<1>3. k = BinaryKappa(both, second, first, neither)
  <2>1. /\ both + second + first + neither = N
        /\ (both + second) * (both + first) + (first + neither) * (second + neither) = L
    BY <1>1
  <2>2. QED
    BY <1>2, <2>1, Zenon DEF BinaryKappa
<1>4. k = BinaryKappa(neither, first, second, both)
  <2>1. /\ neither + first + second + both = N
        /\ (neither + first) * (neither + second) + (second + both) * (first + both) = L
        /\ neither + both = both + neither
    BY <1>1
  <2>2. QED
    BY <1>2, <2>1, Zenon DEF BinaryKappa
<1>5. N * (both + neither) = N * N - N * (first + second)
  <2>1. both + neither = N - (first + second)
    BY <1>1
  <2>2. PICK d \in Nat : d = first + second
    OBVIOUS
  <2>3. N * (N - d) = N * N - N * d
    BY <1>1
  <2>4. QED
    BY <2>1, <2>2, <2>3
<1>6. N > 0 => (N * (first + second) >= 0 /\ (N * (first + second) = 0 <=> first = 0 /\ second = 0))
  BY <1>1
<1>7. ASSUME Defined(k)
      PROVE  k.num <= k.den /\ (k.num = k.den <=> first = 0 /\ second = 0)
  <2>1. k # Undefined
    BY <1>7 DEF Undefined, Defined
  <2>2. N > 0 /\ k.num = N * (both + neither) - L /\ k.den = N * N - L
    BY <1>1, <1>2, <2>1 DEF Quotient
  <2>3. PICK x \in Nat, y \in Nat : x = N * N /\ y = N * (first + second)
    BY <1>1
  <2>4. k.num = x - y - L /\ k.den = x - L /\ (y = 0 <=> first = 0 /\ second = 0)
    BY <1>5, <1>6, <2>2, <2>3
  <2>5. QED
    BY <1>1, <2>3, <2>4
<1>8. QED
  BY <1>3, <1>4, <1>7

-----------------------------------------------------------------------------
(* Ratings out of matches                                                   *)

\* The parts of the stake that both sides of a match may expect make the stake, and
\* neither is nothing.
LEMMA ChanceSplit ==
  ASSUME NEW lead \in Int
  PROVE  Chance(lead) \in 1..31 /\ Chance(lead) + Chance(-lead) = Stake
<1>1. \A x \in Int : Min({31, x}) = IF 31 <= x THEN 31 ELSE x
  BY OfTwo
<1>2. \A n \in Nat : n \div 20 \in Nat /\ 16 + n \div 20 \in Int
  OBVIOUS
<1>3. \A n \in Nat : Chance(n) \in 16..31 /\ Chance(n) = Min({31, 16 + n \div 20})
  BY <1>1, <1>2 DEF Chance
<1>4. \A n \in Nat : n > 0 => Chance(-n) = Stake - Min({31, 16 + n \div 20})
  <2> TAKE n \in Nat
  <2> HAVE n > 0
  <2>1. ~(-n >= 0) /\ -(-n) = n
    OBVIOUS
  <2>2. QED
    BY <2>1, Zenon DEF Chance
<1>5. \A n \in Nat : n > 0 => Chance(n) + Chance(-n) = Stake /\ Chance(n) \in 1..31 /\ Chance(-n) \in 1..31
  <2> TAKE n \in Nat
  <2> HAVE n > 0
  <2>1. PICK c \in 16..31 : c = Chance(n) /\ c = Min({31, 16 + n \div 20})
    BY <1>3
  <2>2. Chance(-n) = 32 - c
    BY <1>4, <2>1 DEF Stake
  <2>3. QED
    BY <2>1, <2>2 DEF Stake
<1>6. Chance(0) = 16
  BY <1>1 DEF Chance
<1>7. CASE lead > 0
  BY <1>5, <1>7
<1>8. CASE lead = 0
  BY <1>6, <1>8 DEF Stake
<1>9. CASE lead < 0
  <2>1. PICK n \in Nat : n = -lead /\ n > 0 /\ -n = lead
    <3>1. -lead \in Nat /\ -lead > 0 /\ -(-lead) = lead
      BY <1>9
    <3>2. QED
      BY <3>1, Zenon
  <2>2. Chance(n) + Chance(-n) = Stake /\ Chance(n) \in 1..31 /\ Chance(-n) \in 1..31
    BY <1>5, <2>1
  <2>3. Chance(-lead) \in 1..31 /\ Chance(lead) \in 1..31 /\ Chance(-lead) + Chance(lead) = Stake
    BY <2>1, <2>2
  <2>4. QED
    BY <2>3
<1>10. QED
  BY <1>7, <1>8, <1>9

\* A match hands rating from player to player: what one gains the other loses, all
\* others keep theirs; whoever wins gains and whoever loses pays, however they were
\* rated; and it does not matter who is named first (MatchesLaw in Rankings).
THEOREM RatedHolds ==
  ASSUME NEW P, Nothing \notin P, NEW rating \in [P -> Int], NEW Anything,
         NEW m \in [a : P, b : P, outcome : {"a", "b", "tie"}, weight : Anything], m.a # m.b,
         NEW after, after = Rated(rating, m),
         NEW back, back = [m EXCEPT !.a = m.b, !.b = m.a, !.outcome = Flip(m.outcome)]
  PROVE  /\ after \in [P -> Int]
         /\ after[m.a] + after[m.b] = rating[m.a] + rating[m.b]
         /\ \A p \in P \ {m.a, m.b} : after[p] = rating[p]
         /\ Winner(m) = m.a => after[m.a] > rating[m.a]
         /\ Winner(m) = m.b => after[m.b] > rating[m.b]
         /\ Winner(m) = Nothing /\ rating[m.a] = rating[m.b] => after = rating
         /\ Rated(rating, back) = after
<1>1. PICK a \in P, b \in P : a = m.a /\ b = m.b /\ a # b
  OBVIOUS
<1>2. PICK x \in Int, y \in Int : x = rating[a] /\ y = rating[b]
  BY <1>1
<1>3. PICK likely \in 1..31 : likely = Chance(x - y) /\ Chance(y - x) = 32 - likely
  <2>1. PICK lead \in Int : lead = x - y /\ -lead = y - x
    <3>1. x - y \in Int /\ -(x - y) = y - x
      OBVIOUS
    <3>2. QED
      BY <3>1, Zenon
  <2>2. Chance(lead) \in 1..31 /\ Chance(lead) + Chance(-lead) = 32 /\ Chance(-lead) \in 1..31
    <3>1. -lead \in Int /\ -(-lead) = lead
      OBVIOUS
    <3>2. QED
      BY <3>1, ChanceSplit DEF Stake
  <2>3. Chance(-lead) = 32 - Chance(lead)
    BY <2>2
  <2>4. QED
    BY <2>1, <2>2, <2>3
<1>4. PICK won \in {0, 16, 32} :
        won = CASE Winner(m) = m.a -> Stake [] Winner(m) = m.b -> 0 [] OTHER -> Stake \div 2
  BY <1>1 DEF Stake
<1>5. /\ Winner(m) = a <=> won = 32
      /\ Winner(m) = b <=> won = 0
      /\ Winner(m) = Nothing <=> won = 16
  BY <1>1, <1>4 DEF Stake, Winner
<1>6. after = [[rating EXCEPT ![a] = x + won - likely] EXCEPT ![b] = y + (32 - won) - (32 - likely)]
  BY <1>1, <1>2, <1>3, <1>4 DEF Rated, Stake
<1>7. /\ after \in [P -> Int] /\ after[a] = x + won - likely
      /\ after[b] = y + (32 - won) - (32 - likely) /\ \A p \in P \ {a, b} : after[p] = rating[p]
  BY <1>1, <1>2, <1>3, <1>4, <1>6
<1>8. after[a] + after[b] = x + y
  BY <1>7
<1>9. (won = 32 => after[a] > x) /\ (won = 0 => after[b] > y)
  BY <1>7
<1>10. ASSUME won = 16, x = y PROVE after = rating
  <2>1. likely = 16
    BY <1>3, <1>10
  <2>2. after[a] = x /\ after[b] = y
    BY <1>7, <1>10, <2>1
  <2>3. \A p \in P : after[p] = rating[p]
    BY <1>1, <1>2, <1>7, <2>2
  <2>4. QED
    BY <1>7, <2>3
<1>11. back.a = b /\ back.b = a /\ back.outcome = Flip(m.outcome)
  BY <1>1
<1>12. Winner(back) = Winner(m)
  BY <1>1, <1>11 DEF Winner, Flip
<1>13. PICK lost \in {0, 16, 32} :
         /\ lost = CASE Winner(back) = back.a -> Stake [] Winner(back) = back.b -> 0 [] OTHER -> Stake \div 2
         /\ lost = 32 - won
  BY <1>1, <1>4, <1>5, <1>11, <1>12 DEF Stake
<1>14. Rated(rating, back) = [[rating EXCEPT ![b] = y + lost - (32 - likely)]
                                EXCEPT ![a] = x + (32 - lost) - (32 - (32 - likely))]
  BY <1>1, <1>2, <1>3, <1>11, <1>13 DEF Rated, Stake
<1>15. Rated(rating, back) = after
  <2>1. x + (32 - lost) - (32 - (32 - likely)) = x + won - likely
    BY <1>13
  <2>2. y + lost - (32 - likely) = y + (32 - won) - (32 - likely)
    BY <1>13
  <2>3. PICK u, v : u = x + won - likely /\ v = y + (32 - won) - (32 - likely)
    OBVIOUS
  <2>4. /\ after = [[rating EXCEPT ![a] = u] EXCEPT ![b] = v]
        /\ Rated(rating, back) = [[rating EXCEPT ![b] = v] EXCEPT ![a] = u]
    BY <1>6, <1>14, <2>1, <2>2, <2>3
  <2>5. PICK swap : swap = Rated(rating, back)
    OBVIOUS
  <2>6. after \in [P -> {rating[p] : p \in P} \cup {u, v}] /\ swap \in [P -> {rating[p] : p \in P} \cup {u, v}]
    BY <1>1, <2>4, <2>5
  <2>7. \A p \in P : after[p] = swap[p]
    BY <1>1, <2>4, <2>5
  <2>8. after = swap
    BY <2>6, <2>7
  <2>9. QED
    BY <2>5, <2>8
<1>16. QED
  BY <1>1, <1>2, <1>5, <1>7, <1>8, <1>9, <1>10, <1>15

\* A match between two configurations reads the same from both sides, whoever is
\* ahead by more than epsilon wins it, and a wider epsilon only makes ties
\* (DerivedLaw in Rankings).
THEOREM VersusHolds ==
  ASSUME NEW p \in Quot, NEW q \in Quot, Defined(p), Defined(q),
         NEW eps \in Nat, NEW wider \in Nat, eps <= wider
  PROVE  /\ Versus(q, p, eps) = Flip(Versus(p, q, eps))
         /\ Versus(p, q, eps) = "a" => AtMost(q, p) /\ ~AtMost(p, q)
         /\ Versus(p, q, 0) = "tie" <=> AtMost(q, p) /\ AtMost(p, q)
         /\ Versus(p, q, wider) \in {"tie", Versus(p, q, eps)}
<1>1. PICK a \in Int, b \in Nat : a = p.num /\ b = p.den /\ b > 0
  BY DEF Quot, Defined
<1>2. PICK c \in Int, d \in Nat : c = q.num /\ d = q.den /\ d > 0
  BY DEF Quot, Defined
<1>3. PICK x \in Int, y \in Int : x = a * d /\ y = c * b
  BY <1>1, <1>2
<1>4. PICK t \in Nat : t = b * d /\ t > 0
  BY <1>1, <1>2
<1>5. \A e \in Nat : (e * b) * d = e * t /\ (e * d) * b = e * t /\ e * t \in Nat
  BY <1>1, <1>2, <1>4
<1>6. \A e \in Nat : /\ Versus(p, q, e) = IF Abs(x - y) <= e * t THEN "tie" ELSE IF x - y > 0 THEN "a" ELSE "b"
                     /\ Versus(q, p, e) = IF Abs(y - x) <= e * t THEN "tie" ELSE IF y - x > 0 THEN "a" ELSE "b"
  <2> TAKE e \in Nat
  <2>1. /\ (e * b) * d = e * t /\ (e * d) * b = e * t
    BY <1>5
  <2>2. Versus(p, q, e) = IF Abs(a * d - c * b) <= (e * b) * d THEN "tie" ELSE IF a * d - c * b > 0 THEN "a" ELSE "b"
    BY <1>1, <1>2, Zenon DEF Versus
  <2>3. Versus(q, p, e) = IF Abs(c * b - a * d) <= (e * d) * b THEN "tie" ELSE IF c * b - a * d > 0 THEN "a" ELSE "b"
    BY <1>1, <1>2, Zenon DEF Versus
  <2>4. QED
    BY <1>3, <2>1, <2>2, <2>3, Zenon
<1>7. eps * t <= wider * t /\ 0 * t = 0 /\ eps * t \in Nat /\ wider * t \in Nat
  BY <1>4
<1>8. PICK u \in Nat, v \in Nat : u = eps * t /\ v = wider * t /\ u <= v
  BY <1>7
<1>9. AtMost(q, p) <=> y <= x
  BY <1>1, <1>2, <1>3 DEF AtMost
<1>10. AtMost(p, q) <=> x <= y
  BY <1>1, <1>2, <1>3 DEF AtMost
<1>11. /\ Versus(p, q, eps) = IF Abs(x - y) <= u THEN "tie" ELSE IF x - y > 0 THEN "a" ELSE "b"
       /\ Versus(q, p, eps) = IF Abs(y - x) <= u THEN "tie" ELSE IF y - x > 0 THEN "a" ELSE "b"
       /\ Versus(p, q, wider) = IF Abs(x - y) <= v THEN "tie" ELSE IF x - y > 0 THEN "a" ELSE "b"
  BY <1>6, <1>8
<1>12. Versus(p, q, 0) = IF Abs(x - y) <= 0 THEN "tie" ELSE IF x - y > 0 THEN "a" ELSE "b"
  BY <1>6, <1>7
<1>13. Versus(q, p, eps) = Flip(Versus(p, q, eps))
  BY <1>8, <1>11 DEF Abs, Flip
<1>14. Versus(p, q, eps) = "a" => y <= x /\ ~(x <= y)
  BY <1>8, <1>11 DEF Abs
<1>15. Versus(p, q, 0) = "tie" <=> y <= x /\ x <= y
  BY <1>12 DEF Abs
<1>16. Versus(p, q, wider) \in {"tie", Versus(p, q, eps)}
  BY <1>8, <1>11 DEF Abs
<1>17. QED
  BY <1>9, <1>10, <1>13, <1>14, <1>15, <1>16

\* What a person's rating is compared with is what the judge had said when it was
\* given: judging again, with whatever result, changes no pair, but for ratings from
\* before observations were kept (CalibrationLaw in Rankings).
THEOREM RatingsKeepTheirJudge ==
  ASSUME NEW ann, NEW record, NEW again, NEW key, ann.type # "legacy"
  PROVE  /\ PairRow(ann, again, key) = PairRow(ann, record, key)
         /\ PairRow(ann, record, key).source # "live"
<1>1. JudgeScore(ann, again, key) = JudgeScore(ann, record, key) /\ JudgeScore(ann, record, key).source # "live"
  BY DEF JudgeScore
<1>2. JudgeGate(ann, again) = JudgeGate(ann, record)
  BY DEF JudgeGate
<1>3. QED
  BY <1>1, <1>2 DEF PairRow

-----------------------------------------------------------------------------
(* Files that a probe inspects, buckets of a calibration, intervals         *)

\* Numbers up to a bound, if any, have a last one.
LEMMA LastOf ==
  ASSUME NEW n \in Nat, NEW S \in SUBSET (1..n), S # {}
  PROVE  \E last \in S : \A i \in S : i <= last
<1>1. PICK Behind : Behind = [i \in S |-> {j \in S : j > i}]
  OBVIOUS
<1>2. PICK T : T = {Behind[i] : i \in S}
  OBVIOUS
<1>3. PICK w \in S : TRUE
  OBVIOUS
<1>4. T # {}
  BY <1>2, <1>3
<1>5. IsFiniteSet(S)
  <2>1. IsFiniteSet(1..n)
    BY FS_Interval
  <2>2. QED
    BY <2>1, FS_Subset
<1>6. IsWellFoundedOn(StrictSubsetOrdering(S), SUBSET S)
  BY <1>5, FS_StrictSubsetOrderingWellFounded, FS_FiniteSubsetsOfFinite
<1>7. T \subseteq SUBSET S
  BY <1>1, <1>2
<1>8. PICK least \in T : \A other \in T : <<other, least>> \notin StrictSubsetOrdering(S)
  BY <1>4, <1>6, <1>7, WFMin, Zenon
<1>9. PICK last \in S : least = Behind[last]
  BY <1>2, <1>8
<1>10. ASSUME NEW i \in S, ~(i <= last)
       PROVE  FALSE
  <2>1. i \in Int /\ last \in Int /\ \A j \in S : j \in Int
    OBVIOUS
  <2>2. i > last
    BY <1>10, <2>1
  <2>3. Behind[i] \subseteq Behind[last]
    <3>1. \A j \in S : j > i => j > last
      BY <2>1, <2>2
    <3>2. QED
      BY <1>1, <3>1
  <2>4. i \in Behind[last] /\ i \notin Behind[i]
    BY <1>1, <2>1, <2>2
  <2>5. Behind[i] \in T
    BY <1>2
  <2>6. <<Behind[i], Behind[last]>> \in StrictSubsetOrdering(S)
    BY <1>7, <1>8, <1>9, <2>3, <2>4, <2>5 DEF StrictSubsetOrdering
  <2>7. QED
    BY <1>8, <1>9, <2>5, <2>6
<1>11. QED
  BY <1>10

\* Of the files of one name a probe inspects one, and the last: as many as there are
\* names, whatever directories they lie in (ProbesGradeFairly in Verdicts).
THEOREM InspectedHolds ==
  ASSUME NEW n \in Nat, NEW Names, NEW files \in [1..n -> [name : Names]]
  PROVE  /\ \A i \in 1..n : \E j \in Inspected(files) : j >= i /\ files[j].name = files[i].name
         /\ \A i, j \in Inspected(files) : files[i].name = files[j].name => i = j
<1>1. Inspected(files) = {i \in 1..n : ~\E j \in 1..n : j > i /\ files[j].name = files[i].name}
  BY DEF Inspected
<1>2. ASSUME NEW i \in 1..n
      PROVE  \E j \in Inspected(files) : j >= i /\ files[j].name = files[i].name
  <2>1. PICK S \in SUBSET (1..n) : S = {j \in 1..n : files[j].name = files[i].name}
    OBVIOUS
  <2>2. PICK last \in S : \A j \in S : j <= last
    BY <2>1, LastOf
  <2>3. last \in 1..n /\ files[last].name = files[i].name /\ i <= last
    BY <2>1, <2>2
  <2>4. last \in Inspected(files)
    BY <1>1, <2>1, <2>2, <2>3
  <2>5. QED
    BY <2>3, <2>4
<1>3. \A i, j \in Inspected(files) : files[i].name = files[j].name => i = j
  BY <1>1
<1>4. QED
  BY <1>2, <1>3

\* Every confidence falls into one of the buckets, a higher one into no lower bucket,
\* and twice as many buckets split each in two (CalibrationBounded in Verdicts).
THEOREM BinHolds ==
  ASSUME NEW c \in 0..100, NEW higher \in 0..100, c <= higher, NEW bins \in Nat, bins > 0
  PROVE  /\ Bin(c, bins) \in 0..(bins - 1)
         /\ Bin(c, bins) <= Bin(higher, bins)
         /\ Bin(c, 2 * bins) \in {2 * Bin(c, bins), 2 * Bin(c, bins) + 1}
<1>1. PICK t \in Nat, h \in Nat : t = c * bins /\ h = higher * bins /\ t <= h /\ h <= 100 * bins
  <2>1. c * bins \in Nat /\ higher * bins \in Nat /\ c * bins <= higher * bins /\ higher * bins <= 100 * bins
    OBVIOUS
  <2>2. QED
    BY <2>1, Zenon
<1>2. c * (2 * bins) = 2 * t
  BY <1>1
<1>3. PICK q \in Nat, r \in Nat, s \in Nat : q = t \div 100 /\ r = h \div 100 /\ s = (2 * t) \div 100
  BY <1>1
<1>4. q <= r /\ s \in {2 * q, 2 * q + 1}
  BY <1>1, <1>3
<1>5. Bin(c, bins) = Min({bins - 1, q}) /\ Bin(higher, bins) = Min({bins - 1, r})
      /\ Bin(c, 2 * bins) = Min({2 * bins - 1, s})
  BY <1>1, <1>2, <1>3 DEF Bin
<1>6. \A x, y \in Int : Min({x, y}) = IF x <= y THEN x ELSE y
  BY OfTwo
<1>7. q \in Int /\ r \in Int /\ s \in Int /\ bins - 1 \in Int /\ 2 * bins - 1 \in Int
  OBVIOUS
<1>8. /\ Bin(c, bins) = IF bins - 1 <= q THEN bins - 1 ELSE q
      /\ Bin(higher, bins) = IF bins - 1 <= r THEN bins - 1 ELSE r
      /\ Bin(c, 2 * bins) = IF 2 * bins - 1 <= s THEN 2 * bins - 1 ELSE s
  BY <1>5, <1>6, <1>7, Zenon
<1>9. QED
  BY <1>4, <1>8

\* An interval mirrors when successes and failures swap (IntervalsSound in Statistics).
THEOREM WilsonMirrors ==
  ASSUME NEW n \in Nat, NEW s \in 0..n, n > 0
  PROVE  \A x \in 0..100 : x \in Wilson(s, n) <=> 100 - x \in Wilson(n - s, n)
<1>1. \A t \in 0..n, x \in 0..100 : x \in Wilson(t, n) <=>
        25 * (100 * t - n * x) * (100 * t - n * x) <= 96 * n * x * (100 - x)
  BY DEF Wilson
<1>2. SUFFICES ASSUME NEW x \in 0..100
               PROVE  x \in Wilson(s, n) <=> 100 - x \in Wilson(n - s, n)
  OBVIOUS
<1>3. PICK y \in 0..100 : y = 100 - x /\ x = 100 - y
  OBVIOUS
<1>4. PICK f \in 0..n : f = n - s
  OBVIOUS
<1>5. PICK a \in Int : a = 100 * s - n * x
  <2>1. 100 * s - n * x \in Int
    OBVIOUS
  <2>2. QED
    BY <2>1, Zenon
<1>6. 100 * f - n * y = -a
  <2>1. n * y = 100 * n - n * x /\ 100 * f = 100 * n - 100 * s
    BY <1>3, <1>4
  <2>2. PICK z \in Int : z = n * x
    OBVIOUS
  <2>3. QED
    BY <1>5, <2>1, <2>2
<1>7. 25 * (-a) * (-a) = 25 * a * a
  OBVIOUS
<1>8. 96 * n * y * (100 - y) = 96 * n * x * (100 - x)
  BY <1>3
<1>9. x \in Wilson(s, n) <=> 25 * a * a <= 96 * n * x * (100 - x)
  BY <1>1, <1>5
<1>10. y \in Wilson(f, n) <=> 25 * (-a) * (-a) <= 96 * n * y * (100 - y)
  BY <1>1, <1>6
<1>11. QED
  BY <1>3, <1>4, <1>7, <1>8, <1>9, <1>10
=============================================================================
