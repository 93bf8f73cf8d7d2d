----------------------------- MODULE Services_proofs -----------------------------
(***************************************************************************)
(* Proofs about the services beside the execution of tasks, each by itself *)
(* and for every set-up: pairwise comparison, annotations, evaluators,     *)
(* repeated runs, bundles and reports.                                     *)
(***************************************************************************)
EXTENDS Comparison, Annotations, Evaluation, RepeatedRuns, Bundles, Integers,
  FiniteSetTheorems, WellFoundedInduction, TLAPS

-----------------------------------------------------------------------------
(* Comparison: the invariant                                               *)

PairFields == {"setup", "status", "b", "player", "judge", "human", "calls", "cost"}
PastFields == {"source", "paid", "lost", "raced", "early", "asked", "faults", "users"}
Asking == {"evaluate", "first", "second"}

\* The shapes of what is stored and what a judge holds.
PairShape ==
  /\ DOMAIN pair = PairFields /\ DOMAIN pairPast = PastFields /\ DOMAIN bench = Judges
  /\ pair.cost \in Nat /\ pairPast.paid \in Nat /\ pairPast.lost \in Nat
  /\ pair.status \in {"generating", "ready", "judged", "failed"}
  /\ rival \in Seq({"running", "success", "failed"}) /\ pair.b \in 0 .. Len(rival)
  /\ \A j \in Judges :
       /\ DOMAIN bench[j] = {"pc", "row", "ab"}
       /\ bench[j].pc \in {"idle", "store"} \cup Asking
       /\ bench[j].pc \in Asking => DOMAIN bench[j].row = PairFields /\ bench[j].row.cost \in Nat
       /\ bench[j].pc = "store" => bench[j].row \in DOMAIN rival
       /\ bench[j].pc = "second" => bench[j].ab \in Winners

\* Nobody is judged before there are two, and a verdict is not taken back.
VerdictStays ==
  /\ pair.b = 0 => pair.judge = "none"
  /\ pair.status = "judged" => pair.judge # "none" \/ pair.human # "none"
  /\ \A j \in Judges : bench[j].pc \in Asking =>
       pair.b # 0 /\ (bench[j].row.judge # "none" => pair.judge # "none")

SecondCallers == {j \in Judges : bench[j].pc = "second"}

\* Unless two overlapped, one at a time works, on the row as it is.
OneAtATime ==
  \/ pairPast.raced
  \/ /\ \A i, j \in Judges : bench[i].pc # "idle" /\ bench[j].pc # "idle" => i = j
     /\ \A j \in Judges : bench[j].pc \in Asking =>
          /\ bench[j].row.judge = pair.judge /\ bench[j].row.calls = pair.calls
          /\ bench[j].row.cost = pair.cost
     /\ \A j \in Judges : bench[j].pc = "store" => pair.b = 0
     /\ \/ pairPast.early
        \/ pair.judge = "none" /\ \A j \in Judges : bench[j].pc \notin Asking
        \/ rival[pair.b] = "success"
     /\ BothOrdersAgree
     /\ pairPast.paid = pair.cost + pairPast.lost + Cardinality(SecondCallers)

PairInv == PairShape /\ VerdictStays /\ OneAtATime

-----------------------------------------------------------------------------
(* Comparison: the steps                                                   *)

\* The invariant holds at first.
LEMMA PairInvInit == PairInit => PairInv
<1>1. SUFFICES ASSUME PairInit
               PROVE  PairInv
  OBVIOUS
<1>2. PICK s \in PairSetups :
        /\ pair = [setup |-> s, status |-> IF s.direct THEN "ready" ELSE "generating",
                   b |-> IF s.direct THEN 1 ELSE 0, player |-> s.direct, judge |-> "none",
                   human |-> "none", calls |-> NoCall, cost |-> 0]
        /\ rival \in IF s.direct THEN {<<"success">>, <<"running">>} ELSE {<<>>}
        /\ pairPast = [source |-> "here", paid |-> 0, lost |-> 0, raced |-> FALSE, early |-> FALSE,
                       asked |-> FALSE, faults |-> s.faults, users |-> s.users]
  BY <1>1 DEF PairInit
<1>3. bench = [j \in Judges |-> AtRest] /\ s.direct \in BOOLEAN
  BY <1>1, PairAssumption DEF PairInit
<1>4. /\ pair.judge = "none" /\ pair.cost = 0 /\ pair.b = (IF s.direct THEN 1 ELSE 0)
      /\ pair.status \in {"ready", "generating"} /\ DOMAIN pair = PairFields
      /\ DOMAIN pairPast = PastFields /\ pairPast.paid = 0 /\ pairPast.lost = 0
      /\ DOMAIN bench = Judges /\ \A j \in Judges : bench[j] = AtRest
  BY <1>2, <1>3 DEF PairFields, PastFields
<1>5. \A j \in Judges : DOMAIN bench[j] = {"pc", "row", "ab"} /\ bench[j].pc = "idle"
  BY <1>4 DEF AtRest
<1>6. rival \in Seq({"running", "success", "failed"}) /\ pair.b \in 0 .. Len(rival)
  <2>1. CASE s.direct
    <3>1. PICK v \in {"success", "running"} : rival = <<v>>
      BY <1>2, <2>1
    <3>2. rival \in Seq({"running", "success", "failed"}) /\ Len(rival) = 1
      BY <3>1
    <3>3. QED
      BY <1>4, <2>1, <3>2
  <2>2. CASE ~s.direct
    <3>1. rival = <<>>
      BY <1>2, <2>2
    <3>2. QED
      BY <1>4, <2>2, <3>1
  <2>3. QED
    BY <2>1, <2>2
<1>7. PairShape
  BY <1>4, <1>5, <1>6 DEF PairShape, Asking
<1>8. VerdictStays
  BY <1>4, <1>5 DEF VerdictStays, Asking
<1>9. Cardinality(SecondCallers) = 0
  <2>1. SecondCallers = {}
    BY <1>5 DEF SecondCallers
  <2>2. QED
    BY <2>1, FS_EmptySet
<1>10. OneAtATime
  BY <1>4, <1>5, <1>9 DEF OneAtATime, BothOrdersAgree, Asking
<1>11. QED
  BY <1>7, <1>8, <1>10 DEF PairInv

\* Who works alone is the only one whose second call may be under way.
LEMMA SecondAlone ==
  ASSUME OneAtATime, ~pairPast.raced, NEW j \in Judges, bench[j].pc # "idle"
  PROVE  Cardinality(SecondCallers) = IF bench[j].pc = "second" THEN 1 ELSE 0
<1>1. \A i \in Judges : bench[i].pc = "second" => i = j
  BY DEF OneAtATime
<1>2. CASE bench[j].pc = "second"
  <2>1. SecondCallers = {j}
    BY <1>1, <1>2 DEF SecondCallers
  <2>2. QED
    BY <1>2, <2>1, FS_Singleton
<1>3. CASE bench[j].pc # "second"
  <2>1. SecondCallers = {}
    BY <1>1, <1>3 DEF SecondCallers
  <2>2. QED
    BY <1>3, <2>1, FS_EmptySet
<1>4. QED
  BY <1>2, <1>3

\* Steps beside the judges.
LEMMA PairQuietKept ==
  ASSUME PairInv, PairShape', bench' = bench,
         pair'.judge = pair.judge, pair'.calls = pair.calls, pair'.cost = pair.cost, pair'.b = pair.b,
         pair'.status = "judged" => pair.status = "judged" \/ pair'.human # "none",
         pair.human # "none" => pair'.human # "none",
         pairPast'.paid = pairPast.paid, pairPast'.lost = pairPast.lost,
         pairPast'.raced = pairPast.raced, pairPast'.early = pairPast.early,
         pair.b # 0 /\ rival[pair.b] = "success" => rival'[pair.b] = "success"
  PROVE  PairInv'
<1>1. VerdictStays'
  BY DEF PairInv, VerdictStays
<1>2. SecondCallers' = SecondCallers
  BY DEF SecondCallers
<1>3. CASE pairPast.raced
  BY <1>1, <1>3 DEF PairInv, OneAtATime
<1>4. CASE ~pairPast.raced
  <2>1. \/ pairPast'.early
        \/ pair'.judge = "none" /\ \A j \in Judges : bench'[j].pc \notin Asking
        \/ rival'[pair'.b] = "success"
    BY <1>4 DEF PairInv, OneAtATime, VerdictStays
  <2>2. BothOrdersAgree'
    BY <1>4 DEF PairInv, OneAtATime, BothOrdersAgree
  <2>3. pairPast'.paid = pair'.cost + pairPast'.lost + Cardinality(SecondCallers')
    BY <1>2, <1>4 DEF PairInv, OneAtATime
  <2>4. /\ \A i, j \in Judges : bench'[i].pc # "idle" /\ bench'[j].pc # "idle" => i = j
        /\ \A j \in Judges : bench'[j].pc \in Asking =>
             /\ bench'[j].row.judge = pair'.judge /\ bench'[j].row.calls = pair'.calls
             /\ bench'[j].row.cost = pair'.cost
        /\ \A j \in Judges : bench'[j].pc = "store" => pair'.b = 0
    BY <1>4 DEF PairInv, OneAtATime
  <2>5. OneAtATime'
    BY <2>1, <2>2, <2>3, <2>4 DEF OneAtATime
  <2>6. QED
    BY <1>1, <2>5 DEF PairInv
<1>5. QED
  BY <1>3, <1>4

\* Whoever has nothing under way takes something up.
LEMMA PairBegun ==
  ASSUME PairInv, PairShape', NEW j \in Judges, bench[j].pc = "idle",
         \A i \in Judges \ {j} : bench'[i] = bench[i],
         \/ bench'[j].pc = "store" /\ pair.b = 0
         \/ /\ bench'[j].pc \in {"evaluate", "first"} /\ bench'[j].row = pair /\ pair.b # 0
            /\ ~pairPast'.early => rival[pair.b] = "success",
         pair' = pair, pairPast'.paid = pairPast.paid, pairPast'.lost = pairPast.lost,
         ~pairPast'.raced => ~pairPast.raced /\ ~Busy(j), ~pairPast'.early => ~pairPast.early,
         pair.b # 0 => rival'[pair.b] = rival[pair.b]
  PROVE  PairInv'
<1>1. bench'[j].pc \in Asking => bench'[j].row = pair /\ pair.b # 0
  BY DEF Asking
<1>2. VerdictStays'
  <2>1. \A i \in Judges : bench'[i].pc \in Asking =>
          pair'.b # 0 /\ (bench'[i].row.judge # "none" => pair'.judge # "none")
    BY <1>1 DEF PairInv, VerdictStays
  <2>2. QED
    BY <2>1 DEF PairInv, VerdictStays
<1>3. CASE pairPast'.raced
  BY <1>2, <1>3 DEF PairInv, OneAtATime
<1>4. CASE ~pairPast'.raced
  <2>1. \A i \in Judges \ {j} : bench[i].pc = "idle" /\ bench'[i].pc = "idle"
    BY <1>4 DEF Busy
  <2>2. ~pairPast.raced /\ OneAtATime
    BY <1>4 DEF PairInv
  <2>3. \A i, k \in Judges : bench'[i].pc # "idle" /\ bench'[k].pc # "idle" => i = k
    BY <2>1
  <2>4. \A i \in Judges : bench'[i].pc \in Asking =>
          /\ bench'[i].row.judge = pair'.judge /\ bench'[i].row.calls = pair'.calls
          /\ bench'[i].row.cost = pair'.cost
    BY <1>1, <2>1 DEF Asking
  <2>5. \A i \in Judges : bench'[i].pc = "store" => pair'.b = 0
    BY <2>1
  <2>6. \/ pairPast'.early
        \/ pair'.judge = "none" /\ \A i \in Judges : bench'[i].pc \notin Asking
        \/ rival'[pair'.b] = "success"
    <3>1. CASE bench'[j].pc = "store" /\ pair.b = 0
      BY <2>1, <3>1 DEF PairInv, VerdictStays, Asking
    <3>2. CASE bench'[j].pc # "store"
      BY <3>2
    <3>3. QED
      BY <3>1, <3>2
  <2>7. BothOrdersAgree'
    BY <2>2 DEF OneAtATime, BothOrdersAgree
  <2>8. SecondCallers = {} /\ SecondCallers' = {}
    BY <2>1 DEF SecondCallers
  <2>9. pairPast'.paid = pair'.cost + pairPast'.lost + Cardinality(SecondCallers')
    BY <2>2, <2>8 DEF OneAtATime
  <2>10. OneAtATime'
    BY <2>3, <2>4, <2>5, <2>6, <2>7, <2>9 DEF OneAtATime
  <2>11. QED
    BY <1>2, <2>10 DEF PairInv
<1>5. QED
  BY <1>3, <1>4

\* Whoever has something under way goes on with it, or has done with it.
LEMMA PairWorked ==
  ASSUME PairInv, PairShape', NEW j \in Judges, bench[j].pc # "idle",
         \A i \in Judges \ {j} : bench'[i] = bench[i],
         bench'[j].pc \in {"idle"} \cup Asking,
         bench'[j].pc \in Asking =>
           /\ bench[j].pc \in Asking /\ bench'[j].row.judge = bench[j].row.judge
           /\ bench'[j].row.calls = bench[j].row.calls /\ bench'[j].row.cost = bench[j].row.cost,
         pair'.judge = pair.judge, pair'.calls = pair.calls, pair'.cost = pair.cost,
         pair'.b = pair.b \/ (bench[j].pc = "store" /\ pair'.b # 0),
         pair'.status = "judged" => pair.status = "judged", pair'.human = pair.human,
         rival' = rival, ~pairPast'.raced => ~pairPast.raced, ~pairPast'.early => ~pairPast.early,
         pairPast'.paid + (IF bench[j].pc = "second" THEN 1 ELSE 0) + pairPast.lost
           = pairPast.paid + (IF bench'[j].pc = "second" THEN 1 ELSE 0) + pairPast'.lost
  PROVE  PairInv'
<1>1. VerdictStays'
  <2>1. \A i \in Judges : bench'[i].pc \in Asking =>
          pair'.b # 0 /\ (bench'[i].row.judge # "none" => pair'.judge # "none")
    BY DEF PairInv, VerdictStays
  <2>2. pair'.b = 0 => pair'.judge = "none"
    BY DEF PairInv, VerdictStays
  <2>3. QED
    BY <2>1, <2>2 DEF PairInv, VerdictStays
<1>2. CASE pairPast'.raced
  BY <1>1, <1>2 DEF PairInv, OneAtATime
<1>3. CASE ~pairPast'.raced
  <2>1. ~pairPast.raced /\ OneAtATime
    BY <1>3 DEF PairInv
  <2>2. \A i \in Judges \ {j} : bench[i].pc = "idle" /\ bench'[i].pc = "idle"
    BY <2>1 DEF OneAtATime
  <2>3. \A i, k \in Judges : bench'[i].pc # "idle" /\ bench'[k].pc # "idle" => i = k
    BY <2>2
  <2>4. \A i \in Judges : bench'[i].pc \in Asking =>
          /\ bench'[i].row.judge = pair'.judge /\ bench'[i].row.calls = pair'.calls
          /\ bench'[i].row.cost = pair'.cost
    BY <2>1, <2>2 DEF OneAtATime, Asking
  <2>5. \A i \in Judges : bench'[i].pc = "store" => pair'.b = 0
    BY <2>2 DEF Asking
  <2>6. \/ pairPast'.early
        \/ pair'.judge = "none" /\ \A i \in Judges : bench'[i].pc \notin Asking
        \/ rival'[pair'.b] = "success"
    <3>1. CASE bench[j].pc = "store"
      <4>1. pair.b = 0 /\ pair.judge = "none"
        BY <2>1, <3>1 DEF OneAtATime, PairInv, VerdictStays
      <4>2. bench'[j].pc = "idle"
        BY <3>1 DEF Asking
      <4>3. QED
        BY <2>2, <4>1, <4>2 DEF Asking
    <3>2. CASE bench[j].pc # "store"
      <4>1. pair'.b = pair.b
        BY <3>2
      <4>2. (\A i \in Judges : bench[i].pc \notin Asking) => \A i \in Judges : bench'[i].pc \notin Asking
        BY <2>2 DEF Asking
      <4>3. QED
        BY <2>1, <4>1, <4>2 DEF OneAtATime
    <3>3. QED
      BY <3>1, <3>2
  <2>7. BothOrdersAgree'
    BY <2>1 DEF OneAtATime, BothOrdersAgree
  <2>8. Cardinality(SecondCallers) = (IF bench[j].pc = "second" THEN 1 ELSE 0)
    BY <2>1, SecondAlone
  <2>9. Cardinality(SecondCallers') = (IF bench'[j].pc = "second" THEN 1 ELSE 0)
    <3>1. CASE bench'[j].pc = "second"
      <4>1. SecondCallers' = {j}
        BY <2>2, <3>1 DEF SecondCallers
      <4>2. QED
        BY <3>1, <4>1, FS_Singleton
    <3>2. CASE bench'[j].pc # "second"
      <4>1. SecondCallers' = {}
        BY <2>2, <3>2 DEF SecondCallers
      <4>2. QED
        BY <3>2, <4>1, FS_EmptySet
    <3>3. QED
      BY <3>1, <3>2
  <2>10. pairPast'.paid = pair'.cost + pairPast'.lost + Cardinality(SecondCallers')
    <3>1. pairPast.paid = pair.cost + pairPast.lost + Cardinality(SecondCallers)
      BY <2>1 DEF OneAtATime
    <3>2. /\ pair.cost \in Nat /\ pairPast.paid \in Nat /\ pairPast.lost \in Nat
          /\ pairPast'.paid \in Nat /\ pairPast'.lost \in Nat
      BY DEF PairInv, PairShape
    <3>3. QED
      BY <2>8, <2>9, <3>1, <3>2
  <2>11. OneAtATime'
    BY <2>3, <2>4, <2>5, <2>6, <2>7, <2>10 DEF OneAtATime
  <2>12. QED
    BY <1>1, <2>11 DEF PairInv
<1>4. QED
  BY <1>2, <1>3

\* The verdict of both calls is committed.
LEMMA PairJudged ==
  ASSUME PairInv, NEW j \in Judges, NEW w \in Winners, SecondCall(j, w)
  PROVE  PairInv'
<1> DEFINE read == bench[j].row
           verdict == Reconciled(bench[j].ab, Swapped(w))
           both == [ab |-> bench[j].ab, ba |-> w]
<1>1. /\ bench[j].pc = "second" /\ bench[j].pc \in Asking /\ bench[j].ab \in Winners
      /\ read.cost \in Nat /\ DOMAIN pair = PairFields /\ DOMAIN pairPast = PastFields
      /\ DOMAIN bench = Judges
  BY DEF SecondCall, PairInv, PairShape, Asking
<1>2. verdict \in Winners /\ (verdict \in {"a", "b"} => /\ bench[j].ab = verdict
                                                        /\ w = (IF verdict = "a" THEN "b" ELSE "a"))
  BY <1>1 DEF Reconciled, Swapped, Winners
<1> HIDE DEF verdict
<1>3. /\ pair' = [pair EXCEPT !.status = IF "judged" = read.status THEN pair.status ELSE "judged",
                              !.judge = IF verdict = read.judge THEN pair.judge ELSE verdict,
                              !.calls = IF both = read.calls THEN pair.calls ELSE both,
                              !.cost = read.cost + 2]
      /\ bench' = [bench EXCEPT ![j] = AtRest] /\ rival' = rival
      /\ pairPast' = [pairPast EXCEPT !.paid = pairPast.paid + 1]
  BY DEF SecondCall, verdict
<1>4. /\ pair'.status \in {"judged", pair.status}
      /\ pair'.judge = (IF verdict = read.judge THEN pair.judge ELSE verdict)
      /\ pair'.calls = (IF both = read.calls THEN pair.calls ELSE both)
      /\ pair'.cost = read.cost + 2 /\ pair'.b = pair.b /\ pair'.human = pair.human
      /\ DOMAIN pair' = PairFields
  BY <1>1, <1>3 DEF PairFields
<1>5. /\ pairPast'.paid = pairPast.paid + 1 /\ pairPast'.lost = pairPast.lost
      /\ pairPast'.raced = pairPast.raced /\ pairPast'.early = pairPast.early
      /\ DOMAIN pairPast' = PastFields
  BY <1>1, <1>3 DEF PastFields
<1>6. /\ DOMAIN bench' = Judges /\ bench'[j] = AtRest
      /\ \A i \in Judges \ {j} : bench'[i] = bench[i]
  BY <1>1, <1>3
<1>7. DOMAIN AtRest = {"pc", "row", "ab"} /\ AtRest.pc = "idle"
  BY DEF AtRest
<1> HIDE DEF read, both
<1>8. PairShape'
  <2>1. pair'.status \in {"generating", "ready", "judged", "failed"}
    BY <1>4 DEF PairInv, PairShape
  <2>2. pair'.cost \in Nat /\ pairPast'.paid \in Nat /\ pairPast'.lost \in Nat
    BY <1>1, <1>4, <1>5 DEF PairInv, PairShape
  <2>3. \A i \in Judges :
          /\ DOMAIN bench'[i] = {"pc", "row", "ab"}
          /\ bench'[i].pc \in {"idle", "store"} \cup Asking
          /\ bench'[i].pc \in Asking => DOMAIN bench'[i].row = PairFields /\ bench'[i].row.cost \in Nat
          /\ bench'[i].pc = "store" => bench'[i].row \in DOMAIN rival'
          /\ bench'[i].pc = "second" => bench'[i].ab \in Winners
    BY <1>3, <1>6, <1>7 DEF PairInv, PairShape, Asking
  <2>4. QED
    BY <1>3, <1>4, <1>5, <1>6, <2>1, <2>2, <2>3 DEF PairInv, PairShape
<1>9. pair'.judge # "none" /\ pair.b # 0
  BY <1>1, <1>2, <1>4 DEF PairInv, VerdictStays, Winners, read
<1>10. VerdictStays'
  <2>1. \A i \in Judges : bench'[i].pc \in Asking => pair'.b # 0
    BY <1>4, <1>9
  <2>2. QED
    BY <1>4, <1>9, <2>1 DEF VerdictStays
<1>11. CASE pairPast.raced
  BY <1>5, <1>8, <1>10, <1>11 DEF PairInv, OneAtATime
<1>12. CASE ~pairPast.raced
  <2>1. OneAtATime
    BY DEF PairInv
  <2>2. read.judge = pair.judge /\ read.calls = pair.calls /\ read.cost = pair.cost
    BY <1>1, <1>12, <2>1 DEF OneAtATime, read
  <2>3. pair'.judge = verdict /\ pair'.calls = both /\ pair'.cost = pair.cost + 2
    BY <1>4, <2>2
  <2>4. \A i \in Judges : bench'[i].pc = "idle"
    BY <1>1, <1>6, <1>7, <1>12, <2>1 DEF OneAtATime
  <2>5. BothOrdersAgree'
    BY <1>2, <2>3 DEF BothOrdersAgree, both
  <2>6. pairPast'.early \/ rival'[pair'.b] = "success"
    BY <1>1, <1>3, <1>4, <1>5, <1>12, <2>1 DEF OneAtATime
  <2>7. Cardinality(SecondCallers) = 1
    BY <1>1, <1>12, <2>1, SecondAlone
  <2>8. Cardinality(SecondCallers') = 0
    <3>1. SecondCallers' = {}
      BY <2>4 DEF SecondCallers
    <3>2. QED
      BY <3>1, FS_EmptySet
  <2>9. pairPast'.paid = pair'.cost + pairPast'.lost + Cardinality(SecondCallers')
    BY <1>5, <1>12, <2>1, <2>3, <2>7, <2>8 DEF OneAtATime, PairInv, PairShape
  <2>10. OneAtATime'
    BY <2>4, <2>5, <2>6, <2>9 DEF OneAtATime, Asking
  <2>11. QED
    BY <1>8, <1>10, <2>10 DEF PairInv
<1>13. QED
  BY <1>11, <1>12

\* The shapes stay what they are when one bench and little else changes.
LEMMA PairShapeKept ==
  ASSUME PairInv, NEW j, j \notin Judges \/ (DOMAIN bench'[j] = {"pc", "row", "ab"}
           /\ bench'[j].pc \in {"idle", "store"} \cup Asking
           /\ (bench'[j].pc \in Asking => DOMAIN bench'[j].row = PairFields /\ bench'[j].row.cost \in Nat)
           /\ (bench'[j].pc = "store" => bench'[j].row \in DOMAIN rival')
           /\ (bench'[j].pc = "second" => bench'[j].ab \in Winners)),
         DOMAIN bench' = Judges, \A i \in Judges \ {j} : bench'[i] = bench[i],
         DOMAIN pair' = PairFields, DOMAIN pairPast' = PastFields,
         pair'.cost = pair.cost, pairPast'.paid \in Nat, pairPast'.lost \in Nat,
         pair'.status \in {pair.status, "ready", "judged", "failed"},
         rival' \in Seq({"running", "success", "failed"}), Len(rival) <= Len(rival'),
         pair'.b \in 0 .. Len(rival')
  PROVE  PairShape'
<1>1. DOMAIN rival \subseteq DOMAIN rival'
  <2>1. rival \in Seq({"running", "success", "failed"})
    BY DEF PairInv, PairShape
  <2>2. QED
    BY <2>1
<1>2. \A i \in Judges :
        /\ DOMAIN bench'[i] = {"pc", "row", "ab"}
        /\ bench'[i].pc \in {"idle", "store"} \cup Asking
        /\ bench'[i].pc \in Asking => DOMAIN bench'[i].row = PairFields /\ bench'[i].row.cost \in Nat
        /\ bench'[i].pc = "store" => bench'[i].row \in DOMAIN rival'
        /\ bench'[i].pc = "second" => bench'[i].ab \in Winners
  BY <1>1 DEF PairInv, PairShape
<1>3. pair'.cost \in Nat /\ pair'.status \in {"generating", "ready", "judged", "failed"}
  BY DEF PairInv, PairShape
<1>4. QED
  BY <1>2, <1>3 DEF PairShape

\* What is known of the shapes before a step.
LEMMA PairKnown ==
  ASSUME PairInv
  PROVE  /\ DOMAIN pair = PairFields /\ DOMAIN pairPast = PastFields /\ DOMAIN bench = Judges
         /\ pair.cost \in Nat /\ pairPast.paid \in Nat /\ pairPast.lost \in Nat
         /\ rival \in Seq({"running", "success", "failed"}) /\ pair.b \in 0 .. Len(rival)
         /\ pair.b # 0 => pair.b \in DOMAIN rival
         /\ \A j \in Judges : DOMAIN bench[j] = {"pc", "row", "ab"}
<1>1. rival \in Seq({"running", "success", "failed"}) /\ pair.b \in 0 .. Len(rival)
  BY DEF PairInv, PairShape
<1>2. pair.b # 0 => pair.b \in DOMAIN rival
  BY <1>1
<1>3. QED
  BY <1>1, <1>2 DEF PairInv, PairShape

\* Failing, a person's verdict, the end of a candidate and a deletion.
LEMMA PairBeside ==
  ASSUME PairInv,
         \/ PairFails \/ PairSourceDeleted
         \/ \E w \in Winners : HumanDecides(w)
         \/ \E n \in DOMAIN rival : CandidateEnds(n)
  PROVE  PairInv'
<1>1. /\ DOMAIN pair = PairFields /\ DOMAIN pairPast = PastFields /\ DOMAIN bench = Judges
      /\ pair.cost \in Nat /\ pairPast.paid \in Nat /\ pairPast.lost \in Nat
      /\ rival \in Seq({"running", "success", "failed"}) /\ pair.b \in 0 .. Len(rival)
      /\ pair.b # 0 => pair.b \in DOMAIN rival
  BY PairKnown
<1>2. CASE PairFails
  <2>1. /\ pair'.judge = pair.judge /\ pair'.calls = pair.calls /\ pair'.cost = pair.cost
        /\ pair'.b = pair.b /\ pair'.status = "failed" /\ pair'.human = pair.human
        /\ DOMAIN pair' = PairFields /\ rival' = rival /\ bench' = bench /\ pairPast' = pairPast
    BY <1>1, <1>2 DEF PairFails, PairFields
  <2>2. PairShape'
    BY <1>1, <2>1 DEF PairInv, PairShape
  <2>3. QED
    BY <2>1, <2>2, PairQuietKept
<1>3. CASE PairSourceDeleted
  <2>1. /\ pairPast'.paid = pairPast.paid /\ pairPast'.lost = pairPast.lost
        /\ pairPast'.raced = pairPast.raced /\ pairPast'.early = pairPast.early
        /\ DOMAIN pairPast' = PastFields /\ rival' = rival /\ bench' = bench /\ pair' = pair
    BY <1>1, <1>3 DEF PairSourceDeleted, PastFields
  <2>2. PairShape'
    BY <1>1, <2>1 DEF PairInv, PairShape
  <2>3. QED
    BY <2>1, <2>2, PairQuietKept
<1>4. ASSUME NEW w \in Winners, HumanDecides(w)
      PROVE  PairInv'
  <2>1. /\ pair'.judge = pair.judge /\ pair'.calls = pair.calls /\ pair'.cost = pair.cost
        /\ pair'.b = pair.b /\ pair'.status = "judged" /\ pair'.human = w /\ DOMAIN pair' = PairFields
    BY <1>1, <1>4 DEF HumanDecides, PairFields
  <2>2. /\ pairPast'.paid = pairPast.paid /\ pairPast'.lost = pairPast.lost
        /\ pairPast'.raced = pairPast.raced /\ pairPast'.early = pairPast.early
        /\ DOMAIN pairPast' = PastFields /\ rival' = rival /\ bench' = bench
    BY <1>1, <1>4 DEF HumanDecides, PastFields
  <2>3. PairShape'
    BY <1>1, <2>1, <2>2 DEF PairInv, PairShape
  <2>4. w # "none"
    BY DEF Winners
  <2>5. QED
    BY <2>1, <2>2, <2>3, <2>4, PairQuietKept
<1>5. ASSUME NEW n \in DOMAIN rival, CandidateEnds(n)
      PROVE  PairInv'
  <2>1. PICK s \in {"success", "failed"} : rival' = [rival EXCEPT ![n] = s]
    BY <1>5 DEF CandidateEnds
  <2>2. /\ rival[n] = "running" /\ bench' = bench /\ pair' = pair /\ pairPast' = pairPast
    BY <1>5 DEF CandidateEnds
  <2>3. rival' \in Seq({"running", "success", "failed"}) /\ Len(rival') = Len(rival)
    BY <1>1, <2>1
  <2>4. pair.b # 0 /\ rival[pair.b] = "success" => rival'[pair.b] = "success"
    BY <1>1, <2>1, <2>2
  <2>5. DOMAIN rival' = DOMAIN rival
    BY <1>1, <2>1
  <2>6. PairShape'
    BY <1>1, <2>2, <2>3, <2>5 DEF PairInv, PairShape
  <2>7. QED
    BY <2>2, <2>4, <2>6, PairQuietKept
<1>6. QED
  BY <1>2, <1>3, <1>4, <1>5

\* The job or a request clones the source, evaluates the candidate, or asks a judge.
LEMMA PairStarts ==
  ASSUME PairInv, NEW j \in Judges, CandidateCloned(j) \/ CandidateEvaluated(j) \/ JudgeAsked(j)
  PROVE  PairInv'
<1>1. /\ DOMAIN pair = PairFields /\ DOMAIN pairPast = PastFields /\ DOMAIN bench = Judges
      /\ pair.cost \in Nat /\ pairPast.paid \in Nat /\ pairPast.lost \in Nat
      /\ rival \in Seq({"running", "success", "failed"}) /\ pair.b \in 0 .. Len(rival)
      /\ pair.b # 0 => pair.b \in DOMAIN rival
      /\ DOMAIN bench[j] = {"pc", "row", "ab"}
  BY PairKnown
<1>2. pair' = pair /\ bench[j].pc = "idle"
  BY DEF CandidateCloned, CandidateEvaluated, JudgeAsked
<1>3. CASE CandidateCloned(j)
  <2>1. /\ rival' = Append(rival, "running") /\ pair.b = 0
        /\ bench' = [bench EXCEPT ![j] = [AtRest EXCEPT !.pc = "store", !.row = Len(rival) + 1]]
        /\ pairPast' = Noted(j)
    BY <1>3 DEF CandidateCloned
  <2>2. /\ rival' \in Seq({"running", "success", "failed"}) /\ Len(rival') = Len(rival) + 1
        /\ Len(rival) + 1 \in DOMAIN rival'
    BY <1>1, <2>1
  <2>3. /\ bench'[j].pc = "store" /\ bench'[j].row = Len(rival) + 1
        /\ DOMAIN bench'[j] = {"pc", "row", "ab"} /\ DOMAIN bench' = Judges
        /\ \A i \in Judges \ {j} : bench'[i] = bench[i]
    BY <1>1, <2>1 DEF AtRest
  <2>4. /\ pairPast'.paid = pairPast.paid /\ pairPast'.lost = pairPast.lost
        /\ ~pairPast'.raced => ~pairPast.raced /\ ~Busy(j)
        /\ pairPast'.early = pairPast.early /\ DOMAIN pairPast' = PastFields
    BY <1>1, <2>1 DEF Noted, PastFields
  <2>5. PairShape'
    BY <1>1, <1>2, <2>2, <2>3, <2>4, PairShapeKept DEF Asking
  <2>6. QED
    BY <1>2, <2>1, <2>3, <2>4, <2>5, PairBegun
<1>4. CASE CandidateEvaluated(j)
  <2>1. /\ pair.b # 0 /\ rival[pair.b] = "success" /\ rival' = rival
        /\ bench' = [bench EXCEPT ![j] = [AtRest EXCEPT !.pc = "evaluate", !.row = pair]]
        /\ pairPast' = Noted(j)
    BY <1>4 DEF CandidateEvaluated
  <2>2. /\ bench'[j].pc = "evaluate" /\ bench'[j].row = pair
        /\ DOMAIN bench'[j] = {"pc", "row", "ab"} /\ DOMAIN bench' = Judges
        /\ \A i \in Judges \ {j} : bench'[i] = bench[i]
    BY <1>1, <2>1 DEF AtRest
  <2>3. /\ pairPast'.paid = pairPast.paid /\ pairPast'.lost = pairPast.lost
        /\ ~pairPast'.raced => ~pairPast.raced /\ ~Busy(j)
        /\ pairPast'.early = pairPast.early /\ DOMAIN pairPast' = PastFields
    BY <1>1, <2>1 DEF Noted, PastFields
  <2>4. PairShape'
    BY <1>1, <1>2, <2>1, <2>2, <2>3, PairShapeKept DEF Asking
  <2>5. QED
    BY <1>2, <2>1, <2>2, <2>3, <2>4, PairBegun
<1>5. CASE JudgeAsked(j)
  <2>1. /\ pair.b # 0 /\ rival' = rival
        /\ bench' = [bench EXCEPT ![j] = [pc |-> "first", row |-> pair, ab |-> "none"]]
        /\ pairPast' = [pairPast EXCEPT !.users = pairPast.users - 1,
                          !.raced = pairPast.raced \/ Busy(j),
                          !.early = pairPast.early \/ rival[pair.b] # "success"]
    BY <1>5 DEF JudgeAsked
  <2>2. /\ bench'[j].pc = "first" /\ bench'[j].row = pair
        /\ DOMAIN bench'[j] = {"pc", "row", "ab"} /\ DOMAIN bench' = Judges
        /\ \A i \in Judges \ {j} : bench'[i] = bench[i]
    BY <1>1, <2>1
  <2>3. /\ pairPast'.paid = pairPast.paid /\ pairPast'.lost = pairPast.lost
        /\ ~pairPast'.raced => ~pairPast.raced /\ ~Busy(j)
        /\ ~pairPast'.early => ~pairPast.early /\ rival[pair.b] = "success"
        /\ DOMAIN pairPast' = PastFields
    BY <1>1, <2>1 DEF PastFields
  <2>4. PairShape'
    BY <1>1, <1>2, <2>1, <2>2, <2>3, PairShapeKept DEF Asking
  <2>5. QED
    BY <1>2, <2>1, <2>2, <2>3, <2>4, PairBegun
<1>6. QED
  BY <1>3, <1>4, <1>5

\* The candidate is stored, made ready, shown in the first order, or given up.
LEMMA PairGoesOn ==
  ASSUME PairInv, NEW j \in Judges,
         \/ CandidateStored(j) \/ PairReady(j) \/ JudgeFails(j)
         \/ \E w \in Winners : FirstCall(j, w)
  PROVE  PairInv'
<1>1. /\ DOMAIN pair = PairFields /\ DOMAIN pairPast = PastFields /\ DOMAIN bench = Judges
      /\ pair.cost \in Nat /\ pairPast.paid \in Nat /\ pairPast.lost \in Nat
      /\ rival \in Seq({"running", "success", "failed"}) /\ pair.b \in 0 .. Len(rival)
      /\ DOMAIN bench[j] = {"pc", "row", "ab"}
  BY PairKnown
<1>2. rival' = rival /\ bench[j].pc # "idle"
  BY DEF CandidateStored, PairReady, JudgeFails, FirstCall
<1>3. AtRest.pc = "idle" /\ DOMAIN AtRest = {"pc", "row", "ab"}
  BY DEF AtRest
<1>4. CASE CandidateStored(j)
  <2>1. /\ bench[j].pc = "store" /\ bench' = [bench EXCEPT ![j] = AtRest] /\ pairPast' = pairPast
        /\ pair' = [pair EXCEPT !.b = bench[j].row]
    BY <1>4 DEF CandidateStored
  <2>2. /\ pair'.judge = pair.judge /\ pair'.calls = pair.calls /\ pair'.cost = pair.cost
        /\ pair'.b = bench[j].row /\ pair'.status = pair.status /\ pair'.human = pair.human
        /\ DOMAIN pair' = PairFields
    BY <1>1, <2>1 DEF PairFields
  <2>3. bench[j].row \in DOMAIN rival
    BY <2>1 DEF PairInv, PairShape
  <2>4. pair'.b \in 0 .. Len(rival) /\ pair'.b # 0
    BY <1>1, <2>2, <2>3
  <2>5. /\ bench'[j] = AtRest /\ DOMAIN bench' = Judges /\ \A i \in Judges \ {j} : bench'[i] = bench[i]
    BY <1>1, <2>1
  <2>6. PairShape'
    BY <1>1, <1>2, <1>3, <2>1, <2>2, <2>4, <2>5, PairShapeKept DEF Asking
  <2>7. QED
    BY <1>1, <1>2, <1>3, <2>1, <2>2, <2>4, <2>5, <2>6, PairWorked DEF Asking
<1>5. CASE PairReady(j)
  <2> DEFINE read == [bench[j].row EXCEPT !.status = "ready", !.player = TRUE]
  <2>1. /\ bench[j].pc = "evaluate" /\ pair' = [pair EXCEPT !.status = "ready", !.player = TRUE]
        /\ \/ bench' = [bench EXCEPT ![j] = [pc |-> "first", row |-> read, ab |-> "none"]]
           \/ bench' = [bench EXCEPT ![j] = AtRest]
        /\ pairPast' = [pairPast EXCEPT !.raced = pairPast.raced \/ Busy(j) \/ pair.cost # bench[j].row.cost]
    BY <1>5 DEF PairReady
  <2>2. /\ pair'.judge = pair.judge /\ pair'.calls = pair.calls /\ pair'.cost = pair.cost
        /\ pair'.b = pair.b /\ pair'.status = "ready" /\ pair'.human = pair.human
        /\ DOMAIN pair' = PairFields
    BY <1>1, <2>1 DEF PairFields
  <2>3. /\ pairPast'.paid = pairPast.paid /\ pairPast'.lost = pairPast.lost
        /\ ~pairPast'.raced => ~pairPast.raced
        /\ pairPast'.early = pairPast.early /\ DOMAIN pairPast' = PastFields
    BY <1>1, <2>1 DEF PastFields
  <2>4. DOMAIN bench[j].row = PairFields /\ bench[j].row.cost \in Nat
    BY <2>1 DEF PairInv, PairShape, Asking
  <2>5. /\ DOMAIN read = PairFields /\ read.judge = bench[j].row.judge
        /\ read.calls = bench[j].row.calls /\ read.cost = bench[j].row.cost
    BY <2>4 DEF PairFields
  <2> HIDE DEF read
  <2>6. /\ DOMAIN bench' = Judges /\ \A i \in Judges \ {j} : bench'[i] = bench[i]
        /\ bench'[j] = [pc |-> "first", row |-> read, ab |-> "none"] \/ bench'[j] = AtRest
    BY <1>1, <2>1
  <2>7. /\ DOMAIN bench'[j] = {"pc", "row", "ab"}
        /\ bench'[j].pc = "idle" \/ (bench'[j].pc = "first" /\ bench'[j].row = read)
    BY <1>3, <2>6
  <2>8. PairShape'
    BY <1>1, <1>2, <2>2, <2>3, <2>4, <2>5, <2>6, <2>7, PairShapeKept DEF Asking
  <2>9. QED
    BY <1>1, <1>2, <2>1, <2>2, <2>3, <2>5, <2>6, <2>7, <2>8, PairWorked DEF Asking
<1>6. CASE JudgeFails(j)
  <2>1. /\ bench' = [bench EXCEPT ![j] = AtRest] /\ pair' = pair
        /\ pairPast' = [pairPast EXCEPT !.faults = pairPast.faults - 1,
                          !.lost = IF bench[j].pc = "second" THEN pairPast.lost + 1 ELSE pairPast.lost]
    BY <1>6 DEF JudgeFails
  <2>2. /\ pairPast'.paid = pairPast.paid /\ pairPast'.raced = pairPast.raced
        /\ pairPast'.lost = (IF bench[j].pc = "second" THEN pairPast.lost + 1 ELSE pairPast.lost)
        /\ pairPast'.early = pairPast.early /\ DOMAIN pairPast' = PastFields
    BY <1>1, <2>1 DEF PastFields
  <2>3. /\ bench'[j] = AtRest /\ DOMAIN bench' = Judges /\ \A i \in Judges \ {j} : bench'[i] = bench[i]
    BY <1>1, <2>1
  <2>4. PairShape'
    BY <1>1, <1>2, <1>3, <2>1, <2>2, <2>3, PairShapeKept DEF Asking
  <2>5. QED
    BY <1>1, <1>2, <1>3, <2>1, <2>2, <2>3, <2>4, PairWorked DEF Asking
<1>7. ASSUME NEW w \in Winners, FirstCall(j, w)
      PROVE  PairInv'
  <2>1. /\ bench[j].pc = "first" /\ pair' = pair
        /\ bench' = [bench EXCEPT ![j].pc = "second", ![j].ab = w]
        /\ pairPast' = [pairPast EXCEPT !.paid = pairPast.paid + 1]
    BY <1>7 DEF FirstCall
  <2>2. /\ pairPast'.paid = pairPast.paid + 1 /\ pairPast'.raced = pairPast.raced
        /\ pairPast'.lost = pairPast.lost
        /\ pairPast'.early = pairPast.early /\ DOMAIN pairPast' = PastFields
    BY <1>1, <2>1 DEF PastFields
  <2>3. /\ bench'[j].pc = "second" /\ bench'[j].ab = w /\ bench'[j].row = bench[j].row
        /\ DOMAIN bench'[j] = {"pc", "row", "ab"}
        /\ DOMAIN bench' = Judges /\ \A i \in Judges \ {j} : bench'[i] = bench[i]
    BY <1>1, <2>1
  <2>4. DOMAIN bench[j].row = PairFields /\ bench[j].row.cost \in Nat
    BY <2>1 DEF PairInv, PairShape, Asking
  <2>5. PairShape'
    <3>1. bench'[j].pc = "second" /\ DOMAIN bench'[j].row = PairFields /\ bench'[j].row.cost \in Nat
      BY <2>3, <2>4
    <3>2. pairPast'.paid \in Nat /\ pairPast'.lost \in Nat
      BY <2>2 DEF PairInv, PairShape
    <3>3. pair' = pair /\ rival' = rival
      BY <2>1, <1>7 DEF FirstCall
    <3>4. /\ DOMAIN pair' = PairFields /\ pair'.status \in {pair.status, "ready", "judged", "failed"}
          /\ rival' \in Seq({"running", "success", "failed"}) /\ Len(rival) <= Len(rival')
          /\ pair'.b \in 0 .. Len(rival')
      BY <1>2, <3>3 DEF PairInv, PairShape
    <3>5. QED
      BY <1>2, <2>2, <2>3, <3>1, <3>2, <3>3, <3>4, PairShapeKept DEF Asking
  <2>6. QED
    BY <1>1, <1>2, <2>1, <2>2, <2>3, <2>5, PairWorked DEF Asking
<1>8. QED
  BY <1>4, <1>5, <1>6, <1>7

\* What PairSound says of pairwise comparison (comparison.py) holds for every set-up and
\* any number of judges: a verdict for one candidate was given in both orders, no
\* comparison is judged without a verdict, and every call is paid once.
THEOREM ComparisonIsSound == PairSpec => []PairSound
<1>1. PairInit => PairInv
  BY PairInvInit
<1>2. PairInv /\ [PairNext]_pairVars => PairInv'
  <2>1. SUFFICES ASSUME PairInv, [PairNext]_pairVars
                 PROVE  PairInv'
    OBVIOUS
  <2>2. CASE UNCHANGED pairVars
    <3>1. pair' = pair /\ rival' = rival /\ bench' = bench /\ pairPast' = pairPast
      BY <2>2 DEF pairVars
    <3>2. PairShape'
      BY <2>1, <3>1 DEF PairInv, PairShape
    <3>3. QED
      BY <2>1, <3>1, <3>2, PairQuietKept
  <2>3. CASE PairNext
    BY <2>1, <2>3, PairBeside, PairStarts, PairGoesOn, PairJudged DEF PairNext, JobStep, Judging
  <2>4. QED
    BY <2>1, <2>2, <2>3
<1>3. PairInv => PairSound
  <2>1. SUFFICES ASSUME PairInv
                 PROVE  PairSound
    OBVIOUS
  <2>2. BothOrdersAgree
    BY <2>1 DEF PairInv, OneAtATime, BothOrdersAgree
  <2>3. pair.judge # "none" /\ ~pairPast.early /\ ~pairPast.raced => rival[pair.b] = "success"
    BY <2>1 DEF PairInv, OneAtATime
  <2>4. ~pairPast.raced =>
          pairPast.paid = pair.cost + pairPast.lost + Cardinality({j \in Judges : bench[j].pc = "second"})
    BY <2>1 DEF PairInv, OneAtATime, SecondCallers
  <2>5. pair.status = "judged" => pair.judge # "none" \/ pair.human # "none"
    BY <2>1 DEF PairInv, VerdictStays
  <2>6. QED
    BY <2>2, <2>3, <2>4, <2>5 DEF PairSound, JudgedOnAnswers
<1>4. QED
  BY <1>1, <1>2, <1>3, PTL DEF PairSpec

-----------------------------------------------------------------------------
(* Annotations: the invariant                                              *)

DeskFields == {"by", "blind", "open", "used", "served"}
RatingFields == {"pc", "stamp", "saw", "since", "row", "why"}
LedgerRows ==
  [by : {noted.setup.ratings[r].by : r \in DOMAIN noted.setup.ratings}, human : BOOLEAN, stamp : Nat,
   blind : BOOLEAN, desk : Nat, saw : Nat, since : Nat, supersedes : Nat]

\* The shapes of what is stored and what a transaction holds.
AnnotationShape ==
  /\ DOMAIN noted = {"setup", "clock", "rejudged", "approve"}
  /\ noted.setup \in AnnotationSetups /\ noted.clock \in Nat /\ opinion \in Nat
  /\ DOMAIN desk = DOMAIN noted.setup.desks
  /\ \A d \in DOMAIN desk :
       /\ DOMAIN desk[d] = DeskFields
       /\ desk[d].by = noted.setup.desks[d].by /\ desk[d].blind = noted.setup.desks[d].blind
  /\ DOMAIN rating = DOMAIN noted.setup.ratings
  /\ \A r \in DOMAIN rating :
       /\ DOMAIN rating[r] = RatingFields
       /\ rating[r].stamp \in Nat /\ rating[r].saw \in Nat /\ rating[r].since \in Nat /\ rating[r].row \in Nat
  /\ ledger \in Seq(LedgerRows)

\* No row supersedes this one.
Current(i) == \A j \in DOMAIN ledger : ledger[j].supersedes # i
SameRater(i, j) == ledger[i].by = ledger[j].by /\ ledger[i].human = ledger[j].human

\* What a row says of those before it, and of its session.
RowPlace(i) ==
  LET row == ledger[i] IN
  /\ row.supersedes # 0 =>
       /\ row.supersedes \in DOMAIN ledger /\ row.supersedes < i /\ SameRater(row.supersedes, i)
       /\ row.supersedes <= row.since => ledger[row.supersedes].saw <= row.saw
  /\ row.stamp <= noted.clock /\ row.saw <= opinion
  /\ row.desk = 0 => ~row.blind
  /\ row.desk # 0 =>
       /\ row.desk \in DOMAIN desk /\ desk[row.desk].used /\ desk[row.desk].by = row.by
       /\ row.blind => desk[row.desk].blind
  /\ \E j \in DOMAIN ledger : SameRater(j, i) /\ Current(j)

RowsApart ==
  \A i, j \in DOMAIN ledger : i # j =>
    /\ ledger[i].stamp # ledger[j].stamp
    /\ ledger[i].desk # 0 => ledger[i].desk # ledger[j].desk
    /\ SameRater(i, j) => ~Current(i) \/ ~Current(j)

DeskPlace(d) ==
  /\ desk[d].served \subseteq {"judge", desk[d].by}
  /\ desk[d].blind => "judge" \notin desk[d].served

InWork(r) == rating[r].pc \in {"begun", "resolved", "read", "appended"}
Holding(r) == rating[r].pc \in {"resolved", "read", "appended"}

\* A rating is refused as a fork where rows were committed in another order than begun.
ForkSeen(r) ==
  \E i, j \in DOMAIN ledger :
    /\ i < j /\ ledger[i].stamp > ledger[j].stamp
    /\ ledger[i].by = Asks(r).by /\ ledger[j].by = Asks(r).by

\* What a transaction knows is so until it ends.
RatingPlace(r) ==
  LET own == rating[r] IN
  /\ InWork(r) =>
       /\ own.stamp <= noted.clock /\ own.since <= Len(ledger)
       /\ \A i \in DOMAIN ledger : ledger[i].stamp # own.stamp
  /\ Holding(r) /\ Asks(r).desk # 0 => desk[Asks(r).desk].by = Asks(r).by /\ ~desk[Asks(r).desk].used
  /\ own.pc \in {"read", "appended"} =>
       own.saw <= opinion /\ \A i \in DOMAIN ledger : i <= own.since => ledger[i].saw <= own.saw
  /\ own.pc = "appended" /\ own.row = 0 => RowsOf(Asks(r).by, Asks(r).human) = {}
  /\ own.pc = "appended" /\ own.row # 0 => own.row \in RowsOf(Asks(r).by, Asks(r).human) /\ Current(own.row)
  /\ own.why = "fork" => ForkSeen(r)

RatingsApart ==
  \A r, t \in DOMAIN rating : r # t =>
    /\ InWork(r) /\ InWork(t) => rating[r].stamp # rating[t].stamp
    /\ Holding(r) /\ Holding(t) /\ Asks(r).desk # 0 => Asks(r).desk # Asks(t).desk
    /\ ~(rating[r].pc = "appended" /\ rating[t].pc = "appended")

SlotPlace ==
  /\ slot = 0 => \A i \in DOMAIN ledger : ~ledger[i].human
  /\ slot # 0 => /\ slot \in DOMAIN ledger /\ ledger[slot].human
                 /\ \A i \in DOMAIN ledger : ledger[i].human => i <= slot

AnnotationInv ==
  /\ AnnotationShape /\ (\A i \in DOMAIN ledger : RowPlace(i)) /\ RowsApart
  /\ (\A d \in DOMAIN desk : DeskPlace(d))
  /\ (\A r \in DOMAIN rating : RatingPlace(r)) /\ RatingsApart /\ SlotPlace

-----------------------------------------------------------------------------
(* Annotations: the steps                                                  *)

LessThan == {ss \in Nat \X Nat : ss[1] < ss[2]}

\* A set of numbers has a least one.
LEMMA LeastNumber ==
  ASSUME NEW S, S \subseteq Nat, S # {}
  PROVE  \E m \in S : \A k \in S : m <= k
<1>1. IsWellFoundedOn(LessThan, Nat)
  BY NatLessThanWellFounded DEF OpToRel, LessThan
<1>2. PICK m \in S : \A k \in S : ~ (<<k, m>> \in LessThan)
  BY <1>1, WFMin
<1>3. ASSUME NEW k \in S
      PROVE  m <= k
  <2>1. <<k, m>> \in Nat \X Nat /\ <<k, m>>[1] = k /\ <<k, m>>[2] = m
    OBVIOUS
  <2>2. ~(k < m)
    BY <1>2, <2>1 DEF LessThan
  <2>3. QED
    BY <2>2
<1>4. QED
  BY <1>3

\* The fields of the rows that are numbers.
LEMMA RowTypes ==
  ASSUME AnnotationShape
  PROVE  /\ Len(ledger) \in Nat /\ DOMAIN ledger = 1 .. Len(ledger)
         /\ \A i \in DOMAIN ledger :
              /\ ledger[i] \in LedgerRows
              /\ ledger[i].stamp \in Nat /\ ledger[i].desk \in Nat /\ ledger[i].saw \in Nat
              /\ ledger[i].since \in Nat /\ ledger[i].supersedes \in Nat
<1>1. ledger \in Seq(LedgerRows)
  BY DEF AnnotationShape
<1>2. Len(ledger) \in Nat /\ DOMAIN ledger = 1 .. Len(ledger)
  BY <1>1
<1>3. \A i \in DOMAIN ledger : ledger[i] \in LedgerRows
  BY <1>1, <1>2
<1>4. QED
  BY <1>2, <1>3 DEF LedgerRows

\* An annotator's latest row is one of the annotator's, and no other is dated later.
LEMMA LatestIsMine ==
  ASSUME AnnotationInv, NEW by, NEW human, RowsOf(by, human) # {}
  PROVE  /\ Latest(by, human) \in RowsOf(by, human)
         /\ \A j \in RowsOf(by, human) : ledger[j].stamp <= ledger[Latest(by, human)].stamp
<1> DEFINE mine == RowsOf(by, human)
           ages == {n \in Nat : \E i \in mine : ledger[i].stamp + n = noted.clock}
<1>1. /\ noted.clock \in Nat
      /\ \A i \in mine : ledger[i].stamp \in Nat /\ ledger[i].stamp <= noted.clock
  BY RowTypes DEF AnnotationInv, AnnotationShape, RowPlace, RowsOf
<1>2. \A i \in mine : noted.clock - ledger[i].stamp \in ages
  <2>1. SUFFICES ASSUME NEW i \in mine
                 PROVE  noted.clock - ledger[i].stamp \in ages
    OBVIOUS
  <2>2. /\ noted.clock - ledger[i].stamp \in Nat
        /\ ledger[i].stamp + (noted.clock - ledger[i].stamp) = noted.clock
    BY <1>1
  <2>3. QED
    BY <2>2
<1>3. ages \subseteq Nat /\ ages # {}
  BY <1>2
<1>4. PICK m \in ages : \A k \in ages : m <= k
  BY <1>3, LeastNumber
<1>5. PICK i \in mine : ledger[i].stamp + m = noted.clock
  BY <1>4
<1>6. \A j \in mine : ledger[j].stamp <= ledger[i].stamp
  <2>1. SUFFICES ASSUME NEW j \in mine
                 PROVE  ledger[j].stamp <= ledger[i].stamp
    OBVIOUS
  <2>2. m <= noted.clock - ledger[j].stamp /\ m \in Nat
    BY <1>2, <1>4
  <2>3. QED
    BY <1>1, <1>5, <2>2
<1>7. QED
  BY <1>5, <1>6 DEF Latest

\* Steps beside the ratings.
LEMMA AnnotationQuiet ==
  ASSUME AnnotationInv, AnnotationShape', ledger' = ledger, rating' = rating, slot' = slot,
         noted'.setup = noted.setup, noted'.clock = noted.clock, opinion' \in {opinion, opinion + 1},
         \A d \in DOMAIN desk : /\ desk'[d].used = desk[d].used
                                /\ DeskPlace(d)'
  PROVE  AnnotationInv'
<1>1. /\ DOMAIN desk' = DOMAIN desk
      /\ \A d \in DOMAIN desk : desk'[d].by = desk[d].by /\ desk'[d].blind = desk[d].blind
  BY DEF AnnotationInv, AnnotationShape
<1>2. \A i \in DOMAIN ledger : RowPlace(i)'
  <2>1. SUFFICES ASSUME NEW i \in DOMAIN ledger
                 PROVE  RowPlace(i)'
    OBVIOUS
  <2>2. ledger[i].saw \in Nat /\ opinion \in Nat
    BY RowTypes DEF AnnotationInv, AnnotationShape
  <2>3. RowPlace(i)
    BY DEF AnnotationInv
  <2>4. ledger[i].saw <= opinion'
    BY <2>2, <2>3 DEF RowPlace
  <2>5. QED
    BY <1>1, <2>3, <2>4 DEF RowPlace, SameRater, Current
<1>3. \A r \in DOMAIN rating : RatingPlace(r)'
  <2>1. SUFFICES ASSUME NEW r \in DOMAIN rating
                 PROVE  RatingPlace(r)'
    OBVIOUS
  <2>2. rating[r].saw \in Nat /\ opinion \in Nat /\ RatingPlace(r)
    BY DEF AnnotationInv, AnnotationShape
  <2>3. rating[r].pc \in {"read", "appended"} => rating[r].saw <= opinion'
    BY <2>2 DEF RatingPlace
  <2>4. Asks(r)' = Asks(r) /\ (Asks(r).desk # 0 => Asks(r).desk \in DOMAIN desk)
    BY AnnotationAssumption DEF Asks, AnnotationInv, AnnotationShape
  <2>5. Holding(r) /\ Asks(r).desk # 0 =>
          desk'[Asks(r).desk].by = Asks(r).by /\ ~desk'[Asks(r).desk].used
    BY <1>1, <2>2, <2>4 DEF RatingPlace
  <2>6. QED
    BY <2>2, <2>3, <2>4, <2>5 DEF RatingPlace, InWork, Holding, RowsOf, Current, ForkSeen
<1>4. RatingsApart'
  BY DEF AnnotationInv, RatingsApart, InWork, Holding, Asks
<1>5. RowsApart' /\ SlotPlace'
  BY DEF AnnotationInv, RowsApart, SlotPlace, SameRater, Current
<1>6. QED
  BY <1>1, <1>2, <1>3, <1>4, <1>5 DEF AnnotationInv

\* A transaction goes on without storing anything.
LEMMA RatingMoved ==
  ASSUME AnnotationInv, NEW r \in DOMAIN rating,
         ledger' = ledger, desk' = desk, slot' = slot, opinion' = opinion,
         DOMAIN noted' = DOMAIN noted, noted'.setup = noted.setup,
         noted'.clock \in {noted.clock, noted.clock + 1},
         DOMAIN rating' = DOMAIN rating, \A t \in DOMAIN rating \ {r} : rating'[t] = rating[t],
         DOMAIN rating'[r] = RatingFields,
         rating'[r].stamp \in Nat, rating'[r].saw \in Nat,
         rating'[r].since \in Nat, rating'[r].row \in Nat,
         RatingPlace(r)',
         \A t \in DOMAIN rating \ {r} :
           /\ InWork(r)' /\ InWork(t) => rating'[r].stamp # rating[t].stamp
           /\ Holding(r)' /\ Holding(t) /\ Asks(r).desk # 0 => Asks(r).desk # Asks(t).desk
           /\ ~(rating'[r].pc = "appended" /\ rating[t].pc = "appended")
  PROVE  AnnotationInv'
<1>1. AnnotationShape'
  <2>1. noted.clock \in Nat /\ noted'.clock \in Nat
    BY DEF AnnotationInv, AnnotationShape
  <2>2. LedgerRows' = LedgerRows
    BY DEF LedgerRows
  <2>3. \A t \in DOMAIN rating' :
          /\ DOMAIN rating'[t] = RatingFields
          /\ rating'[t].stamp \in Nat /\ rating'[t].saw \in Nat
          /\ rating'[t].since \in Nat /\ rating'[t].row \in Nat
    <3>1. \A t \in DOMAIN rating :
            /\ DOMAIN rating[t] = RatingFields
            /\ rating[t].stamp \in Nat /\ rating[t].saw \in Nat
            /\ rating[t].since \in Nat /\ rating[t].row \in Nat
      BY DEF AnnotationInv, AnnotationShape
    <3>2. QED
      BY <3>1
  <2>4. QED
    BY <2>1, <2>2, <2>3 DEF AnnotationInv, AnnotationShape
<1>2. \A i \in DOMAIN ledger : RowPlace(i)'
  <2>1. SUFFICES ASSUME NEW i \in DOMAIN ledger
                 PROVE  RowPlace(i)'
    OBVIOUS
  <2>2. ledger[i].stamp \in Nat /\ noted.clock \in Nat /\ RowPlace(i)
    BY RowTypes DEF AnnotationInv, AnnotationShape
  <2>3. ledger[i].stamp <= noted'.clock
    BY <2>2 DEF RowPlace
  <2>4. QED
    BY <2>2, <2>3 DEF RowPlace, SameRater, Current
<1>3. \A t \in DOMAIN rating : Asks(t)' = Asks(t)
  BY DEF Asks
<1>4. ASSUME NEW t \in DOMAIN rating \ {r}
      PROVE  RatingPlace(t)'
  <2>1. rating[t].stamp \in Nat /\ noted.clock \in Nat /\ RatingPlace(t)
    BY DEF AnnotationInv, AnnotationShape
  <2>2. InWork(t) => rating[t].stamp <= noted'.clock
    BY <2>1 DEF RatingPlace
  <2>3. QED
    BY <1>3, <2>1, <2>2 DEF RatingPlace, InWork, Holding, RowsOf, Current, ForkSeen
<1>5. RatingsApart'
  BY <1>3 DEF AnnotationInv, RatingsApart, InWork, Holding
<1>6. RowsApart' /\ SlotPlace' /\ \A d \in DOMAIN desk : DeskPlace(d)'
  BY DEF AnnotationInv, RowsApart, SlotPlace, SameRater, Current, DeskPlace
<1>7. QED
  BY <1>1, <1>2, <1>4, <1>5, <1>6 DEF AnnotationInv

\* The invariant holds at first.
LEMMA AnnotationInvInit == AnnotationsInit => AnnotationInv
<1>1. SUFFICES ASSUME AnnotationsInit
               PROVE  AnnotationInv
  OBVIOUS
<1>2. PICK s \in AnnotationSetups :
        /\ ledger = <<>>
        /\ desk = [d \in DOMAIN s.desks |->
                     [by |-> s.desks[d].by, blind |-> s.desks[d].blind, open |-> FALSE, used |-> FALSE,
                      served |-> {}]]
        /\ rating = [r \in DOMAIN s.ratings |-> Unsent]
        /\ noted = [setup |-> s, clock |-> 0, rejudged |-> s.rejudged, approve |-> s.approve]
  BY <1>1 DEF AnnotationsInit
<1>3. opinion = 1 /\ slot = 0
  BY <1>1 DEF AnnotationsInit
<1>4. /\ DOMAIN noted = {"setup", "clock", "rejudged", "approve"} /\ noted.setup = s /\ noted.clock = 0
      /\ DOMAIN desk = DOMAIN s.desks /\ DOMAIN rating = DOMAIN s.ratings
  BY <1>2
<1>5. \A d \in DOMAIN desk :
        /\ DOMAIN desk[d] = DeskFields /\ desk[d].by = s.desks[d].by /\ desk[d].blind = s.desks[d].blind
        /\ desk[d].served = {}
  BY <1>2 DEF DeskFields
<1>6. \A r \in DOMAIN rating :
        /\ DOMAIN rating[r] = RatingFields /\ rating[r].stamp = 0 /\ rating[r].saw = 0
        /\ rating[r].since = 0 /\ rating[r].row = 0 /\ rating[r].pc = "unsent" /\ rating[r].why = "none"
  BY <1>2 DEF Unsent, RatingFields
<1>7. ledger \in Seq(LedgerRows) /\ DOMAIN ledger = {}
  BY <1>2
<1>8. AnnotationShape
  BY <1>3, <1>4, <1>5, <1>6, <1>7 DEF AnnotationShape
<1>9. \A r \in DOMAIN rating : RatingPlace(r)
  BY <1>6 DEF RatingPlace, InWork, Holding
<1>10. RatingsApart
  BY <1>6 DEF RatingsApart, InWork, Holding
<1>11. (\A d \in DOMAIN desk : DeskPlace(d)) /\ RowsApart /\ SlotPlace
  BY <1>3, <1>5, <1>7 DEF DeskPlace, RowsApart, SlotPlace
<1>12. QED
  BY <1>7, <1>8, <1>9, <1>10, <1>11 DEF AnnotationInv

\* A rating is sent.
LEMMA RatingBegun ==
  ASSUME AnnotationInv, NEW r \in DOMAIN rating, RatingBegins(r)
  PROVE  AnnotationInv'
<1>1. /\ rating[r].pc = "unsent"
      /\ noted' = [noted EXCEPT !.clock = noted.clock + 1]
      /\ rating' = [rating EXCEPT ![r].pc = "begun", ![r].stamp = noted.clock + 1,
                                  ![r].since = Len(ledger)]
      /\ ledger' = ledger /\ desk' = desk /\ opinion' = opinion /\ slot' = slot
  BY DEF RatingBegins
<1>2. /\ DOMAIN noted = {"setup", "clock", "rejudged", "approve"} /\ noted.clock \in Nat
      /\ DOMAIN rating[r] = RatingFields /\ rating[r].saw \in Nat /\ rating[r].row \in Nat
      /\ RatingPlace(r)
  BY DEF AnnotationInv, AnnotationShape
<1>3. /\ noted'.setup = noted.setup /\ noted'.clock = noted.clock + 1 /\ DOMAIN noted' = DOMAIN noted
  BY <1>1, <1>2
<1>4. /\ DOMAIN rating' = DOMAIN rating /\ \A t \in DOMAIN rating \ {r} : rating'[t] = rating[t]
      /\ DOMAIN rating'[r] = RatingFields /\ rating'[r].pc = "begun"
      /\ rating'[r].stamp = noted.clock + 1 /\ rating'[r].since = Len(ledger)
      /\ rating'[r].saw = rating[r].saw /\ rating'[r].row = rating[r].row
      /\ rating'[r].why = rating[r].why
  BY <1>1, <1>2 DEF RatingFields
<1>5. \A i \in DOMAIN ledger : ledger[i].stamp # noted.clock + 1
  BY <1>2, RowTypes DEF AnnotationInv, RowPlace
<1>6. Len(ledger) \in Nat
  BY RowTypes DEF AnnotationInv
<1>7. ForkSeen(r)' <=> ForkSeen(r)
  BY <1>1, <1>3 DEF ForkSeen, Asks
<1>8. RatingPlace(r)'
  BY <1>1, <1>2, <1>3, <1>4, <1>5, <1>6, <1>7 DEF RatingPlace, InWork, Holding
<1>9. \A t \in DOMAIN rating \ {r} : InWork(t) => rating[t].stamp # noted.clock + 1
  BY <1>2 DEF AnnotationInv, AnnotationShape, RatingPlace
<1>10. QED
  BY <1>1, <1>2, <1>3, <1>4, <1>6, <1>8, <1>9, RatingMoved DEF Holding

\* A rating goes on, as far as its stage allows.
LEMMA RatingStaged ==
  ASSUME AnnotationInv, NEW r \in DOMAIN rating, UNCHANGED <<ledger, desk, opinion, slot, noted>>,
         DOMAIN rating' = DOMAIN rating, \A t \in DOMAIN rating \ {r} : rating'[t] = rating[t],
         DOMAIN rating'[r] = RatingFields,
         rating'[r].stamp = rating[r].stamp, rating'[r].since = rating[r].since,
         rating'[r].saw = rating[r].saw \/ rating'[r].saw = opinion,
         rating'[r].row \in Nat, InWork(r)' => InWork(r),
         rating'[r].why = "fork" => rating[r].why = "fork" \/ ForkSeen(r),
         Holding(r)' /\ ~Holding(r) /\ Asks(r).desk # 0 =>
           /\ desk[Asks(r).desk].by = Asks(r).by /\ ~desk[Asks(r).desk].used
           /\ DeskHolders(Asks(r).desk) = {},
         rating'[r].pc \in {"read", "appended"} =>
           rating'[r].saw = opinion \/ rating[r].pc = "read",
         rating'[r].pc = "appended" =>
           /\ RecordFree
           /\ rating'[r].row = 0 => RowsOf(Asks(r).by, Asks(r).human) = {}
           /\ rating'[r].row # 0 =>
                rating'[r].row \in RowsOf(Asks(r).by, Asks(r).human) /\ Current(rating'[r].row)
  PROVE  AnnotationInv'
<1>1. /\ ledger' = ledger /\ desk' = desk /\ opinion' = opinion /\ slot' = slot /\ noted' = noted
  OBVIOUS
<1>2. /\ rating[r].stamp \in Nat /\ rating[r].saw \in Nat /\ rating[r].since \in Nat /\ opinion \in Nat
      /\ noted.clock \in Nat /\ RatingPlace(r)
  BY DEF AnnotationInv, AnnotationShape
<1>3. \A i \in DOMAIN ledger : ledger[i].saw \in Nat /\ ledger[i].saw <= opinion
  BY RowTypes DEF AnnotationInv, RowPlace
<1>4. Asks(r)' = Asks(r) /\ (ForkSeen(r)' <=> ForkSeen(r))
  BY <1>1 DEF ForkSeen, Asks
<1>5. rating'[r].pc \in {"read", "appended"} =>
        /\ rating'[r].saw <= opinion
        /\ \A i \in DOMAIN ledger : i <= rating[r].since => ledger[i].saw <= rating'[r].saw
  BY <1>2, <1>3 DEF RatingPlace
<1>6. RatingPlace(r)'
  <2>1. InWork(r)' =>
          /\ rating'[r].stamp <= noted'.clock /\ rating'[r].since <= Len(ledger')
          /\ \A i \in DOMAIN ledger' : ledger'[i].stamp # rating'[r].stamp
    BY <1>1, <1>2 DEF RatingPlace
  <2>2. Holding(r)' /\ Asks(r).desk # 0 => desk[Asks(r).desk].by = Asks(r).by /\ ~desk[Asks(r).desk].used
    BY <1>2 DEF RatingPlace
  <2>3. rating'[r].why = "fork" => ForkSeen(r)
    BY <1>2 DEF RatingPlace
  <2>4. QED
    BY <1>1, <1>4, <1>5, <2>1, <2>2, <2>3 DEF RatingPlace, RowsOf, Current
<1>7. ASSUME NEW t \in DOMAIN rating \ {r}
      PROVE  /\ InWork(r)' /\ InWork(t) => rating'[r].stamp # rating[t].stamp
             /\ Holding(r)' /\ Holding(t) /\ Asks(r).desk # 0 => Asks(r).desk # Asks(t).desk
             /\ ~(rating'[r].pc = "appended" /\ rating[t].pc = "appended")
  <2>1. InWork(r)' /\ InWork(t) => rating'[r].stamp # rating[t].stamp
    BY DEF AnnotationInv, RatingsApart
  <2>2. Holding(r)' /\ Holding(t) /\ Asks(r).desk # 0 => Asks(r).desk # Asks(t).desk
    BY DEF AnnotationInv, RatingsApart, DeskHolders, Holding
  <2>3. rating'[r].pc = "appended" => rating[t].pc # "appended"
    BY DEF RecordFree, RecordHolders
  <2>4. QED
    BY <2>1, <2>2, <2>3
<1>8. rating'[r].stamp \in Nat /\ rating'[r].saw \in Nat /\ rating'[r].since \in Nat
  BY <1>2
<1>9. QED
  BY <1>1, <1>2, <1>6, <1>7, <1>8, RatingMoved

\* A rating is refused.
LEMMA RatingFailed ==
  ASSUME AnnotationInv, NEW r \in DOMAIN rating, NEW why, Fails(r, why),
         UNCHANGED <<ledger, desk, opinion, slot, noted>>, why = "fork" => ForkSeen(r)
  PROVE  AnnotationInv'
<1>1. DOMAIN rating[r] = RatingFields /\ rating[r].row \in Nat
  BY DEF AnnotationInv, AnnotationShape
<1>2. rating' = [rating EXCEPT ![r].pc = "refused", ![r].why = why]
  BY DEF Fails
<1>3. /\ DOMAIN rating' = DOMAIN rating /\ \A t \in DOMAIN rating \ {r} : rating'[t] = rating[t]
      /\ DOMAIN rating'[r] = RatingFields /\ rating'[r].pc = "refused"
      /\ rating'[r].stamp = rating[r].stamp /\ rating'[r].since = rating[r].since
      /\ rating'[r].saw = rating[r].saw /\ rating'[r].row = rating[r].row
      /\ rating'[r].why = why
  BY <1>1, <1>2 DEF RatingFields
<1>4. QED
  BY <1>1, <1>3, RatingStaged DEF InWork, Holding

\* A rating finds its session and reads the record.
LEMMA RatingGoesOn ==
  ASSUME AnnotationInv, NEW r \in DOMAIN rating, SessionResolved(r) \/ RecordRead(r)
  PROVE  AnnotationInv'
<1>1. /\ DOMAIN rating[r] = RatingFields /\ rating[r].row \in Nat
      /\ ledger' = ledger /\ desk' = desk /\ opinion' = opinion /\ slot' = slot /\ noted' = noted
  BY DEF AnnotationInv, AnnotationShape, SessionResolved, RecordRead
<1>2. UNCHANGED <<ledger, desk, opinion, slot, noted>>
  BY <1>1
<1>3. ASSUME NEW pc \in {"resolved", "repeated"}, rating[r].pc = "begun",
             rating' = [rating EXCEPT ![r].pc = pc],
             pc = "resolved" /\ Asks(r).desk # 0 =>
               /\ desk[Asks(r).desk].by = Asks(r).by /\ ~desk[Asks(r).desk].used
               /\ DeskHolders(Asks(r).desk) = {}
      PROVE  AnnotationInv'
  <2>1. /\ DOMAIN rating' = DOMAIN rating /\ \A t \in DOMAIN rating \ {r} : rating'[t] = rating[t]
        /\ DOMAIN rating'[r] = RatingFields /\ rating'[r].pc = pc
        /\ rating'[r].stamp = rating[r].stamp /\ rating'[r].since = rating[r].since
        /\ rating'[r].saw = rating[r].saw /\ rating'[r].row = rating[r].row
        /\ rating'[r].why = rating[r].why
    BY <1>1, <1>3 DEF RatingFields
  <2>2. QED
    BY <1>1, <1>2, <1>3, <2>1, RatingStaged DEF InWork, Holding
<1>4. CASE SessionResolved(r)
  <2> DEFINE d == Asks(r).desk
  <2>1. rating[r].pc = "begun" /\ (d # 0 => DeskHolders(d) = {})
    BY <1>4 DEF SessionResolved
  <2>2. CASE d = 0
    BY <1>3, <1>4, <2>1, <2>2 DEF SessionResolved
  <2>3. CASE d # 0 /\ desk[d].by # Asks(r).by
    <3>1. Fails(r, "not yours")
      BY <1>4, <2>3 DEF SessionResolved
    <3>2. QED
      BY <1>2, <3>1, RatingFailed
  <2>4. CASE d # 0 /\ desk[d].by = Asks(r).by /\ desk[d].used
    <3>1. rating' = [rating EXCEPT ![r].pc = "repeated"]
      BY <1>4, <2>4 DEF SessionResolved
    <3>2. QED
      BY <1>3, <2>1, <3>1
  <2>5. CASE d # 0 /\ desk[d].by = Asks(r).by /\ ~desk[d].used
    <3>1. rating' = [rating EXCEPT ![r].pc = "resolved"]
      BY <1>4, <2>5 DEF SessionResolved
    <3>2. QED
      BY <1>3, <2>1, <2>5, <3>1
  <2>6. QED
    BY <2>2, <2>3, <2>4, <2>5
<1>5. CASE RecordRead(r)
  <2>1. rating[r].pc = "resolved" /\ rating' = [rating EXCEPT ![r].pc = "read", ![r].saw = opinion]
    BY <1>5 DEF RecordRead
  <2>2. /\ DOMAIN rating' = DOMAIN rating /\ \A t \in DOMAIN rating \ {r} : rating'[t] = rating[t]
        /\ DOMAIN rating'[r] = RatingFields /\ rating'[r].pc = "read"
        /\ rating'[r].stamp = rating[r].stamp /\ rating'[r].since = rating[r].since
        /\ rating'[r].saw = opinion /\ rating'[r].row = rating[r].row
        /\ rating'[r].why = rating[r].why
    BY <1>1, <2>1 DEF RatingFields
  <2>3. QED
    BY <1>1, <1>2, <2>1, <2>2, RatingStaged DEF InWork, Holding
<1>6. QED
  BY <1>4, <1>5

\* The row is appended; where another of the annotator's supersedes it already,
\* the two were committed in another order than they began.
LEMMA RatingAppends ==
  ASSUME AnnotationInv, NEW r \in DOMAIN rating, RowAppended(r)
  PROVE  AnnotationInv'
<1> DEFINE last == Latest(Asks(r).by, Asks(r).human)
           mine == RowsOf(Asks(r).by, Asks(r).human)
<1>1. /\ DOMAIN rating[r] = RatingFields /\ rating[r].row \in Nat
      /\ ledger' = ledger /\ desk' = desk /\ opinion' = opinion /\ slot' = slot /\ noted' = noted
      /\ rating[r].pc = "read" /\ RecordFree
  BY DEF AnnotationInv, AnnotationShape, RowAppended
<1>2. UNCHANGED <<ledger, desk, opinion, slot, noted>>
  BY <1>1
<1>3. \/ last = 0 /\ mine = {}
      \/ last \in mine /\ last # 0 /\ \A j \in mine : ledger[j].stamp <= ledger[last].stamp
  <2>1. CASE mine = {}
    BY <2>1 DEF Latest
  <2>2. CASE mine # {}
    <3>1. last \in mine /\ \A j \in mine : ledger[j].stamp <= ledger[last].stamp
      BY <2>2, LatestIsMine
    <3>2. 0 \notin mine
      BY RowTypes DEF AnnotationInv, RowsOf
    <3>3. QED
      BY <3>1, <3>2
  <2>3. QED
    BY <2>1, <2>2
<1>4. last \in Nat
  BY <1>3, RowTypes DEF AnnotationInv, RowsOf
<1>5. CASE last # 0 /\ last \in Superseded
  <2>1. PICK j \in DOMAIN ledger : ledger[j].supersedes = last
    BY <1>5 DEF Superseded
  <2>2. /\ last \in DOMAIN ledger /\ last < j /\ SameRater(last, j)
    BY <1>5, <2>1 DEF AnnotationInv, RowPlace
  <2>3. j \in mine /\ ledger[last].by = Asks(r).by /\ ledger[j].by = Asks(r).by
    BY <1>3, <1>5, <2>2 DEF RowsOf, SameRater
  <2>4. ledger[last].stamp > ledger[j].stamp
    <3>1. ledger[j].stamp <= ledger[last].stamp
      BY <1>3, <1>5, <2>3
    <3>2. last # j /\ ledger[j].stamp \in Nat /\ ledger[last].stamp \in Nat
      BY <2>1, <2>2, RowTypes DEF AnnotationInv
    <3>3. ledger[j].stamp # ledger[last].stamp
      BY <2>1, <2>2, <3>2 DEF AnnotationInv, RowsApart
    <3>4. QED
      BY <3>1, <3>2, <3>3
  <2>5. ForkSeen(r)
    BY <2>1, <2>2, <2>3, <2>4 DEF ForkSeen
  <2>6. Fails(r, "fork")
    BY <1>5 DEF RowAppended
  <2>7. QED
    BY <1>2, <2>5, <2>6, RatingFailed
<1>6. CASE ~(last # 0 /\ last \in Superseded)
  <2>1. rating' = [rating EXCEPT ![r].pc = "appended", ![r].row = last]
    BY <1>6 DEF RowAppended
  <2>2. last # 0 => last \in mine /\ Current(last)
    BY <1>3, <1>6 DEF Superseded, Current
  <2>3. /\ DOMAIN rating' = DOMAIN rating /\ \A t \in DOMAIN rating \ {r} : rating'[t] = rating[t]
        /\ DOMAIN rating'[r] = RatingFields /\ rating'[r].pc = "appended"
        /\ rating'[r].stamp = rating[r].stamp /\ rating'[r].since = rating[r].since
        /\ rating'[r].saw = rating[r].saw /\ rating'[r].row = last
        /\ rating'[r].why = rating[r].why
    BY <1>1, <2>1 DEF RatingFields
  <2>4. last = 0 => mine = {}
    BY <1>3
  <2> HIDE DEF last
  <2>5. QED
    BY <1>1, <1>2, <1>4, <2>2, <2>3, <2>4, RatingStaged DEF InWork, Holding
<1>7. QED
  BY <1>5, <1>6

\* The row and its event are committed: the chain of the annotator grows by one, the
\* session is used up, and whatever others know stays so.
LEMMA RatingIsStored ==
  ASSUME AnnotationInv, NEW r \in DOMAIN rating, RatingStored(r)
  PROVE  AnnotationInv'
<1> DEFINE d == Asks(r).desk
<1>0. PICK n : n = Len(ledger) + 1
  OBVIOUS
<1>1. /\ DOMAIN rating[r] = RatingFields /\ rating[r].pc = "appended" /\ RatingPlace(r)
      /\ rating[r].stamp \in Nat /\ rating[r].saw \in Nat
      /\ rating[r].since \in Nat /\ rating[r].row \in Nat
      /\ opinion' = opinion /\ noted' = noted
      /\ rating' = [rating EXCEPT ![r].pc = "stored"]
  BY DEF AnnotationInv, AnnotationShape, RatingStored
<1>2. /\ Asks(r).human \in BOOLEAN /\ d \in {0} \cup DOMAIN desk
      /\ \A k \in DOMAIN desk : k \in Nat \ {0}
      /\ Asks(r).by \in {noted.setup.ratings[t].by : t \in DOMAIN noted.setup.ratings}
  BY AnnotationAssumption DEF AnnotationInv, AnnotationShape, Asks
<1>3. PICK b \in BOOLEAN : b = (d # 0 /\ desk[d].blind)
  OBVIOUS
<1>4. PICK row : row = [by |-> Asks(r).by, human |-> Asks(r).human, stamp |-> rating[r].stamp,
                        blind |-> b, desk |-> d, saw |-> rating[r].saw, since |-> rating[r].since,
                        supersedes |-> rating[r].row]
  OBVIOUS
<1>5. ledger' = Append(ledger, row)
  BY <1>3, <1>4 DEF RatingStored
<1>6. /\ row.by = Asks(r).by /\ row.human = Asks(r).human /\ row.stamp = rating[r].stamp
      /\ row.blind = b /\ row.desk = d /\ row.saw = rating[r].saw /\ row.since = rating[r].since
      /\ row.supersedes = rating[r].row
  BY <1>4
<1>7. row \in LedgerRows
  BY <1>1, <1>2, <1>4 DEF LedgerRows
<1>8. /\ Len(ledger) \in Nat /\ DOMAIN ledger = 1 .. Len(ledger)
      /\ \A i \in DOMAIN ledger :
           /\ ledger[i].stamp \in Nat /\ ledger[i].desk \in Nat /\ ledger[i].saw \in Nat
           /\ ledger[i].since \in Nat /\ ledger[i].supersedes \in Nat
  BY RowTypes DEF AnnotationInv
<1>9. /\ ledger' \in Seq(LedgerRows) /\ Len(ledger') = n /\ DOMAIN ledger' = 1 .. n
      /\ ledger'[n] = row /\ \A i \in DOMAIN ledger : ledger'[i] = ledger[i]
  BY <1>0, <1>5, <1>7, <1>8 DEF AnnotationInv, AnnotationShape
<1>10. /\ n \notin DOMAIN ledger /\ \A i \in DOMAIN ledger' : i \in DOMAIN ledger \/ i = n
       /\ n \in DOMAIN ledger' /\ \A i \in DOMAIN ledger : i \in DOMAIN ledger' /\ i < n /\ i \in Nat
       /\ n \in Nat /\ n # 0
  BY <1>0, <1>8, <1>9
<1>11. /\ DOMAIN rating' = DOMAIN rating /\ \A t \in DOMAIN rating \ {r} : rating'[t] = rating[t]
       /\ DOMAIN rating'[r] = RatingFields /\ rating'[r].pc = "stored"
       /\ rating'[r].stamp = rating[r].stamp /\ rating'[r].since = rating[r].since
       /\ rating'[r].saw = rating[r].saw /\ rating'[r].row = rating[r].row
       /\ rating'[r].why = rating[r].why
  BY <1>1 DEF RatingFields
<1>12. /\ DOMAIN desk' = DOMAIN desk
       /\ \A k \in DOMAIN desk :
            /\ DOMAIN desk'[k] = DeskFields /\ desk'[k].by = desk[k].by
            /\ desk'[k].blind = desk[k].blind /\ desk'[k].served = desk[k].served
            /\ k # d => desk'[k].used = desk[k].used
            /\ k = d => desk'[k].used
  <2>1. \A k \in DOMAIN desk : DOMAIN desk[k] = DeskFields
    BY DEF AnnotationInv, AnnotationShape
  <2>2. CASE d = 0
    <3>1. desk' = desk
      BY <2>2 DEF RatingStored
    <3>2. QED
      BY <1>2, <2>1, <2>2, <3>1
  <2>3. CASE d # 0
    <3>1. desk' = [desk EXCEPT ![d].used = TRUE]
      BY <2>3 DEF RatingStored
    <3>2. QED
      BY <1>2, <2>1, <2>3, <3>1 DEF DeskFields
  <2>4. QED
    BY <2>2, <2>3
<1>13. AnnotationShape'
  <2>1. LedgerRows' = LedgerRows
    BY <1>1 DEF LedgerRows
  <2>2. QED
    BY <1>1, <1>9, <1>11, <1>12, <2>1 DEF AnnotationInv, AnnotationShape
<1>14. \A i \in DOMAIN ledger : Current(i)' <=> (Current(i) /\ i # rating[r].row)
  BY <1>6, <1>9, <1>10 DEF Current
<1>15. rating[r].row # 0 =>
         /\ rating[r].row \in DOMAIN ledger /\ Current(rating[r].row)
         /\ ledger[rating[r].row].by = row.by /\ ledger[rating[r].row].human = row.human
  BY <1>1, <1>6 DEF RatingPlace, RowsOf
<1>16. Current(n)'
  <2>1. SUFFICES ASSUME NEW j \in DOMAIN ledger'
                 PROVE  ledger'[j].supersedes # n
    BY DEF Current
  <2>2. CASE j = n
    BY <1>6, <1>9, <1>10, <1>15, <2>2
  <2>3. CASE j \in DOMAIN ledger
    <3>1. RowPlace(j) /\ ledger'[j] = ledger[j]
      BY <1>9, <2>3 DEF AnnotationInv
    <3>2. QED
      BY <1>10, <3>1 DEF RowPlace
  <2>4. QED
    BY <1>10, <2>2, <2>3
<1>17. ASSUME NEW i \in DOMAIN ledger
       PROVE  RowPlace(i)'
  <2>1. RowPlace(i) /\ ledger'[i] = ledger[i]
    BY <1>9 DEF AnnotationInv
  <2>2. \E j \in DOMAIN ledger' : SameRater(j, i)' /\ Current(j)'
    <3>1. PICK j \in DOMAIN ledger : SameRater(j, i) /\ Current(j)
      BY <2>1 DEF RowPlace
    <3>2. CASE j # rating[r].row
      <4>1. Current(j)' /\ SameRater(j, i)'
        BY <1>9, <1>14, <3>1, <3>2 DEF SameRater
      <4>2. QED
        BY <1>10, <4>1
    <3>3. CASE j = rating[r].row
      <4>1. SameRater(n, i)'
        BY <1>9, <1>10, <1>15, <3>1, <3>3 DEF SameRater
      <4>2. QED
        BY <1>10, <1>16, <4>1
    <3>4. QED
      BY <3>2, <3>3
  <2>3. ledger[i].supersedes # 0 =>
          /\ ledger[i].supersedes \in DOMAIN ledger'
          /\ ledger'[ledger[i].supersedes] = ledger[ledger[i].supersedes]
          /\ SameRater(ledger[i].supersedes, i)'
    BY <1>9, <1>10, <2>1 DEF RowPlace, SameRater
  <2>4. QED
    BY <1>1, <1>12, <2>1, <2>2, <2>3 DEF RowPlace
<1>18. RowPlace(n)'
  <2>1. row.supersedes # 0 =>
          /\ row.supersedes \in DOMAIN ledger' /\ row.supersedes < n
          /\ SameRater(row.supersedes, n)'
          /\ row.supersedes <= row.since => ledger'[row.supersedes].saw <= row.saw
    <3>1. SUFFICES ASSUME row.supersedes # 0
                   PROVE  /\ row.supersedes \in DOMAIN ledger' /\ row.supersedes < n
                          /\ SameRater(row.supersedes, n)'
                          /\ row.supersedes <= row.since => ledger'[row.supersedes].saw <= row.saw
      OBVIOUS
    <3>2. row.supersedes \in DOMAIN ledger
      BY <1>6, <1>15, <3>1
    <3>3. SameRater(row.supersedes, n)'
      BY <1>6, <1>9, <1>15, <3>1 DEF SameRater
    <3>4. row.supersedes <= row.since => ledger[row.supersedes].saw <= row.saw
      BY <1>1, <1>6, <3>2 DEF RatingPlace
    <3>5. QED
      BY <1>9, <1>10, <3>2, <3>3, <3>4
  <2>2. row.stamp <= noted.clock /\ row.saw <= opinion
    BY <1>1, <1>6 DEF RatingPlace, InWork
  <2>3. row.desk = 0 => ~row.blind
    BY <1>3, <1>6
  <2>4. row.desk # 0 => /\ row.desk \in DOMAIN desk' /\ desk'[row.desk].used
                        /\ desk'[row.desk].by = row.by /\ (row.blind => desk'[row.desk].blind)
    BY <1>1, <1>2, <1>3, <1>6, <1>12 DEF RatingPlace, Holding
  <2>5. SameRater(n, n)'
    BY DEF SameRater
  <2>6. QED
    BY <1>1, <1>9, <1>10, <1>16, <2>1, <2>2, <2>3, <2>4, <2>5 DEF RowPlace
<1>19. ASSUME NEW i \in DOMAIN ledger
       PROVE  /\ ledger'[i].stamp # row.stamp
              /\ d # 0 => ledger'[i].desk # d
              /\ SameRater(i, n)' => ~Current(i)'
  <2>1. ledger'[i].stamp # row.stamp
    BY <1>1, <1>6, <1>9 DEF RatingPlace, InWork
  <2>2. d # 0 => ledger'[i].desk # d
    BY <1>1, <1>9 DEF RatingPlace, Holding, AnnotationInv, RowPlace
  <2>3. SameRater(i, n)' => ~Current(i)'
    <3>1. SUFFICES ASSUME SameRater(i, n)', Current(i)'
                   PROVE  FALSE
      OBVIOUS
    <3>2. i \in RowsOf(Asks(r).by, Asks(r).human) /\ Current(i) /\ i # rating[r].row
      BY <1>6, <1>9, <1>14, <3>1 DEF RowsOf, SameRater
    <3>3. rating[r].row # 0
      BY <1>1, <3>2 DEF RatingPlace
    <3>4. SameRater(i, rating[r].row) /\ Current(rating[r].row) /\ rating[r].row \in DOMAIN ledger
      BY <1>6, <1>15, <3>2, <3>3 DEF RowsOf, SameRater
    <3>5. QED
      BY <3>2, <3>4 DEF AnnotationInv, RowsApart
  <2>4. QED
    BY <2>1, <2>2, <2>3
<1>20. RowsApart'
  <2>1. SUFFICES ASSUME NEW i \in DOMAIN ledger', NEW j \in DOMAIN ledger', i # j
                 PROVE  /\ ledger'[i].stamp # ledger'[j].stamp
                        /\ ledger'[i].desk # 0 => ledger'[i].desk # ledger'[j].desk
                        /\ SameRater(i, j)' => ~Current(i)' \/ ~Current(j)'
    BY DEF RowsApart
  <2>2. CASE i = n
    <3>1. j \in DOMAIN ledger /\ ledger'[i].desk = d /\ ledger'[i].stamp = row.stamp
      BY <1>6, <1>9, <1>10, <2>1, <2>2
    <3>2. SameRater(i, j)' => SameRater(j, n)'
      BY <2>2 DEF SameRater
    <3>3. QED
      BY <1>19, <3>1, <3>2
  <2>3. CASE j = n
    <3>1. i \in DOMAIN ledger /\ ledger'[j].desk = d /\ ledger'[j].stamp = row.stamp
      BY <1>6, <1>9, <1>10, <2>1, <2>3
    <3>2. QED
      BY <1>19, <2>3, <3>1
  <2>4. CASE i # n /\ j # n
    <3>1. i \in DOMAIN ledger /\ j \in DOMAIN ledger
      BY <1>10, <2>4
    <3>2. /\ ledger[i].stamp # ledger[j].stamp
          /\ ledger[i].desk # 0 => ledger[i].desk # ledger[j].desk
          /\ SameRater(i, j) => ~Current(i) \/ ~Current(j)
      BY <2>1, <3>1 DEF AnnotationInv, RowsApart
    <3>3. SameRater(i, j)' => SameRater(i, j)
      BY <1>9, <3>1 DEF SameRater
    <3>4. QED
      BY <1>9, <1>14, <3>1, <3>2, <3>3
  <2>5. QED
    BY <2>2, <2>3, <2>4
<1>21. \A k \in DOMAIN desk : DeskPlace(k)'
  BY <1>12 DEF AnnotationInv, DeskPlace
<1>22. ASSUME NEW t \in DOMAIN rating
       PROVE  RatingPlace(t)'
  <2>1. ForkSeen(t) => ForkSeen(t)'
    <3>1. SUFFICES ASSUME NEW i \in DOMAIN ledger, NEW j \in DOMAIN ledger,
                          i < j, ledger[i].stamp > ledger[j].stamp,
                          ledger[i].by = Asks(t).by, ledger[j].by = Asks(t).by
                   PROVE  ForkSeen(t)'
      BY DEF ForkSeen
    <3>2. Asks(t)' = Asks(t) /\ ledger'[i] = ledger[i] /\ ledger'[j] = ledger[j]
      BY <1>1, <1>9 DEF Asks
    <3>3. QED
      BY <1>10, <3>1, <3>2 DEF ForkSeen
  <2>2. RatingPlace(t)
    BY DEF AnnotationInv
  <2>3. CASE t = r
    BY <1>11, <2>1, <2>2, <2>3 DEF RatingPlace, InWork, Holding
  <2>4. CASE t # r
    <3>1. rating'[t] = rating[t] /\ rating[t].pc # "appended" /\ Asks(t)' = Asks(t)
      BY <1>1, <1>11, <2>4 DEF AnnotationInv, RatingsApart, Asks
    <3>2. rating[t].since \in Nat /\ (Asks(t).desk # 0 => Asks(t).desk \in DOMAIN desk)
      BY AnnotationAssumption DEF Asks, AnnotationInv, AnnotationShape
    <3>3. InWork(t) =>
            /\ rating[t].stamp <= noted.clock /\ rating[t].since <= n /\ rating[t].since < n
            /\ \A i \in DOMAIN ledger' : ledger'[i].stamp # rating[t].stamp
      <4>1. SUFFICES ASSUME InWork(t)
                     PROVE  /\ rating[t].stamp <= noted.clock /\ rating[t].since <= n
                            /\ rating[t].since < n
                            /\ \A i \in DOMAIN ledger' : ledger'[i].stamp # rating[t].stamp
        OBVIOUS
      <4>2. rating[t].stamp # row.stamp
        BY <1>1, <1>6, <2>4, <4>1 DEF AnnotationInv, RatingsApart, InWork
      <4>3. rating[t].since <= Len(ledger) /\ rating[t].stamp <= noted.clock
        BY <2>2, <4>1 DEF RatingPlace
      <4>4. rating[t].since <= n /\ rating[t].since < n
        BY <1>0, <1>8, <3>2, <4>3
      <4>5. \A i \in DOMAIN ledger' : ledger'[i].stamp # rating[t].stamp
        BY <1>9, <1>10, <2>2, <4>1, <4>2 DEF RatingPlace
      <4>6. QED
        BY <4>3, <4>4, <4>5
    <3>4. Holding(t) /\ Asks(t).desk # 0 =>
            desk'[Asks(t).desk].by = Asks(t).by /\ ~desk'[Asks(t).desk].used
      BY <1>1, <1>12, <2>2, <2>4, <3>2 DEF RatingPlace, AnnotationInv, RatingsApart, Holding
    <3>5. rating[t].pc = "read" =>
            rating[t].saw <= opinion
            /\ \A i \in DOMAIN ledger' : i <= rating[t].since => ledger'[i].saw <= rating[t].saw
      BY <1>9, <1>10, <2>2, <3>2, <3>3 DEF RatingPlace, InWork
    <3>6. QED
      BY <1>1, <1>9, <2>1, <2>2, <3>1, <3>3, <3>4, <3>5 DEF RatingPlace, InWork, Holding
  <2>5. QED
    BY <2>3, <2>4
<1>23. RatingsApart'
  BY <1>1, <1>11 DEF AnnotationInv, RatingsApart, InWork, Holding, Asks
<1>24. SlotPlace'
  <2>1. CASE Asks(r).human
    <3>1. slot' = n
      BY <1>0, <2>1 DEF RatingStored
    <3>2. \A i \in DOMAIN ledger' : i <= n
      BY <1>10
    <3>3. QED
      BY <1>6, <1>9, <1>10, <2>1, <3>1, <3>2 DEF SlotPlace
  <2>2. CASE ~Asks(r).human
    <3>1. slot' = slot
      BY <2>2 DEF RatingStored
    <3>2. ~ledger'[n].human
      BY <1>6, <1>9, <2>2
    <3>3. QED
      BY <1>9, <1>10, <3>1, <3>2 DEF SlotPlace, AnnotationInv
  <2>3. QED
    BY <2>1, <2>2
<1>25. QED
  BY <1>10, <1>11, <1>12, <1>13, <1>17, <1>18, <1>20, <1>21, <1>22, <1>23, <1>24 DEF AnnotationInv

\* Sessions, judges and the approval.
LEMMA AnnotationBeside ==
  ASSUME AnnotationInv,
         \/ \E d \in DOMAIN desk : SessionStarts(d)
         \/ JudgeRevises \/ ApprovalLocks \/ ApprovalStores \/ DeadlockBroken
  PROVE  AnnotationInv'
<1>1. AnnotationShape /\ noted.clock \in Nat /\ opinion \in Nat
      /\ DOMAIN noted = {"setup", "clock", "rejudged", "approve"}
  BY DEF AnnotationInv, AnnotationShape
<1>2. ASSUME NEW d \in DOMAIN desk, SessionStarts(d)
      PROVE  AnnotationInv'
  <2>1. /\ desk' = [desk EXCEPT ![d].open = TRUE, ![d].served = Bundle(desk[d].by, desk[d].blind)]
        /\ ledger' = ledger /\ rating' = rating /\ opinion' = opinion /\ slot' = slot /\ noted' = noted
    BY <1>2 DEF SessionStarts
  <2>2. /\ DOMAIN desk' = DOMAIN desk
        /\ \A k \in DOMAIN desk :
             /\ DOMAIN desk'[k] = DeskFields /\ desk'[k].by = desk[k].by
             /\ desk'[k].blind = desk[k].blind /\ desk'[k].used = desk[k].used
             /\ k # d => desk'[k].served = desk[k].served
             /\ k = d => desk'[k].served = Bundle(desk[d].by, desk[d].blind)
    BY <1>1, <2>1 DEF AnnotationShape, DeskFields
  <2>3. desk[d].by # "judge"
    BY AnnotationAssumption DEF AnnotationInv, AnnotationShape
  <2>4. /\ Bundle(desk[d].by, desk[d].blind) \subseteq {"judge", desk[d].by}
        /\ desk[d].blind => "judge" \notin Bundle(desk[d].by, desk[d].blind)
    BY <2>3 DEF Bundle
  <2>5. \A k \in DOMAIN desk : DeskPlace(k)'
    BY <2>2, <2>4 DEF AnnotationInv, DeskPlace
  <2>6. AnnotationShape'
    <3>1. LedgerRows' = LedgerRows
      BY <2>1 DEF LedgerRows
    <3>2. QED
      BY <1>1, <2>1, <2>2, <3>1 DEF AnnotationShape
  <2>7. QED
    BY <1>1, <2>1, <2>2, <2>5, <2>6, AnnotationQuiet
<1>3. ASSUME ledger' = ledger, desk' = desk, rating' = rating, slot' = slot,
             DOMAIN noted' = DOMAIN noted, noted'.setup = noted.setup, noted'.clock = noted.clock,
             opinion' \in {opinion, opinion + 1}
      PROVE  AnnotationInv'
  <2>1. LedgerRows' = LedgerRows
    BY <1>3 DEF LedgerRows
  <2>2. opinion' \in Nat
    BY <1>1, <1>3
  <2>3. AnnotationShape'
    BY <1>1, <1>3, <2>1, <2>2 DEF AnnotationShape
  <2>4. \A k \in DOMAIN desk : DeskPlace(k)'
    BY <1>3 DEF AnnotationInv, DeskPlace
  <2>5. QED
    BY <1>3, <2>3, <2>4, AnnotationQuiet
<1>4. CASE JudgeRevises
  <2>1. /\ noted' = [noted EXCEPT !.rejudged = noted.rejudged - 1] /\ opinion' = opinion + 1
        /\ ledger' = ledger /\ desk' = desk /\ rating' = rating /\ slot' = slot
    BY <1>4 DEF JudgeRevises
  <2>2. DOMAIN noted' = DOMAIN noted /\ noted'.setup = noted.setup /\ noted'.clock = noted.clock
    BY <1>1, <2>1
  <2>3. QED
    BY <1>3, <2>1, <2>2
<1>5. CASE ApprovalLocks \/ ApprovalStores
  BY <1>3, <1>5 DEF ApprovalLocks, ApprovalStores
<1>6. CASE DeadlockBroken
  <2>1. UNCHANGED <<ledger, desk, opinion, slot, noted>>
    BY <1>6 DEF DeadlockBroken
  <2>2. CASE rating' = rating
    BY <1>3, <2>1, <2>2
  <2>3. CASE \E r \in RecordHolders : Fails(r, "deadlock")
    <3>1. PICK r \in DOMAIN rating : Fails(r, "deadlock")
      BY <2>3 DEF RecordHolders
    <3>2. QED
      BY <2>1, <3>1, RatingFailed
  <2>4. QED
    BY <1>6, <2>2, <2>3 DEF DeadlockBroken
<1>7. QED
  BY <1>2, <1>4, <1>5, <1>6

\* What AnnotationsSound says of the ledger of ratings (feedback.py) holds for any
\* number of annotators, sessions, ratings and judges: the ratings of an annotator
\* form one chain, a session vouches for one, the record shows the last human one,
\* a later rating saw no older opinion, and a fork is refused only for its cause.
THEOREM AnnotationsAreSound == AnnotationsSpec => []AnnotationsSound
<1>1. AnnotationsInit => AnnotationInv
  BY AnnotationInvInit
<1>2. AnnotationInv /\ [AnnotationsNext]_annotationVars => AnnotationInv'
  <2>1. SUFFICES ASSUME AnnotationInv, [AnnotationsNext]_annotationVars
                 PROVE  AnnotationInv'
    OBVIOUS
  <2>2. CASE UNCHANGED annotationVars
    <3>1. /\ ledger' = ledger /\ desk' = desk /\ rating' = rating /\ opinion' = opinion
          /\ slot' = slot /\ noted' = noted
      BY <2>2 DEF annotationVars
    <3>2. LedgerRows' = LedgerRows
      BY <3>1 DEF LedgerRows
    <3>3. AnnotationShape' /\ \A k \in DOMAIN desk : DeskPlace(k)'
      BY <2>1, <3>1, <3>2 DEF AnnotationInv, AnnotationShape, DeskPlace
    <3>4. QED
      BY <2>1, <3>1, <3>3, AnnotationQuiet
  <2>3. CASE AnnotationsNext
    BY <2>1, <2>3, AnnotationBeside, RatingBegun, RatingGoesOn, RatingAppends, RatingIsStored
       DEF AnnotationsNext, RatingStep
  <2>4. QED
    BY <2>1, <2>2, <2>3
<1>3. AnnotationInv => AnnotationsSound
  <2>1. SUFFICES ASSUME AnnotationInv
                 PROVE  AnnotationsSound
    OBVIOUS
  <2>2. ChainPerAnnotator
    <3>1. ASSUME NEW k \in DOMAIN ledger
          PROVE  Cardinality(RowsOf(ledger[k].by, ledger[k].human) \ Superseded) = 1
      <4>1. PICK j \in DOMAIN ledger : SameRater(j, k) /\ Current(j)
        BY <2>1 DEF AnnotationInv, RowPlace
      <4>2. RowsOf(ledger[k].by, ledger[k].human) \ Superseded = {j}
        <5>1. j \in RowsOf(ledger[k].by, ledger[k].human) \ Superseded
          BY <4>1 DEF RowsOf, SameRater, Superseded, Current
        <5>2. ASSUME NEW i \in RowsOf(ledger[k].by, ledger[k].human) \ Superseded
              PROVE  i = j
          <6>1. i \in DOMAIN ledger /\ SameRater(i, j) /\ Current(i)
            BY <4>1, <5>2 DEF RowsOf, SameRater, Superseded, Current
          <6>2. QED
            BY <2>1, <4>1, <6>1 DEF AnnotationInv, RowsApart
        <5>3. QED
          BY <5>1, <5>2
      <4>3. QED
        BY <4>2, FS_Singleton
    <3>2. \A a \in Annotators : Cardinality(RowsOf(a[1], a[2]) \ Superseded) = 1
      BY <3>1 DEF Annotators
    <3>3. \A i \in DOMAIN ledger :
            LET up == ledger[i].supersedes IN
            up # 0 => up < i /\ ledger[up].by = ledger[i].by /\ ledger[up].human = ledger[i].human
      BY <2>1 DEF AnnotationInv, RowPlace, SameRater
    <3>4. QED
      BY <3>2, <3>3 DEF ChainPerAnnotator
  <2>3. SessionVouches
    <3>1. SUFFICES ASSUME NEW i \in DOMAIN ledger, ledger[i].desk # 0
                   PROVE  /\ \A j \in DOMAIN ledger : ledger[j].desk = ledger[i].desk => j = i
                          /\ desk[ledger[i].desk].by = ledger[i].by
                          /\ desk[ledger[i].desk].served \subseteq {"judge", ledger[i].by}
                          /\ ledger[i].blind => "judge" \notin desk[ledger[i].desk].served
      BY DEF SessionVouches
    <3>2. \A j \in DOMAIN ledger : ledger[j].desk = ledger[i].desk => j = i
      BY <2>1, <3>1 DEF AnnotationInv, RowsApart
    <3>3. /\ ledger[i].desk \in DOMAIN desk /\ desk[ledger[i].desk].by = ledger[i].by
          /\ ledger[i].blind => desk[ledger[i].desk].blind
      BY <2>1, <3>1 DEF AnnotationInv, RowPlace
    <3>4. DeskPlace(ledger[i].desk)
      BY <2>1, <3>3 DEF AnnotationInv
    <3>5. QED
      BY <3>2, <3>3, <3>4 DEF DeskPlace
  <2>4. SlotIsLastHuman
    <3> DEFINE humans == {i \in DOMAIN ledger : ledger[i].human}
    <3>1. CASE slot = 0
      <4>1. humans = {}
        BY <2>1, <3>1 DEF AnnotationInv, SlotPlace
      <4>2. QED
        BY <3>1, <4>1 DEF SlotIsLastHuman
    <3>2. CASE slot # 0
      <4>1. slot \in humans /\ \A i \in humans : slot >= i
        <5>1. humans \subseteq Nat /\ slot \in humans /\ \A i \in humans : i <= slot
          BY <2>1, <3>2, RowTypes DEF AnnotationInv, SlotPlace
        <5>2. QED
          BY <5>1
      <4>2. \A i \in humans : (\A j \in humans : i >= j) => i = slot
        <5>1. \A i \in humans : i \in Nat
          BY <2>1, RowTypes DEF AnnotationInv
        <5>2. QED
          BY <4>1, <5>1
      <4>3. Max(humans) = slot
        BY <4>1, <4>2 DEF Max
      <4>4. QED
        BY <4>1, <4>3 DEF SlotIsLastHuman
    <3>3. QED
      BY <3>1, <3>2
  <2>5. ObservationsAdvance
    BY <2>1 DEF AnnotationInv, RowPlace, ObservationsAdvance
  <2>6. RefusedForCause
    BY <2>1 DEF AnnotationInv, RatingPlace, ForkSeen, RefusedForCause
  <2>7. QED
    BY <2>2, <2>3, <2>4, <2>5, <2>6 DEF AnnotationsSound
<1>4. QED
  BY <1>1, <1>2, <1>3, PTL DEF AnnotationsSpec

-----------------------------------------------------------------------------
(* Evaluation: the invariant                                               *)

SessionFields ==
  {"step", "task", "seen", "looked", "rec", "built", "base", "own", "judged", "cost"}
EvPastFields ==
  {"setup", "ids", "versions", "kept", "paid", "stored", "lost", "faults", "retries", "prunes"}

\* The shapes of what is stored and what a session holds.
EvalShape ==
  /\ DOMAIN evTask = {"attempt", "ended"}
  /\ DOMAIN evRec = {"id", "about", "slots"} /\ evRec.id \in Nat /\ DOMAIN evRec.slots = Kinds
  /\ DOMAIN evPast = EvPastFields /\ evPast.setup \in EvalSetups
  /\ evPast.ids \in Nat /\ evPast.versions \in Nat /\ evPast.paid \in Nat /\ evPast.stored \in Nat
  /\ DOMAIN evSess = DOMAIN evPast.setup.who
  /\ \A i \in DOMAIN evSess :
       /\ DOMAIN evSess[i] = SessionFields /\ evSess[i].step \in 0 .. Closed(i)
       /\ evSess[i].task.anchor \in Nat /\ evSess[i].seen.anchor \in Nat
       /\ evSess[i].judged.anchor \in Nat /\ evSess[i].cost \in Nat

SessionOpen(i) == evSess[i].step \in DOMAIN StepsOf[KindOf(i)]

\* The record describes the present attempt, and its columns fit.
RecordPlace ==
  /\ evRec.id <= evPast.ids /\ 0 \in evPast.kept
  /\ evRec.id = 0 => \A k \in Kinds : evRec.slots[k] = Unfilled
  /\ evRec.id # 0 => evRec.about = evTask.attempt
  /\ SlotsFitRecord /\ NoPhantomBasis

LockPlace == evLock # 0 => evLock \in DOMAIN evSess /\ SessionOpen(evLock)

\* A copy of the task that refers to the record was read from its attempt; the one to
\* come is known only to the session that holds the lock.
CopyFits(i, c) ==
  /\ \/ c.anchor <= evPast.ids
     \/ evLock = i /\ c.anchor = evPast.ids + 1 /\ (evSess[i].built # 0 => c.about = evSess[i].built)
  /\ c.anchor = evRec.id /\ evRec.id # 0 => c.about = evRec.about

Judging1 == {"capability", "calibration"}

SessionPlace(i) ==
  LET s == evSess[i] IN
  /\ s.step = 0 => s = Unopened
  /\ SessionOpen(i) =>
       /\ CopyFits(i, s.task) /\ CopyFits(i, s.seen) /\ CopyFits(i, s.judged)
       /\ s.built # 0 => evLock = i /\ s.built = evTask.attempt /\ evRec.id = 0
       /\ s.own # 0 => s.base = s.own /\ s.step > 1 /\ KindOf(i) \in Judging1
       /\ s.own = 0 => s.base \in evPast.kept
       /\ evPast.lost = {} /\ s.rec # 0 => s.rec = evRec.id

\* What a session has paid for and not stored yet.
Owed(i) == IF SessionOpen(i) THEN evSess[i].cost ELSE 0

\* What was paid is stored or owed; the sum of what is owed is the last of a sequence.
Books ==
  evPast.lost = {} =>
    \E f \in [0 .. Len(evPast.setup.who) -> Int] :
      /\ f[0] = 0
      /\ \A i \in 1 .. Len(evPast.setup.who) : f[i] = f[i - 1] + Owed(i)
      /\ evPast.paid = evPast.stored + f[Len(evPast.setup.who)]

EvalInv == EvalShape /\ RecordPlace /\ LockPlace /\ (\A i \in DOMAIN evSess : SessionPlace(i)) /\ Books

-----------------------------------------------------------------------------
(* Evaluation: the steps                                                   *)

\* What the orders of the evaluators have in common.
Ordered(kind, steps) ==
  /\ Len(steps) \in Nat \ {0} /\ DOMAIN steps = 1 .. Len(steps)
  /\ \A n \in DOMAIN steps :
       /\ steps[n] \in {"trace", "call", "record", "judge", "store"}
       /\ steps[n] = "store" <=> n = Len(steps)
       /\ steps[n] = "judge" => n > 1 /\ kind \in Judging1
       /\ steps[n] = "record" /\ kind \in Judging1 => n = 1

\* Every evaluator stores last, and judges only after it has looked for the record.
LEMMA StepsOrdered == \A k \in Kinds : Ordered(k, StepsOf[k])
<1>1. Ordered("quality", QualitySteps)
  BY DEF Ordered, QualitySteps, Judging1
<1>2. Ordered("trajectory", TrajectorySteps)
  BY DEF Ordered, TrajectorySteps, Judging1
<1>3. Ordered("evidence", EvidenceSteps)
  BY DEF Ordered, EvidenceSteps, Judging1
<1>4. Ordered("match", MatchSteps)
  BY DEF Ordered, MatchSteps, Judging1
<1>5. Ordered("failures", FailureSteps)
  BY DEF Ordered, FailureSteps, Judging1
<1>6. Ordered("hallucination", HallucinationSteps)
  BY DEF Ordered, HallucinationSteps, Judging1
<1>7. Ordered("capability", CapabilitySteps)
  BY DEF Ordered, CapabilitySteps, Judging1
<1>8. Ordered("calibration", CalibrationSteps)
  BY DEF Ordered, CalibrationSteps, Judging1
<1>9. QED
  BY <1>1, <1>2, <1>3, <1>4, <1>5, <1>6, <1>7, <1>8 DEF Kinds, StepsOf

\* The step of a session tells whether it is open, and what may come next.
LEMMA SessionSteps ==
  ASSUME EvalShape, NEW i \in DOMAIN evSess
  PROVE  /\ KindOf(i) \in Kinds /\ i \in Nat \ {0}
         /\ Len(evPast.setup.who) \in Nat /\ DOMAIN evSess = 1 .. Len(evPast.setup.who)
         /\ Closed(i) \in Nat \ {0} /\ Closed(i) \notin DOMAIN StepsOf[KindOf(i)]
         /\ 0 \notin DOMAIN StepsOf[KindOf(i)] /\ 1 \in DOMAIN StepsOf[KindOf(i)]
         /\ StepOf(i) \in {"unopened", "closed", "trace", "call", "record", "judge", "store"}
         /\ SessionOpen(i) <=> StepOf(i) \notin {"unopened", "closed"}
         /\ StepOf(i) = "unopened" <=> evSess[i].step = 0
         /\ StepOf(i) \in {"trace", "call", "record", "judge"} =>
              evSess[i].step + 1 \in DOMAIN StepsOf[KindOf(i)]
         /\ StepOf(i) = "store" => evSess[i].step + 1 = Closed(i)
         /\ StepOf(i) = "judge" => evSess[i].step > 1 /\ KindOf(i) \in Judging1
         /\ StepOf(i) = "record" /\ KindOf(i) \in Judging1 => evSess[i].step = 1
         /\ \A n \in DOMAIN StepsOf[KindOf(i)] : n \in 0 .. Closed(i)
<1>1. evPast.setup.who \in Seq([kind : Kinds, via : {"api", "job", "child"}])
  BY EvalAssumption DEF EvalShape
<1>2. /\ Len(evPast.setup.who) \in Nat /\ DOMAIN evSess = 1 .. Len(evPast.setup.who)
      /\ evPast.setup.who[i] \in [kind : Kinds, via : {"api", "job", "child"}] /\ i \in Nat \ {0}
  <2>1. PICK who : who = evPast.setup.who
    OBVIOUS
  <2>2. who \in Seq([kind : Kinds, via : {"api", "job", "child"}]) /\ i \in DOMAIN who
    BY <1>1, <2>1 DEF EvalShape
  <2>3. Len(who) \in Nat /\ DOMAIN who = 1 .. Len(who)
    BY <2>2
  <2>4. who[i] \in [kind : Kinds, via : {"api", "job", "child"}] /\ i \in Nat \ {0}
    <3>1. PICK S : S = [kind : Kinds, via : {"api", "job", "child"}]
      OBVIOUS
    <3>2. who \in Seq(S) /\ i \in 1 .. Len(who)
      BY <2>2, <2>3, <3>1
    <3>3. who[i] \in S /\ i \in Nat \ {0}
      BY <3>2
    <3>4. QED
      BY <3>1, <3>3
  <2>5. DOMAIN evSess = DOMAIN who
    BY <2>1 DEF EvalShape
  <2>6. QED
    BY <2>1, <2>3, <2>4, <2>5
<1>3. KindOf(i) \in Kinds
  BY <1>2 DEF KindOf
<1>4. Ordered(KindOf(i), StepsOf[KindOf(i)])
  BY <1>3, StepsOrdered
<1>5. evSess[i].step \in 0 .. Closed(i) /\ evSess[i].step \in Int
  BY <1>4 DEF EvalShape, Closed, Ordered
<1>6. PICK steps : steps = StepsOf[KindOf(i)]
  OBVIOUS
<1>7. /\ Len(steps) \in Nat \ {0} /\ DOMAIN steps = 1 .. Len(steps) /\ Closed(i) = Len(steps) + 1
      /\ \A n \in DOMAIN steps :
           /\ steps[n] \in {"trace", "call", "record", "judge", "store"}
           /\ steps[n] = "store" <=> n = Len(steps)
           /\ steps[n] = "judge" => n > 1 /\ KindOf(i) \in Judging1
           /\ steps[n] = "record" /\ KindOf(i) \in Judging1 => n = 1
  BY <1>4, <1>6 DEF Ordered, Closed
<1>8. /\ evSess[i].step \in DOMAIN steps => StepOf(i) = steps[evSess[i].step]
      /\ evSess[i].step \notin DOMAIN steps =>
           StepOf(i) = (IF evSess[i].step = 0 THEN "unopened" ELSE "closed")
  BY <1>6 DEF StepOf
<1>9. SessionOpen(i) <=> evSess[i].step \in DOMAIN steps
  BY <1>6 DEF SessionOpen
<1>10. \A n \in DOMAIN steps : n # Len(steps) => n + 1 \in DOMAIN steps
  BY <1>7
<1>11. Closed(i) \notin DOMAIN steps /\ 0 \notin DOMAIN steps /\ 1 \in DOMAIN steps
  BY <1>7
<1>12. \A n \in DOMAIN steps : n \in 0 .. Closed(i)
  BY <1>7
<1>13. /\ SessionOpen(i) <=> StepOf(i) \notin {"unopened", "closed"}
       /\ StepOf(i) = "unopened" <=> evSess[i].step = 0
       /\ StepOf(i) \in {"unopened", "closed", "trace", "call", "record", "judge", "store"}
  BY <1>7, <1>8, <1>9, <1>11
<1>14. /\ StepOf(i) \in {"trace", "call", "record", "judge"} => evSess[i].step + 1 \in DOMAIN steps
       /\ StepOf(i) = "store" => evSess[i].step + 1 = Closed(i)
       /\ StepOf(i) = "judge" => evSess[i].step > 1 /\ KindOf(i) \in Judging1
       /\ StepOf(i) = "record" /\ KindOf(i) \in Judging1 => evSess[i].step = 1
  <2>1. CASE evSess[i].step \in DOMAIN steps
    BY <1>7, <1>8, <1>10, <2>1
  <2>2. CASE evSess[i].step \notin DOMAIN steps
    BY <1>8, <2>2
  <2>3. QED
    BY <2>1, <2>2
<1>15. QED
  BY <1>2, <1>3, <1>6, <1>7, <1>11, <1>12, <1>13, <1>14

\* What a session holds stays right while others work.
LEMMA SessionUntouched ==
  ASSUME EvalInv, EvalShape', NEW t \in DOMAIN evSess, evSess'[t] = evSess[t],
         evPast'.setup = evPast.setup, evPast.kept \subseteq evPast'.kept,
         evPast'.lost = {} => evPast.lost = {} /\ (evRec.id = 0 \/ evRec'.id = evRec.id),
         \/ evLock # t /\ evPast'.ids >= evPast.ids
         \/ evLock' = evLock /\ evPast'.ids = evPast.ids /\ evTask'.attempt = evTask.attempt,
         \/ evRec'.id = 0
         \/ evRec'.id = evRec.id /\ evRec'.about = evRec.about
         \/ evRec.id = 0 /\ evRec'.id = evPast.ids + 1 /\ evLock # t
  PROVE  SessionPlace(t)' /\ (SessionOpen(t)' <=> SessionOpen(t)) /\ Owed(t)' = Owed(t)
<1>1. SessionPlace(t) /\ EvalShape
  BY DEF EvalInv
<1>2. KindOf(t)' = KindOf(t)
  BY DEF KindOf
<1>3. SessionOpen(t)' <=> SessionOpen(t)
  BY <1>2 DEF SessionOpen
<1>4. /\ evPast.ids \in Nat /\ evPast'.ids \in Nat /\ evRec.id \in Nat /\ evRec'.id \in Nat
      /\ t \in Nat \ {0}
      /\ evSess[t].task.anchor \in Nat /\ evSess[t].seen.anchor \in Nat
      /\ evSess[t].judged.anchor \in Nat
  BY <1>1, SessionSteps DEF EvalShape
<1>5. ASSUME NEW c, c.anchor \in Nat, CopyFits(t, c)
      PROVE  CopyFits(t, c)'
  <2>1. \/ c.anchor <= evPast'.ids
        \/ /\ evLock' = t /\ c.anchor = evPast'.ids + 1
           /\ evSess'[t].built # 0 => c.about = evSess'[t].built
    BY <1>4, <1>5 DEF CopyFits
  <2>2. c.anchor = evRec'.id /\ evRec'.id # 0 => c.about = evRec'.about
    BY <1>4, <1>5 DEF CopyFits
  <2>3. QED
    BY <2>1, <2>2 DEF CopyFits
<1>6. SessionOpen(t) => CopyFits(t, evSess[t].task)' /\ CopyFits(t, evSess[t].seen)'
                        /\ CopyFits(t, evSess[t].judged)'
  <2>1. SUFFICES ASSUME SessionOpen(t)
                 PROVE  CopyFits(t, evSess[t].task)' /\ CopyFits(t, evSess[t].seen)'
                        /\ CopyFits(t, evSess[t].judged)'
    OBVIOUS
  <2>2. PICK a, b, c : a = evSess[t].task /\ b = evSess[t].seen /\ c = evSess[t].judged
    OBVIOUS
  <2>3. CopyFits(t, a) /\ CopyFits(t, b) /\ CopyFits(t, c)
    BY <1>1, <2>1, <2>2 DEF SessionPlace
  <2>4. CopyFits(t, a)' /\ CopyFits(t, b)' /\ CopyFits(t, c)'
    BY <1>4, <1>5, <2>2, <2>3
  <2>5. QED
    BY <2>2, <2>4 DEF CopyFits
<1>7. SessionOpen(t) /\ evSess[t].built # 0 =>
        evLock' = t /\ evSess[t].built = evTask'.attempt /\ evRec'.id = 0
  BY <1>1, <1>4 DEF SessionPlace
<1>8. Owed(t)' = Owed(t)
  BY <1>3 DEF Owed
<1>9. QED
  BY <1>1, <1>2, <1>3, <1>6, <1>7, <1>8 DEF SessionPlace

\* The books are kept where one session pays or stores what it has paid.
LEMMA BooksMoved ==
  ASSUME EvalShape, EvalShape', Books, NEW i \in DOMAIN evSess, evPast'.setup = evPast.setup,
         \A t \in DOMAIN evSess \ {i} : Owed(t)' = Owed(t),
         evPast'.lost = {} =>
           /\ evPast.lost = {}
           /\ evPast'.paid + evPast.stored + Owed(i) = evPast.paid + evPast'.stored + Owed(i)'
  PROVE  Books'
<1>1. SUFFICES ASSUME evPast'.lost = {}
               PROVE  \E f \in [0 .. Len(evPast.setup.who) -> Int] :
                        /\ f[0] = 0
                        /\ \A k \in 1 .. Len(evPast.setup.who) : f[k] = f[k - 1] + Owed(k)'
                        /\ evPast'.paid = evPast'.stored + f[Len(evPast.setup.who)]
  BY DEF Books
<1>2. PICK n : n = Len(evPast.setup.who)
  OBVIOUS
<1>3. n \in Nat /\ DOMAIN evSess = 1 .. n /\ DOMAIN evSess' = 1 .. n /\ i \in 1 .. n
  BY <1>2, SessionSteps DEF EvalShape
<1>4. PICK f \in [0 .. n -> Int] :
        /\ f[0] = 0
        /\ \A k \in 1 .. n : f[k] = f[k - 1] + Owed(k)
        /\ evPast.paid = evPast.stored + f[n]
  BY <1>1, <1>2 DEF Books
<1>5. /\ evPast.paid \in Nat /\ evPast.stored \in Nat
      /\ evPast'.paid \in Nat /\ evPast'.stored \in Nat
      /\ \A k \in 1 .. n : Owed(k) \in Nat /\ Owed(k)' \in Nat
  BY <1>3 DEF EvalShape, Owed
<1>6. PICK w \in Int : Owed(i)' = Owed(i) + w
  <2>1. Owed(i)' - Owed(i) \in Int /\ Owed(i)' = Owed(i) + (Owed(i)' - Owed(i))
    BY <1>3, <1>5
  <2>2. QED
    BY <2>1
<1>7. evPast'.paid = evPast'.stored + (f[n] + w)
  <2>1. f[n] \in Int /\ Owed(i) \in Nat
    BY <1>3, <1>4, <1>5
  <2>2. evPast'.paid + evPast.stored + Owed(i) = evPast.paid + evPast'.stored + (Owed(i) + w)
    BY <1>1, <1>6
  <2>3. PICK a \in Nat, b \in Nat, c \in Nat, d \in Nat, o \in Nat, v \in Int :
             /\ a = evPast'.paid /\ b = evPast.stored /\ c = evPast.paid
             /\ d = evPast'.stored /\ o = Owed(i) /\ v = f[n]
    BY <1>5, <2>1
  <2>4. c = b + v /\ a + b + o = c + d + (o + w)
    BY <1>4, <2>2, <2>3
  <2>5. a = d + (v + w)
    <3>1. a + b + o = b + v + d + o + w
      BY <2>4
    <3>2. QED
      BY <3>1
  <2>6. QED
    BY <2>3, <2>5
<1>8. PICK g : g = [k \in 0 .. n |-> IF k >= i THEN f[k] + w ELSE f[k]]
  OBVIOUS
<1>9. g \in [0 .. n -> Int] /\ g[0] = 0 /\ g[n] = f[n] + w
  BY <1>3, <1>4, <1>6, <1>8
<1>10. ASSUME NEW k \in 1 .. n
       PROVE  g[k] = g[k - 1] + Owed(k)'
  <2>1. /\ k \in 0 .. n /\ k - 1 \in 0 .. n /\ f[k] \in Int /\ f[k - 1] \in Int
        /\ f[k] = f[k - 1] + Owed(k) /\ Owed(k) \in Nat /\ Owed(k)' \in Nat
    <3>1. k \in 0 .. n /\ k - 1 \in 0 .. n
      BY <1>3
    <3>2. f[k] \in Int /\ f[k - 1] \in Int
      BY <1>4, <3>1
    <3>3. Owed(k) \in Nat /\ Owed(k)' \in Nat
      BY <1>5
    <3>4. f[k] = f[k - 1] + Owed(k)
      BY <1>4
    <3>5. QED
      BY <3>1, <3>2, <3>3, <3>4
  <2>2. CASE k = i
    <3>1. g[k] = f[k] + w /\ g[k - 1] = f[k - 1] /\ Owed(k)' = Owed(k) + w
      <4>1. k >= i /\ ~(k - 1 >= i)
        BY <1>3, <2>2
      <4>2. QED
        BY <1>6, <1>8, <2>1, <2>2, <4>1
    <3>2. PICK x \in Int, y \in Nat, z \in Int : x = f[k - 1] /\ y = Owed(k) /\ z = f[k]
      BY <2>1
    <3>3. z = x + y
      BY <2>1, <3>2
    <3>4. z + w = x + (y + w)
      BY <3>3
    <3>5. QED
      BY <3>1, <3>2, <3>4
  <2>3. CASE k # i
    <3>1. Owed(k)' = Owed(k)
      BY <1>3, <2>3
    <3>2. (g[k] = f[k] + w /\ g[k - 1] = f[k - 1] + w) \/ (g[k] = f[k] /\ g[k - 1] = f[k - 1])
      <4>1. (k >= i) <=> (k - 1 >= i)
        BY <1>3, <2>3
      <4>2. QED
        BY <1>8, <2>1, <4>1
    <3>3. PICK x \in Int, y \in Nat, z \in Int : x = f[k - 1] /\ y = Owed(k) /\ z = f[k]
      BY <2>1
    <3>4. z = x + y
      BY <2>1, <3>3
    <3>5. z + w = (x + w) + y
      BY <3>4
    <3>6. QED
      BY <3>1, <3>2, <3>3, <3>4, <3>5
  <2>4. QED
    BY <2>2, <2>3
<1>11. QED
  BY <1>2, <1>7, <1>9, <1>10

\* A step of one session that leaves record and task alone.
LEMMA SessionMoved ==
  ASSUME EvalInv, NEW i \in DOMAIN evSess, evTask' = evTask, evRec' = evRec,
         DOMAIN evPast' = EvPastFields, evPast'.setup = evPast.setup, evPast'.ids = evPast.ids,
         evPast'.versions \in Nat, evPast'.paid \in Nat, evPast'.stored \in Nat,
         evPast.kept \subseteq evPast'.kept,
         DOMAIN evSess' = DOMAIN evSess, \A t \in DOMAIN evSess \ {i} : evSess'[t] = evSess[t],
         DOMAIN evSess'[i] = SessionFields, evSess'[i].step \in 0 .. Closed(i),
         evSess'[i].task.anchor \in Nat, evSess'[i].seen.anchor \in Nat,
         evSess'[i].judged.anchor \in Nat, evSess'[i].cost \in Nat,
         SessionPlace(i)',
         evLock' \in {0, i, evLock}, evLock' = evLock \/ evLock \in {0, i},
         evLock' = i => SessionOpen(i)',
         evPast'.lost = {} =>
           /\ evPast.lost = {}
           /\ evPast'.paid + evPast.stored + Owed(i) = evPast.paid + evPast'.stored + Owed(i)'
  PROVE  EvalInv'
<1>1. \A t \in DOMAIN evSess : KindOf(t)' = KindOf(t) /\ Closed(t)' = Closed(t)
  BY DEF KindOf, Closed
<1>2. EvalShape'
  <2>1. \A t \in DOMAIN evSess' :
          /\ DOMAIN evSess'[t] = SessionFields /\ evSess'[t].step \in 0 .. Closed(t)'
          /\ evSess'[t].task.anchor \in Nat /\ evSess'[t].seen.anchor \in Nat
          /\ evSess'[t].judged.anchor \in Nat /\ evSess'[t].cost \in Nat
    BY <1>1 DEF EvalInv, EvalShape
  <2>2. QED
    BY <2>1 DEF EvalInv, EvalShape
<1>3. i \in Nat \ {0} /\ evPast.ids \in Nat
  BY SessionSteps DEF EvalInv, EvalShape
<1>4. ASSUME NEW t \in DOMAIN evSess \ {i}
      PROVE  SessionPlace(t)' /\ (SessionOpen(t)' <=> SessionOpen(t)) /\ Owed(t)' = Owed(t)
  <2>1. evLock' = evLock \/ evLock # t
    <3>1. EvalShape /\ t # i /\ t \in DOMAIN evSess
      BY DEF EvalInv
    <3>2. t \in Nat \ {0}
      BY <3>1, SessionSteps
    <3>3. QED
      BY <3>1, <3>2
  <2>2. QED
    BY <1>2, <1>3, <2>1, SessionUntouched
<1>5. LockPlace'
  <2>1. evLock' # 0 /\ evLock' # i => evLock' = evLock /\ evLock \in DOMAIN evSess /\ SessionOpen(evLock)
    BY DEF EvalInv, LockPlace
  <2>2. PICK l : l = evLock'
    OBVIOUS
  <2>3. l # 0 => l \in DOMAIN evSess' /\ SessionOpen(l)'
    BY <1>4, <2>1, <2>2
  <2>4. QED
    BY <2>2, <2>3 DEF LockPlace, SessionOpen, KindOf
<1>6. Books'
  BY <1>2, <1>4, BooksMoved DEF EvalInv
<1>7. RecordPlace'
  BY DEF EvalInv, RecordPlace, SlotsFitRecord, NoPhantomBasis
<1>8. QED
  BY <1>2, <1>4, <1>5, <1>6, <1>7 DEF EvalInv

\* The invariant holds at first.
LEMMA EvalInvInit == EvalInit => EvalInv
<1>1. SUFFICES ASSUME EvalInit
               PROVE  EvalInv
  OBVIOUS
<1>2. PICK s \in EvalSetups :
        /\ evTask = [attempt |-> 1, ended |-> TRUE]
        /\ evRec = IF s.recorded THEN [NoRecord EXCEPT !.id = 1, !.about = 1] ELSE NoRecord
        /\ evSess = [i \in DOMAIN s.who |-> Unopened]
        /\ evLock = 0
        /\ evPast = [setup |-> s, ids |-> IF s.recorded THEN 1 ELSE 0, versions |-> 0, kept |-> {0},
                     paid |-> 0, stored |-> 0, lost |-> {},
                     faults |-> s.faults, retries |-> s.retries, prunes |-> s.prunes]
  BY <1>1 DEF EvalInit
<1>3. /\ DOMAIN evTask = {"attempt", "ended"} /\ evTask.attempt = 1
      /\ DOMAIN evPast = EvPastFields /\ evPast.setup = s /\ evPast.versions = 0
      /\ evPast.kept = {0} /\ evPast.paid = 0 /\ evPast.stored = 0
      /\ evPast.ids = (IF s.recorded THEN 1 ELSE 0)
  BY <1>2 DEF EvPastFields
<1>4. /\ DOMAIN evRec = {"id", "about", "slots"} /\ evRec.id = evPast.ids
      /\ evRec.slots = [k \in Kinds |-> Unfilled] /\ (evRec.id # 0 => evRec.about = 1)
  <2>1. CASE s.recorded
    BY <1>2, <1>3, <2>1 DEF NoRecord
  <2>2. CASE ~s.recorded
    BY <1>2, <1>3, <2>2 DEF NoRecord
  <2>3. QED
    BY <2>1, <2>2
<1>5. /\ DOMAIN evSess = DOMAIN s.who
      /\ \A i \in DOMAIN evSess : evSess[i] = Unopened
  BY <1>2
<1>6. /\ DOMAIN Unopened = SessionFields /\ Unopened.step = 0 /\ Unopened.task.anchor = 0
      /\ Unopened.seen.anchor = 0 /\ Unopened.judged.anchor = 0 /\ Unopened.cost = 0
  BY DEF Unopened, Copy, SessionFields
<1>7. \A i \in DOMAIN evSess : 0 \in 0 .. Closed(i) /\ ~SessionOpen(i)
  <2>1. SUFFICES ASSUME NEW i \in DOMAIN evSess
                 PROVE  0 \in 0 .. Closed(i) /\ ~SessionOpen(i)
    OBVIOUS
  <2>2. KindOf(i) \in Kinds
    <3>1. PICK S : S = [kind : Kinds, via : {"api", "job", "child"}]
      OBVIOUS
    <3>2. s.who \in Seq(S) /\ i \in DOMAIN s.who
      BY <1>5, <3>1, EvalAssumption
    <3>3. s.who[i] \in S
      BY <3>2
    <3>4. QED
      BY <1>3, <3>1, <3>3 DEF KindOf
  <2>3. Ordered(KindOf(i), StepsOf[KindOf(i)])
    BY <2>2, StepsOrdered
  <2>4. evSess[i].step = 0
    BY <1>5, <1>6
  <2>5. QED
    BY <2>3, <2>4 DEF Ordered, Closed, SessionOpen
<1>8. EvalShape
  BY <1>3, <1>4, <1>5, <1>6, <1>7 DEF EvalShape
<1>9. RecordPlace
  <2>1. \A k \in Kinds : evRec.slots[k] = Unfilled
    BY <1>4
  <2>2. SlotsFitRecord
    BY <2>1 DEF SlotsFitRecord
  <2>3. NoPhantomBasis
    BY <1>3, <2>1 DEF NoPhantomBasis, Unfilled
  <2>4. QED
    BY <1>3, <1>4, <2>1, <2>2, <2>3 DEF RecordPlace
<1>10. \A i \in DOMAIN evSess : SessionPlace(i)
  BY <1>5, <1>6, <1>7 DEF SessionPlace
<1>11. Books
  <2>1. PICK n : n = Len(evPast.setup.who)
    OBVIOUS
  <2>2. n \in Nat /\ DOMAIN evSess = 1 .. n
    <3>1. s.who \in Seq([kind : Kinds, via : {"api", "job", "child"}])
      BY EvalAssumption
    <3>2. QED
      BY <1>3, <1>5, <2>1, <3>1
  <2>3. PICK f : f = [k \in 0 .. n |-> 0]
    OBVIOUS
  <2>4. f \in [0 .. n -> Int] /\ f[0] = 0 /\ f[n] = 0
    BY <2>2, <2>3
  <2>5. ASSUME NEW i \in 1 .. n
        PROVE  f[i] = f[i - 1] + Owed(i)
    <3>1. Owed(i) = 0
      BY <1>7, <2>2 DEF Owed
    <3>2. i \in 0 .. n /\ i - 1 \in 0 .. n
      BY <2>2
    <3>3. QED
      BY <2>3, <3>1, <3>2
  <2>6. evPast.paid = evPast.stored + f[n]
    BY <1>3, <2>4
  <2>7. QED
    BY <2>1, <2>4, <2>5, <2>6 DEF Books
<1>12. LockPlace
  BY <1>2 DEF LockPlace
<1>13. QED
  BY <1>8, <1>9, <1>10, <1>11, <1>12 DEF EvalInv

\* A step within an open session: what it reads, asks or finds.
LEMMA SessionGoesOn ==
  ASSUME EvalInv, NEW i \in DOMAIN evSess,
         ReadsTrace(i) \/ LooksForRecord(i) \/ CallAnswered(i) \/ JudgedAlready(i) \/ JudgesFirst(i)
  PROVE  EvalInv'
<1> DEFINE s == evSess[i]
<1>1. /\ SessionOpen(i) /\ SessionPlace(i) /\ DOMAIN s = SessionFields /\ s.step \in Nat
      /\ s.task.anchor \in Nat /\ s.seen.anchor \in Nat /\ s.judged.anchor \in Nat /\ s.cost \in Nat
      /\ DOMAIN evPast = EvPastFields /\ evPast.versions \in Nat /\ evPast.paid \in Nat
      /\ evPast.stored \in Nat /\ evRec.slots.quality.base \in evPast.kept
  <2>1. StepOf(i) \in {"trace", "record", "call", "judge"}
    BY DEF ReadsTrace, LooksForRecord, CallAnswered, JudgedAlready, JudgesFirst
  <2>2. SessionOpen(i)
    BY <2>1, SessionSteps DEF EvalInv
  <2>3. "quality" \in Kinds
    BY DEF Kinds, StepsOf
  <2>4. EvalShape /\ Closed(i) \in Nat
    BY SessionSteps DEF EvalInv
  <2>5. QED
    BY <2>2, <2>3, <2>4 DEF EvalInv, EvalShape, RecordPlace, NoPhantomBasis
<1>2. ASSUME NEW t, evSess' = [evSess EXCEPT ![i] = t], DOMAIN t = SessionFields,
             t.step \in DOMAIN StepsOf[KindOf(i)], t.task = s.task, t.seen \in {s.seen, s.task},
             t.built = s.built, t.judged \in {s.judged, s.task}, t.cost \in Nat,
             t.own # 0 => t.base = t.own /\ t.step > 1 /\ KindOf(i) \in Judging1,
             t.own = 0 => t.base \in evPast.kept,
             evPast.lost = {} /\ t.rec # 0 => t.rec = evRec.id,
             evTask' = evTask, evRec' = evRec, evLock' = evLock,
             DOMAIN evPast' = EvPastFields, evPast'.setup = evPast.setup, evPast'.ids = evPast.ids,
             evPast'.versions \in Nat, evPast'.paid \in Nat, evPast'.stored = evPast.stored,
             evPast'.kept = evPast.kept, evPast'.lost = evPast.lost,
             evPast'.paid + s.cost = evPast.paid + t.cost
      PROVE  EvalInv'
  <2>1. /\ DOMAIN evSess' = DOMAIN evSess /\ evSess'[i] = t
        /\ \A k \in DOMAIN evSess \ {i} : evSess'[k] = evSess[k]
    BY <1>2
  <2>2. KindOf(i)' = KindOf(i)
    BY <1>2 DEF KindOf
  <2>3. SessionOpen(i)' /\ t.step \in 0 .. Closed(i) /\ t.step # 0
    BY <1>2, <2>1, <2>2, SessionSteps DEF SessionOpen, EvalInv
  <2>4. ASSUME NEW c, CopyFits(i, c)
        PROVE  CopyFits(i, c)'
    BY <1>2, <2>1, <2>4 DEF CopyFits
  <2>5. CopyFits(i, t.task)' /\ CopyFits(i, t.seen)' /\ CopyFits(i, t.judged)'
    <3>1. CopyFits(i, s.task) /\ CopyFits(i, s.seen) /\ CopyFits(i, s.judged)
      BY <1>1 DEF SessionPlace
    <3>2. PICK a, b, c : a = s.task /\ b = s.seen /\ c = s.judged
      OBVIOUS
    <3>3. CopyFits(i, a)' /\ CopyFits(i, b)' /\ CopyFits(i, c)'
      BY <2>4, <3>1, <3>2
    <3>4. PICK x, y, z : x = t.task /\ y = t.seen /\ z = t.judged
      OBVIOUS
    <3>5. CopyFits(i, x)' /\ CopyFits(i, y)' /\ CopyFits(i, z)'
      BY <1>2, <3>2, <3>3, <3>4
    <3>6. QED
      BY <3>4, <3>5
  <2>6. t.built # 0 => evLock = i /\ t.built = evTask.attempt /\ evRec.id = 0
    BY <1>1, <1>2 DEF SessionPlace
  <2>7. SessionPlace(i)'
    BY <1>2, <2>1, <2>2, <2>3, <2>5, <2>6 DEF SessionPlace
  <2>8. Owed(i) = s.cost /\ Owed(i)' = t.cost
    BY <1>1, <2>1, <2>3 DEF Owed
  <2>9. evPast'.paid + evPast.stored + Owed(i) = evPast.paid + evPast'.stored + Owed(i)'
    BY <1>1, <1>2, <2>8
  <2>10. t.task.anchor \in Nat /\ t.seen.anchor \in Nat /\ t.judged.anchor \in Nat
    BY <1>1, <1>2
  <2>11. QED
    BY <1>1, <1>2, <2>1, <2>3, <2>7, <2>9, <2>10, SessionMoved
<1> HIDE DEF s
<1>3. /\ StepOf(i) \in {"trace", "record", "call", "judge"} =>
           s.step + 1 \in DOMAIN StepsOf[KindOf(i)] /\ s.step + 1 \in Nat /\ s.step + 1 > 1
      /\ StepOf(i) = "judge" => KindOf(i) \in Judging1
      /\ StepOf(i) = "record" => s.own = 0
  <2>1. /\ StepOf(i) \in {"trace", "record", "call", "judge"} =>
             evSess[i].step + 1 \in DOMAIN StepsOf[KindOf(i)] /\ evSess[i].step # 0
        /\ StepOf(i) = "judge" => KindOf(i) \in Judging1
        /\ StepOf(i) = "record" /\ KindOf(i) \in Judging1 => evSess[i].step = 1
    BY SessionSteps DEF EvalInv
  <2>2. s = evSess[i]
    BY DEF s
  <2>3. s.own # 0 => s.step > 1 /\ KindOf(i) \in Judging1
    BY <1>1, <2>2 DEF SessionPlace
  <2>4. QED
    BY <1>1, <2>1, <2>2, <2>3
<1>4. /\ s.own # 0 => s.base = s.own /\ s.step > 1 /\ KindOf(i) \in Judging1
      /\ s.own = 0 => s.base \in evPast.kept
      /\ evPast.lost = {} /\ s.rec # 0 => s.rec = evRec.id
      /\ s.step + 1 > s.step
  BY <1>1 DEF SessionPlace, s
<1>5. CASE ReadsTrace(i)
  <2>1. PICK t : t = [[s EXCEPT !.seen = s.task] EXCEPT !.step = s.step + 1]
    OBVIOUS
  <2>2. evSess' = [evSess EXCEPT ![i] = t]
    BY <1>5, <2>1, <1>1 DEF ReadsTrace, Goes, s, SessionFields
  <2>3. /\ DOMAIN t = SessionFields /\ t.step = s.step + 1 /\ t.task = s.task /\ t.seen = s.task
        /\ t.built = s.built /\ t.judged = s.judged /\ t.cost = s.cost /\ t.own = s.own
        /\ t.base = s.base /\ t.rec = s.rec
    BY <1>1, <2>1 DEF SessionFields
  <2>4. StepOf(i) = "trace" /\ evTask' = evTask /\ evRec' = evRec /\ evLock' = evLock /\ evPast' = evPast
    BY <1>5 DEF ReadsTrace
  <2>5. QED
    BY <1>1, <1>2, <1>3, <1>4, <2>2, <2>3, <2>4
<1>6. CASE LooksForRecord(i)
  <2>1. StepOf(i) = "record" /\ evTask' = evTask /\ evRec' = evRec /\ evLock' = evLock /\ evPast' = evPast
    BY <1>6 DEF LooksForRecord
  <2>2. CASE evRec.id # 0
    <3>1. PICK t : t = [[s EXCEPT !.rec = evRec.id, !.base = evRec.slots.quality.base]
                          EXCEPT !.step = s.step + 1]
      OBVIOUS
    <3>2. evSess' = [evSess EXCEPT ![i] = t]
      BY <1>1, <1>6, <2>2, <3>1 DEF LooksForRecord, Goes, s, SessionFields
    <3>3. /\ DOMAIN t = SessionFields /\ t.step = s.step + 1 /\ t.task = s.task /\ t.seen = s.seen
          /\ t.built = s.built /\ t.judged = s.judged /\ t.cost = s.cost /\ t.own = s.own
          /\ t.base = evRec.slots.quality.base /\ t.rec = evRec.id
      BY <1>1, <3>1 DEF SessionFields
    <3>4. QED
      BY <1>1, <1>2, <1>3, <2>1, <3>2, <3>3
  <2>3. CASE evRec.id = 0
    <3>1. PICK t : t = [s EXCEPT !.looked = TRUE]
      OBVIOUS
    <3>2. evSess' = [evSess EXCEPT ![i] = t]
      BY <1>1, <1>6, <2>3, <3>1 DEF LooksForRecord, s
    <3>3. /\ DOMAIN t = SessionFields /\ t.step = s.step /\ t.task = s.task /\ t.seen = s.seen
          /\ t.built = s.built /\ t.judged = s.judged /\ t.cost = s.cost /\ t.own = s.own
          /\ t.base = s.base /\ t.rec = s.rec
      BY <1>1, <3>1 DEF SessionFields
    <3>4. s.step \in DOMAIN StepsOf[KindOf(i)]
      BY <1>1 DEF SessionOpen, s
    <3>5. QED
      BY <1>1, <1>2, <1>4, <2>1, <3>2, <3>3, <3>4
  <2>4. QED
    BY <2>2, <2>3
<1>7. CASE CallAnswered(i)
  <2>1. PICK t : t = [[s EXCEPT !.cost = s.cost + 1] EXCEPT !.step = s.step + 1]
    OBVIOUS
  <2>2. evSess' = [evSess EXCEPT ![i] = t]
    BY <1>1, <1>7, <2>1 DEF CallAnswered, Goes, s, SessionFields
  <2>3. /\ DOMAIN t = SessionFields /\ t.step = s.step + 1 /\ t.task = s.task /\ t.seen = s.seen
        /\ t.built = s.built /\ t.judged = s.judged /\ t.cost = s.cost + 1 /\ t.own = s.own
        /\ t.base = s.base /\ t.rec = s.rec
    BY <1>1, <2>1 DEF SessionFields
  <2>4. /\ StepOf(i) = "call" /\ evTask' = evTask /\ evRec' = evRec /\ evLock' = evLock
        /\ evPast' = [evPast EXCEPT !.paid = evPast.paid + 1]
    BY <1>7 DEF CallAnswered, Pays
  <2>5. /\ DOMAIN evPast' = EvPastFields /\ evPast'.setup = evPast.setup /\ evPast'.ids = evPast.ids
        /\ evPast'.versions = evPast.versions /\ evPast'.paid = evPast.paid + 1
        /\ evPast'.stored = evPast.stored /\ evPast'.kept = evPast.kept /\ evPast'.lost = evPast.lost
    BY <1>1, <2>4 DEF EvPastFields
  <2>6. t.cost \in Nat /\ evPast'.paid \in Nat /\ evPast'.paid + s.cost = evPast.paid + t.cost
    BY <1>1, <2>3, <2>5 DEF s
  <2>7. QED
    BY <1>1, <1>2, <1>3, <1>4, <2>2, <2>3, <2>4, <2>5, <2>6
<1>8. CASE JudgedAlready(i)
  <2>1. PICK t : t = [s EXCEPT !.step = s.step + 1]
    OBVIOUS
  <2>2. evSess' = [evSess EXCEPT ![i] = t]
    BY <1>1, <1>8, <2>1 DEF JudgedAlready, Goes, s
  <2>3. /\ DOMAIN t = SessionFields /\ t.step = s.step + 1 /\ t.task = s.task /\ t.seen = s.seen
        /\ t.built = s.built /\ t.judged = s.judged /\ t.cost = s.cost /\ t.own = s.own
        /\ t.base = s.base /\ t.rec = s.rec
    BY <1>1, <2>1 DEF SessionFields
  <2>4. StepOf(i) = "judge" /\ evTask' = evTask /\ evRec' = evRec /\ evLock' = evLock /\ evPast' = evPast
    BY <1>8 DEF JudgedAlready
  <2>5. QED
    BY <1>1, <1>2, <1>3, <1>4, <2>2, <2>3, <2>4
<1>9. CASE JudgesFirst(i)
  <2>1. PICK t : t = [[s EXCEPT !.cost = s.cost + 1, !.base = evPast.versions + 1,
                                !.own = evPast.versions + 1, !.judged = s.task]
                        EXCEPT !.step = s.step + 1]
    OBVIOUS
  <2>2. evSess' = [evSess EXCEPT ![i] = t]
    BY <1>1, <1>9, <2>1 DEF JudgesFirst, Goes, s, SessionFields
  <2>3. /\ DOMAIN t = SessionFields /\ t.step = s.step + 1 /\ t.task = s.task /\ t.seen = s.seen
        /\ t.built = s.built /\ t.judged = s.task /\ t.cost = s.cost + 1
        /\ t.own = evPast.versions + 1 /\ t.base = evPast.versions + 1 /\ t.rec = s.rec
    BY <1>1, <2>1 DEF SessionFields
  <2>4. /\ StepOf(i) = "judge" /\ evTask' = evTask /\ evRec' = evRec /\ evLock' = evLock
        /\ evPast' = [evPast EXCEPT !.paid = evPast.paid + 1, !.versions = evPast.versions + 1]
    BY <1>9 DEF JudgesFirst
  <2>5. /\ DOMAIN evPast' = EvPastFields /\ evPast'.setup = evPast.setup /\ evPast'.ids = evPast.ids
        /\ evPast'.versions = evPast.versions + 1 /\ evPast'.paid = evPast.paid + 1
        /\ evPast'.stored = evPast.stored /\ evPast'.kept = evPast.kept /\ evPast'.lost = evPast.lost
    BY <1>1, <2>4 DEF EvPastFields
  <2>6. /\ t.cost \in Nat /\ evPast'.paid \in Nat /\ evPast'.versions \in Nat
        /\ t.own # 0 /\ evPast'.paid + s.cost = evPast.paid + t.cost
    BY <1>1, <2>3, <2>5 DEF s
  <2>7. QED
    BY <1>1, <1>2, <1>3, <1>4, <2>2, <2>3, <2>4, <2>5, <2>6
<1>10. QED
  BY <1>5, <1>6, <1>7, <1>8, <1>9

\* A session takes the lock and finds the record, or knows the one it will make.
LEMMA RecordSought ==
  ASSUME EvalInv, NEW i \in DOMAIN evSess, BuildsRecord(i)
  PROVE  EvalInv'
<1> DEFINE s == evSess[i]
           next == IF evRec.id = 0 THEN evPast.ids + 1 ELSE evRec.id
           built == IF evTask.ended /\ evRec.id = 0 THEN evTask.attempt ELSE 0
<1>1. /\ StepOf(i) = "record" /\ SessionOpen(i) /\ SessionPlace(i) /\ DOMAIN s = SessionFields
      /\ s.step \in Nat /\ s.step + 1 \in DOMAIN StepsOf[KindOf(i)] /\ s.own = 0
      /\ s.seen.anchor \in Nat /\ s.judged.anchor \in Nat /\ s.cost \in Nat
      /\ i # 0 /\ evLock = 0 /\ evLock' = i
      /\ evTask' = evTask /\ evRec' = evRec /\ evPast' = evPast
  <2>1. StepOf(i) = "record" /\ evLock = 0 /\ evLock' = i
    BY DEF BuildsRecord
  <2>2. /\ SessionOpen(i) /\ i # 0 /\ Closed(i) \in Nat /\ s.step + 1 \in DOMAIN StepsOf[KindOf(i)]
        /\ (KindOf(i) \in Judging1 => s.step = 1)
    BY <2>1, SessionSteps DEF EvalInv
  <2>3. s.own = 0
    BY <2>2 DEF EvalInv, SessionPlace
  <2>4. s.step \in Nat
    BY <2>2 DEF EvalInv, EvalShape
  <2>5. QED
    BY <2>1, <2>2, <2>3, <2>4 DEF EvalInv, EvalShape, BuildsRecord
<1>2. /\ evRec.id \in Nat /\ evPast.ids \in Nat /\ evRec.id <= evPast.ids
      /\ evRec.id # 0 => evRec.about = evTask.attempt
      /\ evRec.slots.quality.base \in evPast.kept
  <2>1. "quality" \in Kinds
    BY DEF Kinds, StepsOf
  <2>2. QED
    BY <2>1 DEF EvalInv, EvalShape, RecordPlace, NoPhantomBasis
<1>3. PICK c : c = Copy(evTask.attempt, next)
  OBVIOUS
<1>4. c.about = evTask.attempt /\ c.anchor = next
  BY <1>3 DEF Copy
<1>5. PICK t : t = [[s EXCEPT !.task = c, !.rec = evRec.id, !.base = evRec.slots.quality.base,
                              !.built = built] EXCEPT !.step = s.step + 1]
  OBVIOUS
<1>6. evSess' = [evSess EXCEPT ![i] = t]
  BY <1>1, <1>3, <1>5 DEF BuildsRecord, Goes, SessionFields
<1>7. /\ DOMAIN t = SessionFields /\ t.step = s.step + 1 /\ t.task = c /\ t.seen = s.seen
      /\ t.built = built /\ t.judged = s.judged /\ t.cost = s.cost /\ t.own = s.own
      /\ t.base = evRec.slots.quality.base /\ t.rec = evRec.id
  BY <1>1, <1>5 DEF SessionFields
<1>8. /\ DOMAIN evSess' = DOMAIN evSess /\ evSess'[i] = t
      /\ \A k \in DOMAIN evSess \ {i} : evSess'[k] = evSess[k]
  BY <1>6
<1>9. KindOf(i)' = KindOf(i)
  BY <1>1 DEF KindOf
<1>10. SessionOpen(i)' /\ t.step \in 0 .. Closed(i) /\ t.step # 0
  <2>1. SessionOpen(i)'
    BY <1>1, <1>7, <1>8, <1>9 DEF SessionOpen
  <2>2. t.step \in 0 .. Closed(i) /\ t.step # 0
    BY <1>1, <1>7, SessionSteps DEF EvalInv
  <2>3. QED
    BY <2>1, <2>2
<1>11. CopyFits(i, c)'
  <2>1. c.anchor <= evPast.ids \/ (c.anchor = evPast.ids + 1 /\ (t.built # 0 => c.about = t.built))
    BY <1>2, <1>4, <1>7
  <2>2. c.anchor = evRec.id /\ evRec.id # 0 => c.about = evRec.about
    BY <1>2, <1>4
  <2>3. QED
    BY <1>1, <1>8, <2>1, <2>2 DEF CopyFits
<1>12. CopyFits(i, t.seen)' /\ CopyFits(i, t.judged)'
  <2>1. CopyFits(i, s.seen) /\ CopyFits(i, s.judged)
    BY <1>1 DEF SessionPlace
  <2>2. PICK x, y : x = s.seen /\ y = s.judged
    OBVIOUS
  <2>3. CopyFits(i, x)' /\ CopyFits(i, y)'
    BY <1>1, <2>1, <2>2 DEF CopyFits
  <2>4. QED
    BY <1>7, <2>2, <2>3
<1>13. SessionPlace(i)'
  BY <1>1, <1>2, <1>7, <1>8, <1>9, <1>10, <1>11, <1>12 DEF SessionPlace
<1>14. Owed(i)' = Owed(i)
  BY <1>1, <1>7, <1>8, <1>10 DEF Owed
<1>15. /\ DOMAIN evPast = EvPastFields /\ evPast.versions \in Nat /\ evPast.paid \in Nat
       /\ evPast.stored \in Nat
  BY DEF EvalInv, EvalShape
<1>16. c.anchor \in Nat
  BY <1>2, <1>4
<1>17. QED
  BY <1>1, <1>7, <1>8, <1>10, <1>13, <1>14, <1>15, <1>16, SessionMoved

\* A session that ends without a commit leaves what it paid for unstored.
LEMMA SessionGivenUp ==
  ASSUME EvalInv, NEW i \in DOMAIN evSess, FindsNoSignal(i) \/ Aborts(i)
  PROVE  EvalInv'
<1>1. /\ SessionOpen(i) /\ DOMAIN evSess[i] = SessionFields
      /\ Closed(i) \in Nat \ {0} /\ Closed(i) \notin DOMAIN StepsOf[KindOf(i)] /\ i # 0
  BY SessionSteps DEF EvalInv, EvalShape, FindsNoSignal, Aborts
<1>2. /\ evTask' = evTask /\ evRec' = evRec /\ evSess' = [evSess EXCEPT ![i].step = Closed(i)]
      /\ evLock' = (IF evLock = i THEN 0 ELSE evLock)
  BY DEF FindsNoSignal, Aborts, Freed
<1>3. /\ DOMAIN evPast = EvPastFields /\ evPast.versions \in Nat /\ evPast.paid \in Nat
      /\ evPast.stored \in Nat
      /\ evSess[i].task.anchor \in Nat /\ evSess[i].seen.anchor \in Nat
      /\ evSess[i].judged.anchor \in Nat /\ evSess[i].cost \in Nat
  BY DEF EvalInv, EvalShape
<1>4. /\ DOMAIN evPast' = EvPastFields /\ evPast'.setup = evPast.setup /\ evPast'.ids = evPast.ids
      /\ evPast'.versions = evPast.versions /\ evPast'.paid \in Nat
      /\ evPast'.stored = evPast.stored /\ evPast'.kept = evPast.kept /\ evPast'.lost # {}
  <2>1. CASE FindsNoSignal(i)
    <3>0. PICK q \in {0, 1} : q = (IF evSess[i].base = 0 THEN 1 ELSE 0)
      OBVIOUS
    <3>1. PICK l : l = evPast.lost \cup {"no signal"}
      OBVIOUS
    <3>2. evPast.paid + q \in Nat /\ l # {}
      <4>1. evPast.paid + q \in Nat
        BY <1>3, <3>0
      <4>2. "no signal" \in l
        BY <3>1
      <4>3. QED
        BY <4>1, <4>2
    <3>3. evPast' = [evPast EXCEPT !.paid = evPast.paid + q, !.lost = l]
      BY <2>1, <3>0, <3>1 DEF FindsNoSignal
    <3>4. QED
      BY <1>3, <3>2, <3>3 DEF EvPastFields
  <2>2. CASE Aborts(i)
    <3>1. evPast' = [evPast EXCEPT !.faults = evPast.faults - 1, !.lost = evPast.lost \cup {"aborted"}]
      BY <2>2 DEF Aborts
    <3>2. QED
      BY <1>3, <3>1 DEF EvPastFields
  <2>3. QED
    BY <2>1, <2>2
<1>5. /\ DOMAIN evSess' = DOMAIN evSess /\ \A k \in DOMAIN evSess \ {i} : evSess'[k] = evSess[k]
      /\ DOMAIN evSess'[i] = SessionFields /\ evSess'[i].step = Closed(i)
      /\ evSess'[i].task = evSess[i].task /\ evSess'[i].seen = evSess[i].seen
      /\ evSess'[i].judged = evSess[i].judged /\ evSess'[i].cost = evSess[i].cost
  BY <1>1, <1>2 DEF SessionFields
<1>6. KindOf(i)' = KindOf(i)
  BY <1>4 DEF KindOf
<1>7. ~SessionOpen(i)' /\ evSess'[i].step # 0 /\ Closed(i) \in 0 .. Closed(i)
  BY <1>1, <1>5, <1>6 DEF SessionOpen
<1>8. SessionPlace(i)'
  BY <1>7 DEF SessionPlace
<1>9. QED
  BY <1>1, <1>2, <1>3, <1>4, <1>5, <1>7, <1>8, SessionMoved

\* A record appears for an ended attempt while nobody holds the lock.
LEMMA RecordArchived ==
  ASSUME EvalInv, evLock = 0, evTask' = evTask,
         evRec' = Archived, DOMAIN evPast' = EvPastFields, evPast'.setup = evPast.setup,
         evPast'.ids = (IF evRec.id = 0 THEN evPast.ids + 1 ELSE evPast.ids),
         evPast'.kept = evPast.kept
  PROVE  /\ RecordPlace' /\ DOMAIN evRec' = {"id", "about", "slots"} /\ evRec'.id \in Nat \ {0}
         /\ DOMAIN evRec'.slots = Kinds /\ evPast'.ids \in Nat
         /\ \/ evRec' = evRec
            \/ evRec.id = 0 /\ evRec'.id = evPast.ids + 1
<1>1. /\ evRec.id \in Nat /\ evPast.ids \in Nat /\ evRec.id <= evPast.ids /\ 0 \in evPast.kept
      /\ DOMAIN evRec = {"id", "about", "slots"} /\ DOMAIN evRec.slots = Kinds
  BY DEF EvalInv, EvalShape, RecordPlace
<1>2. CASE evRec.id # 0
  <2>1. evRec' = evRec
    BY <1>2 DEF Archived
  <2>2. QED
    BY <1>1, <1>2, <2>1 DEF EvalInv, RecordPlace, SlotsFitRecord, NoPhantomBasis
<1>3. CASE evRec.id = 0
  <2>1. evRec' = [NoRecord EXCEPT !.id = evPast.ids + 1, !.about = evTask.attempt]
    BY <1>3 DEF Archived
  <2>2. /\ DOMAIN evRec' = {"id", "about", "slots"} /\ evRec'.id = evPast.ids + 1
        /\ evRec'.about = evTask.attempt /\ DOMAIN evRec'.slots = Kinds
        /\ \A k \in Kinds : evRec'.slots[k] = Unfilled
    BY <2>1 DEF NoRecord
  <2>3. SlotsFitRecord'
    BY <2>2 DEF SlotsFitRecord
  <2>4. NoPhantomBasis'
    BY <1>1, <2>2 DEF NoPhantomBasis, Unfilled
  <2>5. QED
    BY <1>1, <1>3, <2>2, <2>3, <2>4 DEF RecordPlace
<1>4. QED
  BY <1>2, <1>3

\* A session opens with a copy of the task, and the record there is.
LEMMA SessionOpens ==
  ASSUME EvalInv, NEW i \in DOMAIN evSess, Opens(i)
  PROVE  EvalInv'
<1>1. /\ StepOf(i) = "unopened" /\ evTask' = evTask /\ evLock' = evLock
      /\ evPast' = [evPast EXCEPT !.ids = IF evRec'.id > evPast.ids THEN evRec'.id ELSE evPast.ids]
  BY DEF Opens
<1>2. /\ evSess[i].step = 0 /\ evSess[i] = Unopened /\ ~SessionOpen(i) /\ i \in Nat \ {0}
      /\ Closed(i) \in Nat \ {0} /\ Closed(i) \notin DOMAIN StepsOf[KindOf(i)]
      /\ 1 \in DOMAIN StepsOf[KindOf(i)]
  BY <1>1, SessionSteps DEF EvalInv, SessionPlace
<1>3. /\ evRec.id \in Nat /\ evPast.ids \in Nat /\ evRec.id <= evPast.ids
      /\ DOMAIN evPast = EvPastFields
      /\ DOMAIN evRec = {"id", "about", "slots"} /\ DOMAIN evRec.slots = Kinds
  BY DEF EvalInv, EvalShape, RecordPlace
<1>4. /\ DOMAIN evPast' = EvPastFields /\ evPast'.setup = evPast.setup
      /\ evPast'.ids = (IF evRec'.id > evPast.ids THEN evRec'.id ELSE evPast.ids)
      /\ evPast'.versions = evPast.versions /\ evPast'.paid = evPast.paid
      /\ evPast'.stored = evPast.stored /\ evPast'.kept = evPast.kept /\ evPast'.lost = evPast.lost
  BY <1>1, <1>3 DEF EvPastFields
<1>5. /\ RecordPlace' /\ DOMAIN evRec' = {"id", "about", "slots"} /\ evRec'.id \in Nat
      /\ DOMAIN evRec'.slots = Kinds /\ evPast'.ids \in Nat
      /\ \/ evRec' = evRec /\ evPast'.ids = evPast.ids
         \/ evRec.id = 0 /\ evRec'.id = evPast.ids + 1 /\ evPast'.ids = evPast.ids + 1 /\ evLock = 0
  <2>1. CASE ViaOf(i) = "child"
    <3>1. evRec' = Archived /\ evLock = 0
      BY <2>1 DEF Opens
    <3>2. evPast'.ids = (IF evRec.id = 0 THEN evPast.ids + 1 ELSE evPast.ids)
      BY <1>3, <1>4, <3>1 DEF Archived, NoRecord
    <3>3. QED
      BY <1>1, <1>3, <1>4, <3>1, <3>2, RecordArchived
  <2>2. CASE ViaOf(i) # "child"
    <3>1. evRec' = evRec
      BY <2>2 DEF Opens
    <3>2. evPast'.ids = evPast.ids
      BY <1>3, <1>4, <3>1
    <3>3. QED
      BY <1>1, <1>3, <1>4, <3>1, <3>2 DEF EvalInv, RecordPlace, SlotsFitRecord, NoPhantomBasis
  <2>3. QED
    BY <2>1, <2>2
<1>6. PICK first \in {1, Closed(i)} : evSess' = [evSess EXCEPT ![i].task = Copy(evTask.attempt, evRec'.id),
                                                             ![i].step = first]
  <2>1. PICK first : first = (IF ViaOf(i) = "child" /\ evRec'.slots[KindOf(i)] # Unfilled
                                THEN Closed(i) ELSE 1)
    OBVIOUS
  <2>2. QED
    BY <2>1 DEF Opens
<1>7. PICK c : c = Copy(evTask.attempt, evRec'.id)
  OBVIOUS
<1>8. c.about = evTask.attempt /\ c.anchor = evRec'.id
  BY <1>7 DEF Copy
<1>9. /\ DOMAIN evSess' = DOMAIN evSess /\ \A k \in DOMAIN evSess \ {i} : evSess'[k] = evSess[k]
      /\ DOMAIN evSess'[i] = SessionFields /\ evSess'[i].step = first /\ evSess'[i].task = c
      /\ evSess'[i].seen = Copy(0, 0) /\ evSess'[i].judged = Copy(0, 0) /\ evSess'[i].cost = 0
      /\ evSess'[i].rec = 0 /\ evSess'[i].built = 0 /\ evSess'[i].own = 0 /\ evSess'[i].base = 0
  <2>1. PICK z : z = Copy(0, 0)
    OBVIOUS
  <2>2. PICK u : u = [[Unopened EXCEPT !.task = c] EXCEPT !.step = first]
    OBVIOUS
  <2>3. evSess' = [evSess EXCEPT ![i] = u]
    <3>1. evSess' = [evSess EXCEPT ![i].task = c, ![i].step = first]
      BY <1>6, <1>7
    <3>2. evSess' = [evSess EXCEPT ![i] = [[evSess[i] EXCEPT !.task = c] EXCEPT !.step = first]]
      BY <3>1
    <3>3. QED
      BY <1>2, <2>2, <3>2
  <2>4. /\ DOMAIN u = SessionFields /\ u.step = first /\ u.task = c /\ u.seen = z /\ u.judged = z
        /\ u.cost = 0 /\ u.rec = 0 /\ u.built = 0 /\ u.own = 0 /\ u.base = 0
    BY <2>1, <2>2 DEF Unopened, SessionFields
  <2>5. QED
    BY <2>1, <2>3, <2>4
<1>10. Copy(0, 0).anchor = 0
  BY DEF Copy
<1>11. \A t \in DOMAIN evSess : KindOf(t)' = KindOf(t) /\ Closed(t)' = Closed(t)
  BY <1>4 DEF KindOf, Closed
<1>12. first \in 0 .. Closed(i) /\ first # 0
  BY <1>2, <1>6
<1>13. EvalShape'
  <2>1. \A t \in DOMAIN evSess' :
          /\ DOMAIN evSess'[t] = SessionFields /\ evSess'[t].step \in 0 .. Closed(t)'
          /\ evSess'[t].task.anchor \in Nat /\ evSess'[t].seen.anchor \in Nat
          /\ evSess'[t].judged.anchor \in Nat /\ evSess'[t].cost \in Nat
    <3>1. c.anchor \in Nat
      BY <1>5, <1>8
    <3>2. QED
      BY <1>9, <1>10, <1>11, <1>12, <3>1 DEF EvalInv, EvalShape
  <2>2. QED
    BY <1>1, <1>4, <1>5, <1>9, <2>1 DEF EvalInv, EvalShape
<1>14. ASSUME NEW t \in DOMAIN evSess \ {i}
       PROVE  SessionPlace(t)' /\ (SessionOpen(t)' <=> SessionOpen(t)) /\ Owed(t)' = Owed(t)
  <2>1. t \in DOMAIN evSess /\ t # i /\ t \in Nat \ {0}
    BY SessionSteps DEF EvalInv
  <2>2. CASE evRec' = evRec /\ evPast'.ids = evPast.ids
    BY <1>1, <1>4, <1>9, <1>13, <2>1, <2>2, SessionUntouched
  <2>3. CASE evRec.id = 0 /\ evRec'.id = evPast.ids + 1 /\ evPast'.ids = evPast.ids + 1 /\ evLock = 0
    <3>1. evPast'.ids >= evPast.ids
      BY <1>3, <2>3
    <3>2. QED
      BY <1>1, <1>4, <1>9, <1>13, <2>1, <2>3, <3>1, SessionUntouched
  <2>4. QED
    BY <1>5, <2>2, <2>3
<1>15. SessionPlace(i)'
  <2>1. CopyFits(i, c)'
    <3>1. c.anchor <= evPast'.ids
      BY <1>5, <1>8 DEF RecordPlace
    <3>2. evRec'.id # 0 => c.about = evRec'.about
      BY <1>1, <1>5, <1>8 DEF RecordPlace
    <3>3. QED
      BY <3>1, <3>2 DEF CopyFits
  <2>2. PICK z : z = Copy(0, 0)
    OBVIOUS
  <2>3. CopyFits(i, z)'
    BY <1>5, <1>10, <2>2 DEF CopyFits
  <2>4. 0 \in evPast'.kept
    BY <1>5 DEF RecordPlace
  <2>5. evSess'[i].task = c /\ evSess'[i].seen = z /\ evSess'[i].judged = z
    BY <1>9, <2>2
  <2>6. CopyFits(i, evSess[i].task)' /\ CopyFits(i, evSess[i].seen)' /\ CopyFits(i, evSess[i].judged)'
    BY <2>1, <2>3, <2>5 DEF CopyFits
  <2>7. QED
    BY <1>9, <1>12, <2>4, <2>6 DEF SessionPlace
<1>16. LockPlace'
  <2>1. evLock # 0 => evLock \in DOMAIN evSess \ {i} /\ SessionOpen(evLock)
    BY <1>2 DEF EvalInv, LockPlace
  <2>2. PICK l : l = evLock
    OBVIOUS
  <2>3. l # 0 => l \in DOMAIN evSess' /\ SessionOpen(l)'
    BY <1>9, <1>14, <2>1, <2>2
  <2>4. QED
    BY <1>1, <2>2, <2>3 DEF LockPlace, SessionOpen, KindOf
<1>17. Books'
  <2>1. Owed(i)' = 0 /\ Owed(i) = 0
    BY <1>2, <1>9 DEF Owed
  <2>2. QED
    BY <1>4, <1>13, <1>14, <2>1, BooksMoved DEF EvalInv
<1>18. QED
  BY <1>5, <1>9, <1>13, <1>14, <1>15, <1>16, <1>17 DEF EvalInv

\* What a commit writes fits the record, and rests on what is stored.
LEMMA ColumnsWritten ==
  ASSUME EvalInv, NEW i \in DOMAIN evSess, NEW row, StepOf(i) = "store", evLock \in {0, i},
         \/ evSess[i].built = 0 /\ row = evRec /\ evRec.id # 0
         \/ evSess[i].built # 0 /\ row = [NoRecord EXCEPT !.id = evPast.ids + 1, !.about = evSess[i].built],
         evRec' = Written(i, row), evTask' = evTask, DOMAIN evPast' = EvPastFields,
         evPast'.ids = evPast.ids + (IF evSess[i].built # 0 THEN 1 ELSE 0),
         evPast'.kept = evPast.kept \cup {evRec'.slots.quality.base}
  PROVE  /\ RecordPlace' /\ DOMAIN evRec' = {"id", "about", "slots"} /\ evRec'.id \in Nat
         /\ DOMAIN evRec'.slots = Kinds /\ evRec'.id = row.id /\ evRec'.about = row.about
<1> DEFINE s == evSess[i]
<1>1. /\ SessionPlace(i) /\ SessionOpen(i) /\ KindOf(i) \in Kinds /\ RecordPlace
      /\ evPast.ids \in Nat /\ evRec.id \in Nat /\ evRec.id <= evPast.ids
      /\ DOMAIN evRec = {"id", "about", "slots"} /\ DOMAIN evRec.slots = Kinds
      /\ s.seen.anchor \in Nat /\ s.judged.anchor \in Nat
  BY SessionSteps DEF EvalInv, EvalShape, RecordPlace
<1>2. CopyFits(i, s.seen) /\ CopyFits(i, s.judged)
  BY <1>1 DEF SessionPlace
<1>3. /\ DOMAIN row = {"id", "about", "slots"} /\ row.id \in Nat \ {0} /\ row.id <= evPast'.ids
      /\ row.about = evTask.attempt /\ DOMAIN row.slots = Kinds
      /\ \A k \in Kinds : /\ row.slots[k].base \in evPast.kept
                          /\ row.slots[k] # Unfilled /\ row.slots[k].anchor = row.id =>
                               row.slots[k].about = row.about
      /\ s.seen.anchor = row.id => s.seen.about = row.about
      /\ s.judged.anchor = row.id => s.judged.about = row.about
  <2>1. CASE s.built = 0
    <3>1. row = evRec /\ evRec.id # 0 /\ evPast'.ids = evPast.ids
      BY <1>1, <2>1
    <3>2. /\ s.seen.anchor = evRec.id => s.seen.about = evRec.about
          /\ s.judged.anchor = evRec.id => s.judged.about = evRec.about
      BY <1>2, <3>1 DEF CopyFits
    <3>3. QED
      BY <1>1, <3>1, <3>2 DEF RecordPlace, SlotsFitRecord, NoPhantomBasis
  <2>2. CASE s.built # 0
    <3>1. /\ row = [NoRecord EXCEPT !.id = evPast.ids + 1, !.about = s.built]
          /\ evPast'.ids = evPast.ids + 1
      BY <2>2
    <3>2. /\ DOMAIN row = {"id", "about", "slots"} /\ row.id = evPast.ids + 1 /\ row.about = s.built
          /\ DOMAIN row.slots = Kinds /\ \A k \in Kinds : row.slots[k] = Unfilled
      BY <3>1 DEF NoRecord
    <3>3. s.built = evTask.attempt
      BY <1>1, <2>2 DEF SessionPlace
    <3>4. /\ s.seen.anchor = evPast.ids + 1 => s.seen.about = s.built
          /\ s.judged.anchor = evPast.ids + 1 => s.judged.about = s.built
      <4>1. ~(evPast.ids + 1 <= evPast.ids)
        BY <1>1
      <4>2. QED
        BY <1>2, <2>2, <4>1 DEF CopyFits
    <3>5. Unfilled.base = 0 /\ 0 \in evPast.kept
      BY <1>1 DEF Unfilled, RecordPlace
    <3>6. row.id \in Nat \ {0} /\ row.id <= evPast'.ids
      BY <1>1, <3>1, <3>2
    <3>7. QED
      BY <3>2, <3>3, <3>4, <3>5, <3>6
  <2>3. QED
    BY <2>1, <2>2
<1>4. PICK mine, too, last :
        /\ last = (IF KindOf(i) = "quality" THEN evPast.versions + 1 ELSE s.base)
        /\ mine = [about |-> s.seen.about, anchor |-> s.seen.anchor, base |-> last]
        /\ too = [about |-> s.judged.about, anchor |-> s.judged.anchor, base |-> s.own]
  OBVIOUS
<1>5. PICK slots : slots = [k \in Kinds |->
                     IF k = KindOf(i) THEN mine
                     ELSE IF k = "quality" /\ s.own # 0 THEN too ELSE row.slots[k]]
  OBVIOUS
<1>6. evRec' = [row EXCEPT !.slots = slots]
  BY <1>4, <1>5 DEF Written
<1>7. /\ DOMAIN evRec' = {"id", "about", "slots"} /\ evRec'.id = row.id /\ evRec'.about = row.about
      /\ evRec'.slots = slots /\ DOMAIN slots = Kinds
  BY <1>3, <1>5, <1>6
<1>8. /\ mine.about = s.seen.about /\ mine.anchor = s.seen.anchor /\ mine.base = last
      /\ too.about = s.judged.about /\ too.anchor = s.judged.anchor /\ too.base = s.own
  BY <1>4
<1>9. SlotsFitRecord'
  <2>1. \A k \in Kinds : slots[k] = mine \/ slots[k] = too \/ slots[k] = row.slots[k]
    BY <1>5
  <2>2. \A k \in Kinds : slots[k] # Unfilled /\ slots[k].anchor = row.id => slots[k].about = row.about
    BY <1>3, <1>8, <2>1
  <2>3. QED
    BY <1>7, <2>2 DEF SlotsFitRecord
<1>10. evPast.kept \subseteq evPast'.kept /\ slots["quality"].base \in evPast'.kept /\ "quality" \in Kinds
  BY <1>7 DEF Kinds, StepsOf
<1>11. NoPhantomBasis'
  <2>1. CASE KindOf(i) = "quality"
    <3>1. \A k \in Kinds : k # "quality" => slots[k] = row.slots[k]
      BY <1>5, <2>1
    <3>2. QED
      BY <1>3, <1>7, <1>10, <3>1 DEF NoPhantomBasis
  <2>2. CASE KindOf(i) # "quality"
    <3>1. s.base \in evPast'.kept
      <4>1. CASE s.own = 0
        BY <1>1, <1>10, <4>1 DEF SessionPlace
      <4>2. CASE s.own # 0
        <5>1. s.base = s.own /\ slots["quality"] = too
          BY <1>1, <1>5, <1>10, <2>2, <4>2 DEF SessionPlace
        <5>2. QED
          BY <1>8, <1>10, <5>1
      <4>3. QED
        BY <4>1, <4>2
    <3>2. \A k \in Kinds : k # "quality" => slots[k] = mine \/ slots[k] = row.slots[k]
      BY <1>5
    <3>3. mine.base = s.base
      BY <1>4, <1>8, <2>2
    <3>4. \A k \in Kinds : slots[k].base \in evPast'.kept
      BY <1>3, <1>10, <3>1, <3>2, <3>3
    <3>5. QED
      BY <1>7, <3>4 DEF NoPhantomBasis
  <2>3. QED
    BY <2>1, <2>2
<1>12. 0 \in evPast'.kept
  BY <1>1, <1>10 DEF RecordPlace
<1>13. QED
  BY <1>3, <1>7, <1>9, <1>11, <1>12 DEF RecordPlace

\* A session commits, as far as the record it found is still there.
LEMMA SessionStores ==
  ASSUME EvalInv, NEW i \in DOMAIN evSess, Stores(i)
  PROVE  EvalInv'
<1> DEFINE s == evSess[i]
           row == IF s.built = 0 THEN evRec
                  ELSE [NoRecord EXCEPT !.id = evPast.ids + 1, !.about = s.built]
           void == s.rec = 0 /\ s.built = 0
           stale == s.rec # 0 /\ s.rec # evRec.id
<1>1. /\ StepOf(i) = "store" /\ evLock \in {0, i} /\ evTask' = evTask
      /\ evLock' = (IF evLock = i THEN 0 ELSE evLock)
      /\ evSess' = [evSess EXCEPT ![i] = [s EXCEPT !.step = s.step + 1]]
  BY DEF Stores, Freed, Goes
<1>2. /\ SessionOpen(i) /\ s.step + 1 = Closed(i) /\ DOMAIN s = SessionFields
      /\ Closed(i) \in Nat \ {0} /\ Closed(i) \notin DOMAIN StepsOf[KindOf(i)] /\ i \in Nat \ {0}
      /\ SessionPlace(i)
  BY <1>1, SessionSteps DEF EvalInv, EvalShape
<1>3. /\ DOMAIN evPast = EvPastFields /\ evPast.ids \in Nat /\ evPast.versions \in Nat
      /\ evPast.paid \in Nat /\ evPast.stored \in Nat /\ s.cost \in Nat /\ evRec.id \in Nat
      /\ DOMAIN evRec = {"id", "about", "slots"} /\ DOMAIN evRec.slots = Kinds
      /\ evRec.id <= evPast.ids
  BY DEF EvalInv, EvalShape, RecordPlace
<1>4. evRec' = IF void \/ stale THEN evRec ELSE Written(i, row)
  BY DEF Stores
<1>5. PICK ids, versions, kept, stored, lost :
        /\ ids = evPast.ids + (IF s.built # 0 THEN 1 ELSE 0)
        /\ versions = evPast.versions + (IF KindOf(i) = "quality" THEN 1 ELSE 0)
        /\ kept = (IF void \/ stale THEN evPast.kept ELSE evPast.kept \cup {evRec'.slots.quality.base})
        /\ stored = evPast.stored + (IF void \/ stale THEN 0 ELSE s.cost)
        /\ lost = evPast.lost \cup (IF void THEN {"unfinished"} ELSE {})
  OBVIOUS
<1>6. evPast' = [evPast EXCEPT !.ids = ids, !.versions = versions, !.kept = kept,
                               !.stored = stored, !.lost = lost]
  BY <1>5 DEF Stores
<1>7. /\ DOMAIN evPast' = EvPastFields /\ evPast'.setup = evPast.setup /\ evPast'.ids = ids
      /\ evPast'.versions = versions /\ evPast'.paid = evPast.paid /\ evPast'.stored = stored
      /\ evPast'.kept = kept /\ evPast'.lost = lost
  BY <1>3, <1>6 DEF EvPastFields
<1>8. /\ ids \in Nat /\ ids >= evPast.ids /\ versions \in Nat /\ stored \in Nat
      /\ evPast.kept \subseteq kept /\ (lost = {} => evPast.lost = {} /\ ~void)
  <2>1. ids \in Nat /\ ids >= evPast.ids
    BY <1>3, <1>5
  <2>2. versions \in Nat /\ stored \in Nat
    BY <1>3, <1>5
  <2>3. evPast.kept \subseteq kept /\ (lost = {} => evPast.lost = {} /\ ~void)
    BY <1>5
  <2>4. QED
    BY <2>1, <2>2, <2>3
<1>9. /\ s.built # 0 => evRec.id = 0 /\ s.built = evTask.attempt
      /\ evPast.lost = {} => ~stale
  BY <1>2 DEF SessionPlace
<1> HIDE DEF stale, void
<1>10. /\ RecordPlace' /\ DOMAIN evRec' = {"id", "about", "slots"} /\ evRec'.id \in Nat
       /\ DOMAIN evRec'.slots = Kinds
       /\ \/ evRec' = evRec
          \/ evRec'.id = evRec.id /\ evRec'.about = evRec.about
          \/ evRec.id = 0 /\ evRec'.id = evPast.ids + 1
  <2>1. CASE void \/ stale
    <3>1. evRec' = evRec /\ kept = evPast.kept
      BY <1>4, <1>5, <2>1
    <3>2. evRec.id <= ids
      BY <1>3, <1>8
    <3>3. QED
      BY <1>1, <1>3, <1>7, <3>1, <3>2 DEF EvalInv, RecordPlace, SlotsFitRecord, NoPhantomBasis
  <2>2. CASE ~(void \/ stale)
    <3>1. evRec' = Written(i, row) /\ kept = evPast.kept \cup {evRec'.slots.quality.base}
      BY <1>4, <1>5, <2>2
    <3>2. CASE s.built = 0
      <4>1. evRec.id # 0 /\ row = evRec
        BY <2>2, <3>2 DEF void, stale
      <4>2. /\ evPast'.ids = evPast.ids + (IF s.built # 0 THEN 1 ELSE 0)
            /\ evPast'.kept = evPast.kept \cup {evRec'.slots.quality.base}
        BY <1>5, <1>7, <3>1
      <4>3. evRec' = Written(i, evRec)
        BY <3>1, <4>1
      <4>4. /\ RecordPlace' /\ DOMAIN evRec' = {"id", "about", "slots"} /\ evRec'.id \in Nat
            /\ DOMAIN evRec'.slots = Kinds /\ evRec'.id = evRec.id /\ evRec'.about = evRec.about
        BY <1>1, <1>7, <3>2, <4>1, <4>2, <4>3, ColumnsWritten
      <4>5. QED
        BY <4>4
    <3>3. CASE s.built # 0
      <4>1. row = [NoRecord EXCEPT !.id = evPast.ids + 1, !.about = s.built]
        BY <3>3
      <4>2. row.id = evPast.ids + 1
        BY <4>1 DEF NoRecord
      <4>3. PICK r : r = row
        OBVIOUS
      <4>4. /\ evRec' = Written(i, r) /\ s.built # 0
            /\ r = [NoRecord EXCEPT !.id = evPast.ids + 1, !.about = s.built]
        BY <3>1, <3>3, <4>1, <4>3
      <4>5. /\ evPast'.ids = evPast.ids + (IF s.built # 0 THEN 1 ELSE 0)
            /\ evPast'.kept = evPast.kept \cup {evRec'.slots.quality.base}
        BY <1>5, <1>7, <3>1
      <4>6. /\ RecordPlace' /\ DOMAIN evRec' = {"id", "about", "slots"} /\ evRec'.id \in Nat
            /\ DOMAIN evRec'.slots = Kinds /\ evRec'.id = r.id
        BY <1>1, <1>7, <4>4, <4>5, ColumnsWritten
      <4>7. QED
        BY <1>9, <3>3, <4>2, <4>3, <4>6
    <3>4. QED
      BY <3>2, <3>3
  <2>3. QED
    BY <2>1, <2>2
<1>11. PICK t : t = [s EXCEPT !.step = s.step + 1]
  OBVIOUS
<1>12. /\ DOMAIN t = SessionFields /\ t.step = Closed(i) /\ t.task = s.task /\ t.seen = s.seen
       /\ t.judged = s.judged /\ t.cost = s.cost
  BY <1>2, <1>11 DEF SessionFields
<1>13. /\ DOMAIN evSess' = DOMAIN evSess /\ evSess'[i] = t
       /\ \A k \in DOMAIN evSess \ {i} : evSess'[k] = evSess[k]
  BY <1>1, <1>11
<1>14. \A k \in DOMAIN evSess : KindOf(k)' = KindOf(k) /\ Closed(k)' = Closed(k)
  BY <1>7 DEF KindOf, Closed
<1>15. EvalShape'
  <2>1. \A k \in DOMAIN evSess' :
          /\ DOMAIN evSess'[k] = SessionFields /\ evSess'[k].step \in 0 .. Closed(k)'
          /\ evSess'[k].task.anchor \in Nat /\ evSess'[k].seen.anchor \in Nat
          /\ evSess'[k].judged.anchor \in Nat /\ evSess'[k].cost \in Nat
    <3>1. Closed(i) \in 0 .. Closed(i)
      BY <1>2
    <3>2. QED
      BY <1>12, <1>13, <1>14, <3>1 DEF EvalInv, EvalShape
  <2>2. QED
    BY <1>1, <1>3, <1>7, <1>8, <1>10, <1>13, <2>1 DEF EvalInv, EvalShape
<1>16. ~SessionOpen(i)' /\ t.step # 0
  BY <1>2, <1>12, <1>13, <1>14 DEF SessionOpen
<1>17. SessionPlace(i)'
  BY <1>13, <1>16 DEF SessionPlace
<1>18. ASSUME NEW k \in DOMAIN evSess \ {i}
       PROVE  SessionPlace(k)' /\ (SessionOpen(k)' <=> SessionOpen(k)) /\ Owed(k)' = Owed(k)
  <2>1. k \in Nat \ {0}
    BY SessionSteps DEF EvalInv
  <2>2. evLock # k
    BY <1>1, <2>1
  <2>3. \/ evRec'.id = evRec.id /\ evRec'.about = evRec.about
        \/ evRec.id = 0 /\ evRec'.id = evPast.ids + 1
    BY <1>10
  <2>4. lost = {} => evPast.lost = {} /\ (evRec.id = 0 \/ evRec'.id = evRec.id)
    BY <1>8, <2>3
  <2>5. QED
    BY <1>7, <1>8, <1>13, <1>15, <2>2, <2>3, <2>4, SessionUntouched
<1>19. LockPlace'
  BY <1>1, <1>2 DEF LockPlace
<1>20. Books'
  <2>1. Owed(i) = s.cost /\ Owed(i)' = 0
    BY <1>2, <1>16 DEF Owed
  <2>2. lost = {} => evPast.lost = {} /\ stored = evPast.stored + s.cost
    BY <1>5, <1>8, <1>9
  <2>3. evPast'.lost = {} =>
          /\ evPast.lost = {}
          /\ evPast'.paid + evPast.stored + Owed(i) = evPast.paid + evPast'.stored + Owed(i)'
    BY <1>3, <1>7, <2>1, <2>2
  <2>4. QED
    BY <1>7, <1>15, <1>18, <2>3, BooksMoved DEF EvalInv
<1>21. QED
  BY <1>10, <1>13, <1>15, <1>17, <1>18, <1>19, <1>20 DEF EvalInv

\* Steps beside the sessions.
LEMMA EvalBeside ==
  ASSUME EvalInv, EvTaskRetried \/ EvTaskEnds \/ BackfillBuilds \/ RetentionPrunes \/ UNCHANGED evVars
  PROVE  EvalInv'
<1>1. /\ evSess' = evSess /\ evLock' = evLock
  BY DEF EvTaskRetried, EvTaskEnds, BackfillBuilds, RetentionPrunes, evVars
<1>2. /\ DOMAIN evPast = EvPastFields /\ evPast.ids \in Nat /\ evRec.id \in Nat
      /\ DOMAIN evRec = {"id", "about", "slots"} /\ DOMAIN evRec.slots = Kinds
      /\ DOMAIN evTask = {"attempt", "ended"}
  BY DEF EvalInv, EvalShape
<1>3. ASSUME DOMAIN evTask' = {"attempt", "ended"}, RecordPlace',
             DOMAIN evRec' = {"id", "about", "slots"}, evRec'.id \in Nat, DOMAIN evRec'.slots = Kinds,
             DOMAIN evPast' = EvPastFields, evPast'.setup = evPast.setup, evPast'.ids \in Nat,
             evPast'.versions = evPast.versions, evPast'.paid = evPast.paid,
             evPast'.stored = evPast.stored, evPast'.kept = evPast.kept,
             evPast'.lost = {} => evPast.lost = {} /\ (evRec.id = 0 \/ evRec'.id = evRec.id),
             \/ evLock = 0 /\ evPast'.ids >= evPast.ids
             \/ evPast'.ids = evPast.ids /\ evTask'.attempt = evTask.attempt,
             \/ evRec'.id = 0
             \/ evRec'.id = evRec.id /\ evRec'.about = evRec.about
             \/ evRec.id = 0 /\ evRec'.id = evPast.ids + 1 /\ evLock = 0
      PROVE  EvalInv'
  <2>1. \A k \in DOMAIN evSess : KindOf(k)' = KindOf(k) /\ Closed(k)' = Closed(k)
    BY <1>3 DEF KindOf, Closed
  <2>2. EvalShape'
    BY <1>1, <1>3, <2>1 DEF EvalInv, EvalShape
  <2>3. ASSUME NEW k \in DOMAIN evSess
        PROVE  SessionPlace(k)' /\ (SessionOpen(k)' <=> SessionOpen(k)) /\ Owed(k)' = Owed(k)
    <3>1. k \in Nat \ {0}
      BY SessionSteps DEF EvalInv
    <3>2. QED
      BY <1>1, <1>3, <2>2, <3>1, SessionUntouched
  <2>4. LockPlace'
    <3>1. PICK l : l = evLock
      OBVIOUS
    <3>2. l # 0 => l \in DOMAIN evSess' /\ SessionOpen(l)'
      BY <1>1, <2>3, <3>1 DEF EvalInv, LockPlace
    <3>3. QED
      BY <1>1, <3>1, <3>2 DEF LockPlace, SessionOpen, KindOf
  <2>5. Books'
    <3>1. CASE DOMAIN evSess # {}
      <4>1. PICK k \in DOMAIN evSess : TRUE
        BY <3>1
      <4>2. /\ Owed(k) \in Nat /\ Owed(k)' = Owed(k) /\ evPast.paid \in Nat /\ evPast.stored \in Nat
        BY <2>3 DEF EvalInv, EvalShape, Owed
      <4>3. evPast'.paid + evPast.stored + Owed(k) = evPast.paid + evPast'.stored + Owed(k)'
        BY <1>3, <4>2
      <4>4. QED
        BY <1>3, <2>2, <2>3, <4>3, BooksMoved DEF EvalInv
    <3>2. CASE DOMAIN evSess = {}
      <4>1. 1 .. Len(evPast.setup.who) = {} 
        <5>1. PICK who : who = evPast.setup.who
          OBVIOUS
        <5>2. who \in Seq([kind : Kinds, via : {"api", "job", "child"}]) /\ DOMAIN who = {}
          BY <3>2, <5>1, EvalAssumption DEF EvalInv, EvalShape
        <5>3. DOMAIN who = 1 .. Len(who)
          BY <5>2
        <5>4. QED
          BY <5>1, <5>2, <5>3
      <4>2. QED
        BY <1>3, <4>1 DEF EvalInv, Books
    <3>3. QED
      BY <3>1, <3>2
  <2>6. QED
    BY <1>1, <1>3, <2>2, <2>3, <2>4, <2>5 DEF EvalInv
<1>4. CASE EvTaskRetried
  <2>1. /\ evLock = 0 /\ evRec.id = 0 /\ evRec' = evRec
        /\ evTask' = [attempt |-> evTask.attempt + 1, ended |-> FALSE]
        /\ evPast' = [evPast EXCEPT !.retries = evPast.retries - 1]
    BY <1>4 DEF EvTaskRetried
  <2>2. /\ DOMAIN evPast' = EvPastFields /\ evPast'.setup = evPast.setup /\ evPast'.ids = evPast.ids
        /\ evPast'.versions = evPast.versions /\ evPast'.paid = evPast.paid
        /\ evPast'.stored = evPast.stored /\ evPast'.kept = evPast.kept /\ evPast'.lost = evPast.lost
    BY <1>2, <2>1 DEF EvPastFields
  <2>3. RecordPlace'
    BY <2>1, <2>2 DEF EvalInv, RecordPlace, SlotsFitRecord, NoPhantomBasis
  <2>4. DOMAIN evTask' = {"attempt", "ended"} /\ evPast'.ids >= evPast.ids
    BY <1>2, <2>1, <2>2
  <2>5. QED
    BY <1>2, <1>3, <2>1, <2>2, <2>3, <2>4
<1>5. CASE EvTaskEnds
  <2>1. evTask' = [evTask EXCEPT !.ended = TRUE] /\ evRec' = evRec /\ evPast' = evPast
    BY <1>5 DEF EvTaskEnds
  <2>2. DOMAIN evTask' = {"attempt", "ended"} /\ evTask'.attempt = evTask.attempt
    BY <1>2, <2>1
  <2>3. RecordPlace'
    BY <2>1, <2>2 DEF EvalInv, RecordPlace, SlotsFitRecord, NoPhantomBasis
  <2>4. QED
    BY <1>2, <1>3, <2>1, <2>2, <2>3
<1>6. CASE BackfillBuilds
  <2>1. /\ evRec.id = 0 /\ evLock = 0 /\ evRec' = Archived /\ evTask' = evTask
        /\ evPast' = [evPast EXCEPT !.ids = evPast.ids + 1]
    BY <1>6 DEF BackfillBuilds
  <2>2. /\ DOMAIN evPast' = EvPastFields /\ evPast'.setup = evPast.setup
        /\ evPast'.ids = evPast.ids + 1
        /\ evPast'.versions = evPast.versions /\ evPast'.paid = evPast.paid
        /\ evPast'.stored = evPast.stored /\ evPast'.kept = evPast.kept /\ evPast'.lost = evPast.lost
    BY <1>2, <2>1 DEF EvPastFields
  <2>3. /\ RecordPlace' /\ DOMAIN evRec' = {"id", "about", "slots"} /\ evRec'.id \in Nat
        /\ DOMAIN evRec'.slots = Kinds
        /\ evRec' = evRec \/ evRec'.id = evPast.ids + 1
    BY <2>1, <2>2, RecordArchived
  <2>4. evPast'.ids \in Nat /\ evPast'.ids >= evPast.ids
    BY <1>2, <2>2
  <2>5. QED
    BY <1>2, <1>3, <2>1, <2>2, <2>3, <2>4
<1>7. CASE RetentionPrunes
  <2>1. /\ evRec' = NoRecord /\ evTask' = evTask
        /\ evPast' = [evPast EXCEPT !.prunes = evPast.prunes - 1, !.lost = evPast.lost \cup {"pruned"}]
    BY <1>7 DEF RetentionPrunes
  <2>2. PICK lost : lost = evPast.lost \cup {"pruned"} /\ lost # {}
    OBVIOUS
  <2>3. /\ DOMAIN evPast' = EvPastFields /\ evPast'.setup = evPast.setup
        /\ evPast'.ids = evPast.ids
        /\ evPast'.versions = evPast.versions /\ evPast'.paid = evPast.paid
        /\ evPast'.stored = evPast.stored /\ evPast'.kept = evPast.kept /\ evPast'.lost # {}
    BY <1>2, <2>1, <2>2 DEF EvPastFields
  <2>4. /\ DOMAIN evRec' = {"id", "about", "slots"} /\ evRec'.id = 0 /\ DOMAIN evRec'.slots = Kinds
        /\ \A k \in Kinds : evRec'.slots[k] = Unfilled
    BY <2>1 DEF NoRecord
  <2>5. SlotsFitRecord'
    BY <2>4 DEF SlotsFitRecord
  <2>6. 0 \in evPast.kept /\ 0 <= evPast.ids
    BY <1>2 DEF EvalInv, RecordPlace
  <2>7. NoPhantomBasis'
    BY <2>3, <2>4, <2>6 DEF NoPhantomBasis, Unfilled
  <2>8. RecordPlace'
    BY <2>3, <2>4, <2>5, <2>6, <2>7 DEF RecordPlace
  <2>9. QED
    BY <1>2, <1>3, <2>1, <2>3, <2>4, <2>8
<1>8. CASE UNCHANGED evVars
  <2>1. evTask' = evTask /\ evRec' = evRec /\ evPast' = evPast
    BY <1>8 DEF evVars
  <2>2. RecordPlace'
    BY <2>1 DEF EvalInv, RecordPlace, SlotsFitRecord, NoPhantomBasis
  <2>3. QED
    BY <1>2, <1>3, <2>1, <2>2
<1>9. QED
  BY <1>4, <1>5, <1>6, <1>7, <1>8

\* Where nobody owes anything, everything that was paid is stored.
LEMMA NobodyOwes ==
  ASSUME EvalInv, evPast.lost = {}, \A i \in DOMAIN evSess : Owed(i) = 0
  PROVE  evPast.paid = evPast.stored
<1>1. PICK n : n = Len(evPast.setup.who)
  OBVIOUS
<1>2. PICK f \in [0 .. n -> Int] :
        /\ f[0] = 0
        /\ \A i \in 1 .. n : f[i] = f[i - 1] + Owed(i)
        /\ evPast.paid = evPast.stored + f[n]
  BY <1>1 DEF EvalInv, Books
<1>3. n \in Nat /\ DOMAIN evSess = 1 .. n
  <2>1. PICK who : who = evPast.setup.who
    OBVIOUS
  <2>2. who \in Seq([kind : Kinds, via : {"api", "job", "child"}]) /\ DOMAIN evSess = DOMAIN who
    BY <2>1, EvalAssumption DEF EvalInv, EvalShape
  <2>3. Len(who) \in Nat /\ DOMAIN who = 1 .. Len(who)
    BY <2>2
  <2>4. QED
    BY <1>1, <2>1, <2>2, <2>3
<1>4. \A k \in 0 .. n : f[k] = 0
  <2>1. SUFFICES ASSUME {k \in 0 .. n : f[k] # 0} # {}
                 PROVE  FALSE
    OBVIOUS
  <2>2. {k \in 0 .. n : f[k] # 0} \subseteq Nat
    BY <1>3
  <2>3. PICK m \in {k \in 0 .. n : f[k] # 0} : \A k \in {k \in 0 .. n : f[k] # 0} : m <= k
    BY <2>1, <2>2, LeastNumber
  <2>4. m \in 1 .. n /\ m - 1 \in 0 .. n /\ ~(m <= m - 1)
    BY <1>2, <1>3, <2>3
  <2>5. f[m - 1] = 0
    BY <2>3, <2>4
  <2>6. f[m] = f[m - 1] + 0
    BY <1>2, <1>3, <2>4
  <2>7. QED
    BY <2>3, <2>5, <2>6
<1>5. f[n] = 0 /\ evPast.stored \in Nat
  BY <1>3, <1>4 DEF EvalInv, EvalShape
<1>6. QED
  BY <1>2, <1>5

\* What EvaluationsSound says of the evaluators (judge.py, calibration.py, trajectory.py
\* and the others) holds for any number of sessions, retries, faults and prunes: the
\* columns of a record describe its attempt and rest on stored profiles, no paid answer
\* disappears unexplained, and the row of the task is held by an open session only.
THEOREM EvaluationsAreSound == EvalSpec => []EvaluationsSound
<1>1. EvalInit => EvalInv
  BY EvalInvInit
<1>2. EvalInv /\ [EvalNext]_evVars => EvalInv'
  <2>1. SUFFICES ASSUME EvalInv, [EvalNext]_evVars
                 PROVE  EvalInv'
    OBVIOUS
  <2>2. ASSUME NEW i \in DOMAIN evSess, Opens(i) \/ SessionStep(i) \/ Aborts(i)
        PROVE  EvalInv'
    BY <2>1, <2>2, SessionOpens, SessionGoesOn, RecordSought, SessionGivenUp, SessionStores
       DEF SessionStep
  <2>3. CASE EvTaskRetried \/ EvTaskEnds \/ BackfillBuilds \/ RetentionPrunes \/ UNCHANGED evVars
    BY <2>1, <2>3, EvalBeside
  <2>4. QED
    BY <2>1, <2>2, <2>3 DEF EvalNext
<1>3. EvalInv => EvaluationsSound
  <2>1. SUFFICES ASSUME EvalInv
                 PROVE  EvaluationsSound
    OBVIOUS
  <2>2. SlotsFitRecord /\ NoPhantomBasis
    BY <2>1 DEF EvalInv, RecordPlace
  <2>3. PaidIsStored
    <3>1. SUFFICES ASSUME evPast.lost = {}, \A i \in DOMAIN evSess : StepOf(i) \in {"unopened", "closed"}
                   PROVE  evPast.paid = evPast.stored
      BY DEF PaidIsStored
    <3>2. \A i \in DOMAIN evSess : Owed(i) = 0
      BY <2>1, <3>1, SessionSteps DEF EvalInv, Owed
    <3>3. QED
      BY <2>1, <3>1, <3>2, NobodyOwes
  <2>4. LockIsHeld
    BY <2>1, SessionSteps DEF EvalInv, LockPlace, LockIsHeld
  <2>5. QED
    BY <2>2, <2>3, <2>4 DEF EvaluationsSound
<1>4. QED
  BY <1>1, <1>2, <1>3, PTL DEF EvalSpec

-----------------------------------------------------------------------------
(* Repeated runs: the invariant                                            *)

RunFields == {"setup", "status", "base", "other", "cost", "report"}
RunPastFields == {"raced", "lost", "deleted", "asked", "faults", "users"}
TickFields == {"pc", "draft", "dirty", "seen", "loaded", "left", "from"}
Inputs == {"clean", "blank"} \cup UNION {Range(s.transforms) : s \in RunSetups}
Children == 1 .. Len(offspring)

Names(r) == {r.base[n] : n \in DOMAIN r.base} \cup {r.other[n] : n \in DOMAIN r.other}

\* The row of a run, stored or being written: it lists children that were made.
RunShape(r) ==
  /\ DOMAIN r = RunFields /\ r.setup = run.setup
  /\ r.base \in Seq(Nat) /\ r.other \in Seq(Nat) /\ Names(r) \subseteq Children

ChildShape ==
  offspring \in Seq([input : Inputs, status : {"ready", "gone"} \cup ChildTerminal, judged : BOOLEAN])

NoneGone == ~past.deleted => \A i \in Children : offspring[i].status # "gone"

Ready(S) == {i \in S : offspring[i].status = "ready"}
Alive(r) == {i \in Names(r) : offspring[i].status # "gone"}

\* At most n in flight, and less than the cap with n in flight beyond it.
Within(made, flying) ==
  /\ flying <= InflightTarget
  /\ run.setup.cap > 0 => made < run.setup.cap + InflightTarget

\* The first m children are listed in their order, clean ones before the others.
InOrder(r, m) ==
  /\ Len(r.base) + Len(r.other) = m /\ m <= Planned
  /\ Len(r.base) <= run.setup.base /\ (Len(r.other) > 0 => Len(r.base) = run.setup.base)
  /\ \A n \in 1 .. Len(r.base) : r.base[n] = n
  /\ \A n \in 1 .. Len(r.other) : r.other[n] = Len(r.base) + n

AsPlanned == source # "gone" => \A n \in Children : offspring[n].input = Plan(run.setup)[n]

\* The stored row keeps its promises.
StoredPlace ==
  /\ Within(Cardinality(Alive(run)), Cardinality(Ready(Names(run))))
  /\ run.status \in {"done", "capped"} =>
       /\ \A i \in Names(run) : offspring[i].status # "ready"
       /\ run.report.success + run.report.failed = run.report.executed
       /\ run.status = "done" <=> run.report.executed >= Planned

\* Nothing is left out of the row by a tick at rest.
RestPlace ==
  (\A k \in RunTicks : tick[k].pc = "idle") =>
    /\ ~past.lost => Children \subseteq Names(run)
    /\ ~past.lost /\ ~past.deleted => InOrder(run, Len(offspring)) /\ AsPlanned

\* A tick at work: it is alone, what it has not changed is as stored, and it counts
\* what it lists.
WorkPlace(k) ==
  LET t == tick[k] IN
  /\ DOMAIN t = TickFields /\ t.pc \in {"evaluate", "create"}
  /\ \A j \in RunTicks \ {k} : tick[j].pc = "idle"
  /\ run.status \notin RunTerminal /\ t.draft.status \notin RunTerminal
  /\ RunShape(t.draft)
  /\ \A f \in RunFields : f \in t.dirty \/ t.draft[f] = run[f]
  /\ Alive(t.draft) \subseteq t.loaded /\ t.loaded \subseteq Names(t.draft)
  /\ Names(run) \subseteq Names(t.draft)
  /\ Names(t.draft) \subseteq Names(run) \cup t.loaded
  /\ DOMAIN t.seen \subseteq t.loaded
  /\ \A i \in DOMAIN t.seen :
       /\ t.seen[i] \in {"ready"} \cup ChildTerminal
       /\ t.seen[i] # "ready" => offspring[i].status = t.seen[i]
  /\ source # "gone" => t.from # "gone"
  /\ t.pc = "evaluate" =>
       /\ t.draft.base = run.base /\ t.draft.other = run.other /\ t.loaded = DOMAIN t.seen
       /\ Within(Made(t), Flying(t))
  /\ t.pc = "create" =>
       /\ t.left \in Nat /\ Made(t) + t.left <= Planned
       /\ Within(Made(t) + t.left, Cardinality(Ready(t.loaded)) + t.left)
  /\ ~past.lost => Children \subseteq Names(t.draft)
  /\ ~past.lost /\ ~past.deleted =>
       /\ InOrder(t.draft, Len(offspring)) /\ t.loaded = Children /\ AsPlanned
       /\ \E m \in 0 .. Len(offspring) : InOrder(run, m)

RunsInv ==
  /\ DOMAIN past = RunPastFields /\ DOMAIN tick = RunTicks
  /\ ~past.raced =>
       /\ ChildShape /\ NoneGone
       /\ run.setup \in RunSetups /\ RunShape(run) /\ StoredPlace /\ RestPlace
       /\ \A k \in RunTicks : tick[k] = Idle \/ WorkPlace(k)

-----------------------------------------------------------------------------
(* Repeated runs: the steps                                                *)

\* A row names what it lists.
LEMMA NamesListed ==
  ASSUME NEW r, r.base \in Seq(Nat), r.other \in Seq(Nat)
  PROVE  Range(Listed(r)) = Names(r)
<1>1. PICK b : b = r.base
  OBVIOUS
<1>2. PICK o : o = r.other
  OBVIOUS
<1>3. /\ b \in Seq(Nat) /\ o \in Seq(Nat) /\ Len(b) \in Nat /\ Len(o) \in Nat
      /\ DOMAIN b = 1 .. Len(b) /\ DOMAIN o = 1 .. Len(o)
      /\ DOMAIN (b \o o) = 1 .. Len(b) + Len(o)
  BY <1>1, <1>2
<1>4. ASSUME NEW x
      PROVE  x \in Range(b \o o) <=> (\E n \in DOMAIN b : x = b[n]) \/ (\E n \in DOMAIN o : x = o[n])
  <2>1. ASSUME NEW n \in DOMAIN b
        PROVE  n \in DOMAIN (b \o o) /\ (b \o o)[n] = b[n]
    BY <1>3, <2>1
  <2>2. ASSUME NEW n \in DOMAIN o
        PROVE  Len(b) + n \in DOMAIN (b \o o) /\ (b \o o)[Len(b) + n] = o[n]
    BY <1>3, <2>2
  <2>3. ASSUME NEW n \in DOMAIN (b \o o)
        PROVE  (n \in DOMAIN b /\ (b \o o)[n] = b[n])
               \/ (n - Len(b) \in DOMAIN o /\ (b \o o)[n] = o[n - Len(b)])
    BY <1>3, <2>3
  <2>4. ASSUME NEW n \in DOMAIN (b \o o), x = (b \o o)[n]
        PROVE  (\E i \in DOMAIN b : x = b[i]) \/ (\E i \in DOMAIN o : x = o[i])
    BY <2>3, <2>4
  <2>5. QED
    BY <2>1, <2>2, <2>4 DEF Range
<1>5. QED
  BY <1>1, <1>2, <1>4 DEF Names, Listed

\* The numbers a set-up is made of.
LEMMA SetupNumbers ==
  ASSUME NEW s \in RunSetups
  PROVE  /\ s.base \in Nat /\ s.cap \in Nat /\ s.agents \in Nat /\ Total(s) \in Nat /\ s.base <= Total(s)
         /\ \A n \in 1 .. Total(s) :
              Plan(s)[n] \in Inputs /\ Column(Plan(s)[n]) = (IF n <= s.base THEN "base" ELSE "other")
<1>1. PICK b : b = s.base
  OBVIOUS
<1>2. PICK p : p = s.per
  OBVIOUS
<1>3. PICK t : t = s.transforms
  OBVIOUS
<1>4. /\ b \in Nat /\ p \in Nat /\ s.cap \in Nat /\ s.agents \in Nat
      /\ t \in Seq(STRING) /\ Len(t) \in Nat /\ \A i \in 1 .. Len(t) : t[i] \in Inputs /\ t[i] # "clean"
  BY <1>1, <1>2, <1>3, RunsAssumption DEF Range, Inputs
<1>5. Len(t) * p \in Nat
  BY <1>4
<1>6. /\ Total(s) \in Nat /\ b <= Total(s) /\ Total(s) <= b + Len(t) * p
  BY <1>1, <1>2, <1>3, <1>4, <1>5 DEF Total
<1>7. ASSUME NEW n \in 1 .. Total(s), ~(n <= b)
      PROVE  ((n - b - 1) \div p) + 1 \in 1 .. Len(t)
  <2>1. PICK q : q = n - b - 1
    OBVIOUS
  <2>2. q \in Nat /\ q < Len(t) * p
    BY <1>4, <1>5, <1>6, <1>7, <2>1
  <2>3. p > 0
    <3>1. SUFFICES ASSUME p = 0
                   PROVE  FALSE
      BY <1>4
    <3>2. QED
      BY <1>4, <2>2, <3>1
  <2>4. PICK d : d = q \div p
    OBVIOUS
  <2>5. d \in Int /\ p * d <= q /\ q < p * d + p
    BY <1>4, <2>2, <2>3, <2>4
  <2>6. d >= 0
    <3>1. SUFFICES ASSUME d <= -1
                   PROVE  FALSE
      BY <2>5
    <3>2. p * d <= -p
      BY <1>4, <2>3, <2>5, <3>1
    <3>3. QED
      BY <1>4, <2>2, <2>5, <3>2
  <2>7. d < Len(t)
    <3>1. SUFFICES ASSUME d >= Len(t)
                   PROVE  FALSE
      BY <1>4, <2>5
    <3>2. p * d >= Len(t) * p
      BY <1>4, <2>3, <2>5, <3>1
    <3>3. QED
      BY <1>4, <1>5, <2>2, <2>5, <3>2
  <2>8. QED
    BY <1>4, <2>1, <2>4, <2>5, <2>6, <2>7
<1>8. ASSUME NEW n \in 1 .. Total(s)
      PROVE  Plan(s)[n] \in Inputs /\ Column(Plan(s)[n]) = (IF n <= b THEN "base" ELSE "other")
  <2>1. Plan(s)[n] = (IF n <= b THEN "clean" ELSE t[((n - b - 1) \div p) + 1])
    BY <1>1, <1>2, <1>3 DEF Plan
  <2>2. CASE n <= b
    <3>0. "clean" \in Inputs
      BY DEF Inputs
    <3>1. Plan(s)[n] = "clean"
      BY <2>1, <2>2
    <3>2. Column(Plan(s)[n]) = "base"
      BY <3>1 DEF Column
    <3>3. QED
      BY <2>2, <3>0, <3>1, <3>2
  <2>3. CASE ~(n <= b)
    BY <1>4, <1>7, <2>1, <2>3 DEF Column
  <2>4. QED
    BY <2>2, <2>3
<1>9. QED
  BY <1>1, <1>4, <1>6, <1>8

\* Sets of children can be counted.
LEMMA CountedSets ==
  ASSUME offspring \in Seq([input : Inputs, status : {"ready", "gone"} \cup ChildTerminal, judged : BOOLEAN]),
         NEW S, S \subseteq Children
  PROVE  /\ IsFiniteSet(S) /\ Cardinality(S) \in Nat /\ Cardinality(Children) = Len(offspring)
         /\ \A T \in SUBSET S : IsFiniteSet(T) /\ Cardinality(T) \in Nat /\ Cardinality(T) <= Cardinality(S)
<1>1. Len(offspring) \in Nat
  OBVIOUS
<1>2. IsFiniteSet(Children) /\ Cardinality(Children) = Len(offspring)
  <2>1. PICK n \in Nat : n = Len(offspring)
    BY <1>1
  <2>2. IsFiniteSet(1 .. n) /\ Cardinality(1 .. n) = IF 1 > n THEN 0 ELSE n - 1 + 1
    BY FS_Interval
  <2>3. Cardinality(1 .. n) = n
    BY <2>2
  <2>4. QED
    BY <2>1, <2>2, <2>3 DEF Children
<1>3. IsFiniteSet(S)
  BY <1>2, FS_Subset
<1>4. QED
  BY <1>2, <1>3, FS_Subset, FS_CardinalityType

\* What the table of tasks holds of a child.
LEMMA ChildTypes ==
  ASSUME ChildShape, NEW i \in Children
  PROVE  /\ offspring[i].input \in Inputs /\ offspring[i].judged \in BOOLEAN
         /\ offspring[i].status \in {"ready", "gone"} \cup ChildTerminal
         /\ DOMAIN offspring[i] = {"input", "status", "judged"}
<1>1. offspring[i] \in [input : Inputs, status : {"ready", "gone"} \cup ChildTerminal, judged : BOOLEAN]
  <2>1. PICK R : R = [input : Inputs, status : {"ready", "gone"} \cup ChildTerminal, judged : BOOLEAN]
    OBVIOUS
  <2>2. offspring \in Seq(R) /\ i \in 1 .. Len(offspring)
    BY <2>1 DEF ChildShape, Children
  <2>3. offspring[i] \in R
    BY <2>2
  <2>4. QED
    BY <2>1, <2>3
<1>2. QED
  BY <1>1

\* A run that was just asked for has no children.
LEMMA RunsInvInit == RunsInit => RunsInv
<1>1. SUFFICES ASSUME RunsInit
               PROVE  RunsInv
  OBVIOUS
<1>2. PICK s \in RunSetups :
        /\ run = [setup |-> s, status |-> "pending", base |-> <<>>, other |-> <<>>, cost |-> 0,
                  report |-> [executed |-> 0, success |-> 0, failed |-> 0]]
        /\ past = [raced |-> FALSE, lost |-> FALSE, deleted |-> FALSE, asked |-> FALSE,
                   faults |-> s.faults, users |-> s.users]
  BY <1>1 DEF RunsInit
<1>3. /\ offspring = <<>> /\ tick = [k \in RunTicks |-> Idle] /\ source = "here"
  BY <1>1 DEF RunsInit
<1>4. DOMAIN past = RunPastFields /\ DOMAIN tick = RunTicks
  BY <1>2, <1>3 DEF RunPastFields
<1>5. ChildShape /\ Len(offspring) = 0 /\ Children = {}
  BY <1>3 DEF ChildShape, Children
<1>6. /\ DOMAIN run = RunFields /\ run.setup = s /\ run.base = <<>> /\ run.other = <<>>
      /\ run.status = "pending"
  BY <1>2 DEF RunFields
<1>7. Names(run) = {}
  BY <1>6 DEF Names
<1>8. RunShape(run)
  BY <1>6, <1>7 DEF RunShape
<1>9. InflightTarget \in Nat /\ s.cap \in Nat /\ Planned \in Nat
  BY <1>6, SetupNumbers DEF InflightTarget, Planned
<1>10. StoredPlace
  <2>1. Alive(run) = {} /\ Ready(Names(run)) = {}
    BY <1>7 DEF Alive, Ready
  <2>2. CASE run.setup.cap > 0
    <3>1. 0 < run.setup.cap + InflightTarget
      BY <1>6, <1>9, <2>2
    <3>2. QED
      BY <1>6, <1>9, <2>1, <3>1, FS_EmptySet DEF StoredPlace, Within
  <2>3. CASE ~(run.setup.cap > 0)
    BY <1>6, <1>9, <2>1, <2>3, FS_EmptySet DEF StoredPlace, Within
  <2>4. QED
    BY <2>2, <2>3
<1>11. RestPlace
  <2>1. s.base \in Nat
    BY SetupNumbers
  <2>2. Len(run.base) = 0 /\ Len(run.other) = 0
    BY <1>6
  <2>3. InOrder(run, 0)
    BY <1>6, <1>9, <2>1, <2>2 DEF InOrder
  <2>4. AsPlanned
    BY <1>5 DEF AsPlanned
  <2>5. QED
    BY <1>5, <2>3, <2>4 DEF RestPlace
<1>12. (\A k \in RunTicks : tick[k] = Idle) /\ NoneGone
  BY <1>3, <1>5 DEF NoneGone
<1>13. QED
  BY <1>4, <1>5, <1>6, <1>8, <1>10, <1>11, <1>12 DEF RunsInv

\* Where a tick works it works alone.
LEMMA WorksAlone ==
  ASSUME RunsInv, ~past.raced, NEW k \in RunTicks, tick[k].pc # "idle"
  PROVE  WorkPlace(k) /\ \A j \in RunTicks \ {k} : tick[j] = Idle
<1>1. WorkPlace(k)
  BY DEF RunsInv, Idle
<1>2. ASSUME NEW j \in RunTicks \ {k}
      PROVE  tick[j] = Idle
  <2>1. tick[j].pc = "idle"
    BY <1>1 DEF WorkPlace
  <2>2. ~WorkPlace(j)
    BY <2>1 DEF WorkPlace
  <2>3. QED
    BY <2>2 DEF RunsInv
<1>3. QED
  BY <1>1, <1>2

\* What a tick is about to write keeps within the limits.
LEMMA DraftWithin ==
  ASSUME ChildShape, run.setup \in RunSetups, NEW k \in RunTicks, WorkPlace(k)
  PROVE  Within(Cardinality(Alive(tick[k].draft)), Cardinality(Ready(Names(tick[k].draft))))
<1>1. PICK t : t = tick[k]
  OBVIOUS
<1>2. /\ t.loaded \subseteq Children /\ Alive(t.draft) \subseteq t.loaded
      /\ DOMAIN t.seen \subseteq t.loaded /\ t.pc \in {"evaluate", "create"}
  BY <1>1 DEF WorkPlace, RunShape
<1>3. InflightTarget \in Nat /\ run.setup.cap \in Nat
  BY SetupNumbers DEF InflightTarget
<1>4. Ready(Names(t.draft)) \subseteq Ready(t.loaded) /\ Ready(t.loaded) \subseteq t.loaded
  <2>1. Ready(Names(t.draft)) \subseteq Alive(t.draft)
    BY DEF Ready, Alive
  <2>2. QED
    BY <1>2, <2>1 DEF Ready
<1>5. /\ Cardinality(t.loaded) \in Nat /\ Cardinality(Alive(t.draft)) \in Nat
      /\ Cardinality(Ready(t.loaded)) \in Nat /\ Cardinality(Ready(Names(t.draft))) \in Nat
      /\ Cardinality(Alive(t.draft)) <= Cardinality(t.loaded)
      /\ Cardinality(Ready(Names(t.draft))) <= Cardinality(Ready(t.loaded))
  BY <1>2, <1>4, CountedSets DEF ChildShape
<1>6. CASE t.pc = "evaluate"
  <2>1. Within(Cardinality(t.loaded), Flying(t)) /\ DOMAIN t.seen = t.loaded
    BY <1>1, <1>6 DEF WorkPlace, Made
  <2>2. PICK F : F = {i \in DOMAIN t.seen : t.seen[i] \notin ChildTerminal}
    OBVIOUS
  <2>3. Ready(t.loaded) \subseteq F /\ F \subseteq t.loaded
    BY <1>1, <2>1, <2>2 DEF WorkPlace, Ready, ChildTerminal
  <2>4. Cardinality(F) \in Nat /\ Cardinality(Ready(t.loaded)) <= Cardinality(F) /\ F \subseteq Children
    BY <1>2, <2>3, CountedSets DEF ChildShape
  <2>5. Cardinality(F) <= InflightTarget
        /\ (run.setup.cap > 0 => Cardinality(t.loaded) < run.setup.cap + InflightTarget)
    BY <2>1, <2>2 DEF Within, Flying
  <2>6. QED
    BY <1>1, <1>3, <1>5, <2>4, <2>5 DEF Within
<1>7. CASE t.pc = "create"
  <2>1. /\ t.left \in Nat /\ Cardinality(Ready(t.loaded)) + t.left <= InflightTarget
        /\ (run.setup.cap > 0 => Cardinality(t.loaded) + t.left < run.setup.cap + InflightTarget)
    BY <1>1, <1>7 DEF WorkPlace, Made, Within
  <2>2. QED
    BY <1>1, <1>3, <1>5, <2>1 DEF Within
<1>8. QED
  BY <1>2, <1>6, <1>7

\* Children that end or disappear leave the rows and the ticks in place.
LEMMA ChildrenMoved ==
  ASSUME RunsInv, ~past.raced, run' = run, tick' = tick, ChildShape', NoneGone', Len(offspring') = Len(offspring),
         \A i \in Children :
           /\ offspring'[i].input = offspring[i].input
           /\ \/ offspring'[i].status = offspring[i].status
              \/ offspring[i].status = "ready" /\ offspring'[i].status # "ready",
         DOMAIN past' = RunPastFields, past'.lost = past.lost, past.deleted => past'.deleted,
         source' # "gone" => source # "gone"
  PROVE  RunsInv'
<1>1. /\ ChildShape /\ run.setup \in RunSetups /\ RunShape(run) /\ StoredPlace /\ RestPlace
      /\ DOMAIN tick = RunTicks /\ \A k \in RunTicks : tick[k] = Idle \/ WorkPlace(k)
  BY DEF RunsInv
<1>2. Children' = Children
  BY DEF Children
<1>3. InflightTarget \in Nat /\ run.setup.cap \in Nat /\ InflightTarget' = InflightTarget /\ Planned' = Planned
  BY <1>1, SetupNumbers DEF InflightTarget, Planned
<1>4. ASSUME NEW S, S \subseteq Children
      PROVE  /\ Ready(S)' \subseteq Ready(S) /\ Ready(S) \subseteq Children
             /\ Cardinality(Ready(S)') \in Nat /\ Cardinality(Ready(S)) \in Nat
             /\ Cardinality(Ready(S)') <= Cardinality(Ready(S))
  <2>1. Ready(S)' \subseteq Ready(S) /\ Ready(S) \subseteq Children
    BY <1>4 DEF Ready
  <2>2. QED
    BY <1>1, <2>1, CountedSets DEF ChildShape
<1>5. ASSUME NEW r, Names(r) \subseteq Children
      PROVE  Alive(r)' \subseteq Alive(r) /\ Alive(r) \subseteq Children /\ Names(r)' = Names(r)
  BY <1>5 DEF Alive, Names
<1>6. StoredPlace'
  <2>1. PICK r : r = run
    OBVIOUS
  <2>2. Names(r) \subseteq Children /\ Names(run)' = Names(r) /\ Alive(run)' = Alive(r)' /\ Alive(run) = Alive(r)
    BY <1>1, <2>1 DEF RunShape, Names, Alive
  <2>3. Within(Cardinality(Alive(r)), Cardinality(Ready(Names(r))))
    BY <1>1, <2>1 DEF StoredPlace
  <2>4. PICK m : m = Cardinality(Alive(r)')
    OBVIOUS
  <2>5. PICK n : n = Cardinality(Ready(Names(r))')
    OBVIOUS
  <2>6. m \in Nat /\ Cardinality(Alive(r)) \in Nat /\ m <= Cardinality(Alive(r))
    BY <1>1, <1>5, <2>2, <2>4, CountedSets DEF ChildShape
  <2>7. Names(r)' = Names(r)
    BY <1>5, <2>2
  <2>8. n \in Nat /\ Cardinality(Ready(Names(r))) \in Nat /\ n <= Cardinality(Ready(Names(r)))
    BY <1>4, <2>2, <2>5, <2>7
  <2>9. n <= InflightTarget /\ (run.setup.cap > 0 => m < run.setup.cap + InflightTarget)
    BY <1>3, <2>3, <2>6, <2>8 DEF Within
  <2>10. Within(Cardinality(Alive(run)), Cardinality(Ready(Names(run))))'
    BY <1>3, <2>1, <2>2, <2>4, <2>5, <2>9 DEF Within, Ready
  <2>11. run.status \in {"done", "capped"} => \A i \in Names(run)' : offspring'[i].status # "ready"
    BY <1>1, <2>1, <2>2 DEF StoredPlace
  <2>12. QED
    BY <1>1, <1>3, <2>10, <2>11 DEF StoredPlace
<1>7. AsPlanned => AsPlanned'
  BY <1>2 DEF AsPlanned
<1>8. \A r, m : InOrder(r, m)' <=> InOrder(r, m)
  BY <1>3 DEF InOrder
<1>9. RestPlace'
  <2>1. Names(run)' = Names(run)
    BY DEF Names
  <2>2. QED
    BY <1>1, <1>2, <1>7, <1>8, <2>1 DEF RestPlace
<1>10. ASSUME NEW k \in RunTicks, WorkPlace(k)
       PROVE  WorkPlace(k)'
  <2>1. PICK t : t = tick[k]
    OBVIOUS
  <2>2. PICK d : d = t.draft
    OBVIOUS
  <2>3. /\ DOMAIN t = TickFields /\ t.pc \in {"evaluate", "create"}
        /\ \A j \in RunTicks \ {k} : tick[j].pc = "idle"
        /\ run.status \notin RunTerminal /\ d.status \notin RunTerminal /\ RunShape(d)
        /\ \A f \in RunFields : f \in t.dirty \/ d[f] = run[f]
        /\ Alive(d) \subseteq t.loaded /\ t.loaded \subseteq Names(d)
        /\ Names(run) \subseteq Names(d) /\ Names(d) \subseteq Names(run) \cup t.loaded
        /\ DOMAIN t.seen \subseteq t.loaded
        /\ source # "gone" => t.from # "gone"
    BY <1>10, <2>1, <2>2 DEF WorkPlace
  <2>4. \A i \in DOMAIN t.seen : t.seen[i] \in {"ready"} \cup ChildTerminal
                                 /\ (t.seen[i] # "ready" => offspring[i].status = t.seen[i])
    BY <1>10, <2>1 DEF WorkPlace
  <2>5. RunShape(d)' /\ Names(d) \subseteq Children
    BY <1>2, <2>3 DEF RunShape, Names
  <2>6. Alive(d)' \subseteq Alive(d) /\ Names(d)' = Names(d) /\ Names(run)' = Names(run)
    BY <1>5, <2>5 DEF Names
  <2>7. \A i \in DOMAIN t.seen : t.seen[i] # "ready" => offspring'[i].status = t.seen[i]
    BY <2>3, <2>4, <2>5 DEF ChildTerminal
  <2>8. t.pc = "evaluate" =>
          /\ d.base = run.base /\ d.other = run.other /\ t.loaded = DOMAIN t.seen
          /\ Within(Made(t), Flying(t))
    BY <1>10, <2>1, <2>2 DEF WorkPlace
  <2>9. \A a, b : Within(a, b)' <=> Within(a, b)
    BY <1>3 DEF Within
  <2>10. ASSUME t.pc = "create"
         PROVE  /\ t.left \in Nat /\ Made(t) + t.left <= Planned
                /\ Within(Made(t) + t.left, Cardinality(Ready(t.loaded)') + t.left)
    <3>1. /\ t.left \in Nat /\ Made(t) + t.left <= Planned
          /\ Within(Made(t) + t.left, Cardinality(Ready(t.loaded)) + t.left)
      BY <1>10, <2>1, <2>10 DEF WorkPlace
    <3>2. PICK n : n = Cardinality(Ready(t.loaded)')
      OBVIOUS
    <3>3. n \in Nat /\ Cardinality(Ready(t.loaded)) \in Nat /\ n <= Cardinality(Ready(t.loaded))
      BY <1>4, <2>3, <2>5, <3>2
    <3>4. QED
      BY <1>3, <3>1, <3>2, <3>3 DEF Within
  <2>11. /\ ~past.lost => Children \subseteq Names(d)
         /\ ~past.lost /\ ~past.deleted =>
              /\ InOrder(d, Len(offspring)) /\ t.loaded = Children /\ AsPlanned
              /\ \E m \in 0 .. Len(offspring) : InOrder(run, m)
    BY <1>10, <2>1, <2>2 DEF WorkPlace
  <2>12. /\ ~past'.lost => Children' \subseteq Names(d)'
         /\ ~past'.lost /\ ~past'.deleted =>
              /\ InOrder(d, Len(offspring))' /\ t.loaded = Children' /\ AsPlanned'
              /\ \E m \in 0 .. Len(offspring') : InOrder(run, m)'
    BY <1>2, <1>7, <1>8, <2>6, <2>11
  <2>13. tick'[k] = t /\ t.draft = d
    BY <2>1, <2>2
  <2>14. Made(t)' = Made(t) /\ Flying(t)' = Flying(t) /\ Ready(t.loaded)' = {i \in t.loaded : offspring'[i].status = "ready"}
    BY DEF Made, Flying, Ready
  <2>15. QED
    BY <1>3, <2>3, <2>4, <2>5, <2>6, <2>7, <2>8, <2>9, <2>10, <2>12, <2>13, <2>14 DEF WorkPlace
<1>11. RunShape(run)'
  BY <1>1, <1>2 DEF RunShape, Names
<1>12. QED
  BY <1>1, <1>6, <1>9, <1>10, <1>11 DEF RunsInv

\* A tick begins with what is stored.
LEMMA TickBegun ==
  ASSUME RunsInv, NEW k \in RunTicks, TickReads(k), ~past'.raced
  PROVE  RunsInv'
<1>1. /\ DOMAIN past' = RunPastFields /\ ~past.raced /\ past'.lost = past.lost /\ past'.deleted = past.deleted
      /\ tick[k].pc = "idle" /\ \A j \in RunTicks \ {k} : tick[j].pc = "idle"
      /\ run.status \notin RunTerminal /\ run' = run /\ offspring' = offspring /\ source' = source
  BY DEF RunsInv, TickReads, RunPastFields
<1>2. /\ ChildShape /\ run.setup \in RunSetups /\ RunShape(run) /\ StoredPlace /\ RestPlace
      /\ DOMAIN tick = RunTicks /\ NoneGone
  BY <1>1 DEF RunsInv
<1>3. PICK ids : ids = Loaded(run)
  OBVIOUS
<1>4. PICK t : t = [pc |-> "evaluate", draft |-> run, dirty |-> {}, loaded |-> ids, left |-> 0,
                    from |-> source, seen |-> [i \in ids |-> offspring[i].status]]
  OBVIOUS
<1>5. tick' = [tick EXCEPT ![k] = t]
  BY <1>3, <1>4 DEF TickReads
<1>6. /\ DOMAIN tick' = RunTicks /\ tick'[k] = t /\ \A j \in RunTicks \ {k} : tick'[j] = tick[j]
  BY <1>2, <1>5
<1>7. /\ DOMAIN t = TickFields /\ t.pc = "evaluate" /\ t.draft = run /\ t.loaded = ids /\ t.from = source
      /\ DOMAIN t.seen = ids /\ \A i \in ids : t.seen[i] = offspring[i].status
  BY <1>4 DEF TickFields
<1>8. ids = Alive(run)
  BY <1>2, <1>3, NamesListed DEF Loaded, Alive, RunShape
<1>9. ids \subseteq Names(run) /\ Names(run) \subseteq Children
  BY <1>2, <1>8 DEF Alive, RunShape
<1>10. \A i \in ids : offspring[i].status \in {"ready"} \cup ChildTerminal
  BY <1>2, <1>8, <1>9, ChildTypes DEF Alive
<1>11. {i \in DOMAIN t.seen : t.seen[i] \notin ChildTerminal} = Ready(Names(run))
  <2>1. \A i : i \in ids /\ t.seen[i] \notin ChildTerminal <=> i \in ids /\ offspring[i].status = "ready"
    BY <1>7, <1>10 DEF ChildTerminal
  <2>2. \A i : i \in ids <=> i \in Names(run) /\ offspring[i].status # "gone"
    BY <1>8 DEF Alive
  <2>3. QED
    BY <1>7, <2>1, <2>2 DEF Ready
<1>12. Within(Made(t), Flying(t))
  BY <1>2, <1>7, <1>8, <1>11 DEF StoredPlace, Made, Flying
<1>13. /\ ~past.lost => Children \subseteq Names(run)
       /\ ~past.lost /\ ~past.deleted => InOrder(run, Len(offspring)) /\ AsPlanned
  BY <1>1, <1>2 DEF RestPlace
<1>14. ~past.lost /\ ~past.deleted => ids = Children
  <2>1. ASSUME ~past.lost, ~past.deleted
        PROVE  \A i \in Children : offspring[i].status # "gone"
    BY <1>2, <2>1 DEF NoneGone
  <2>2. QED
    BY <1>8, <1>9, <1>13, <2>1 DEF Alive
<1>15. WorkPlace(k)'
  <2>1. RunShape(run)' /\ Names(run)' = Names(run) /\ Alive(run)' = Alive(run) /\ Children' = Children
    BY <1>1, <1>2 DEF RunShape, Names, Alive, Children
  <2>2. Within(Made(t), Flying(t))'
    BY <1>1, <1>12 DEF Within, Made, Flying, InflightTarget
  <2>3. \A m : InOrder(run, m)' <=> InOrder(run, m)
    BY <1>1 DEF InOrder, Planned
  <2>4. /\ ~past'.lost => Children' \subseteq Names(run)'
        /\ ~past'.lost /\ ~past'.deleted =>
             /\ InOrder(run, Len(offspring))' /\ t.loaded = Children' /\ AsPlanned'
             /\ \E m \in 0 .. Len(offspring)' : InOrder(run, m)'
    <3>1. Len(offspring) \in Nat
      BY <1>2 DEF ChildShape
    <3>2. AsPlanned => AsPlanned'
      BY <1>1 DEF AsPlanned, Children
    <3>3. QED
      BY <1>1, <1>7, <1>13, <1>14, <2>1, <2>3, <3>1, <3>2
  <2>5. Names(run) \subseteq Names(run) \cup ids
    OBVIOUS
  <2>6. QED
    BY <1>1, <1>6, <1>7, <1>8, <1>9, <1>10, <2>1, <2>2, <2>4 DEF WorkPlace
<1>16. \A j \in RunTicks : tick'[j] = Idle \/ WorkPlace(j)'
  <2>1. ASSUME NEW j \in RunTicks \ {k}
        PROVE  tick'[j] = Idle
    BY <1>1, <1>6 DEF RunsInv, WorkPlace
  <2>2. QED
    BY <1>15, <2>1
<1>17. ChildShape' /\ NoneGone' /\ RunShape(run)' /\ StoredPlace'
  <2>1. Names(run)' = Names(run) /\ Alive(run)' = Alive(run) /\ Ready(Names(run))' = Ready(Names(run))
    BY <1>1 DEF Names, Alive, Ready
  <2>2. Within(Cardinality(Alive(run)), Cardinality(Ready(Names(run))))'
    BY <1>1, <1>2, <2>1 DEF Within, InflightTarget, StoredPlace
  <2>3. QED
    BY <1>1, <1>2, <2>1, <2>2 DEF ChildShape, NoneGone, Children, RunShape, StoredPlace, Planned
<1>18. RestPlace'
  BY <1>6, <1>7 DEF RestPlace
<1>19. QED
  BY <1>1, <1>2, <1>6, <1>16, <1>17, <1>18 DEF RunsInv

\* Before a tick creates children it has left room for them.
LEMMA RoomToCreate ==
  ASSUME ChildShape, run.setup \in RunSetups, NEW k \in RunTicks, WorkPlace(k), tick[k].pc = "evaluate",
         ~Exceeded(Spent(tick[k].seen)), Slots(tick[k]) > 0
  PROVE  LET t == tick[k] IN
         /\ Slots(t) \in Nat /\ Made(t) + Slots(t) <= Planned
         /\ Within(Made(t) + Slots(t), Cardinality(Ready(t.loaded)) + Slots(t))
<1>1. PICK t : t = tick[k]
  OBVIOUS
<1>2. /\ t.loaded = DOMAIN t.seen /\ t.loaded \subseteq Children
      /\ \A i \in t.loaded : t.seen[i] \in {"ready"} \cup ChildTerminal
                            /\ (t.seen[i] # "ready" => offspring[i].status = t.seen[i])
  BY <1>1 DEF WorkPlace, RunShape
<1>3. InflightTarget \in Nat /\ run.setup.cap \in Nat /\ Planned \in Nat
  BY SetupNumbers DEF InflightTarget, Planned
<1>4. PICK F : F = {i \in DOMAIN t.seen : t.seen[i] \notin ChildTerminal}
  OBVIOUS
<1>5. PICK E : E = {i \in DOMAIN t.seen : t.seen[i] \in ChildTerminal}
  OBVIOUS
<1>6. PICK J : J = {i \in DOMAIN t.seen : offspring[i].judged}
  OBVIOUS
<1>7. /\ E \cup F = t.loaded /\ E \cap F = {} /\ Ready(t.loaded) \subseteq F
      /\ F \subseteq t.loaded /\ E \subseteq t.loaded /\ J \subseteq t.loaded
  BY <1>2, <1>4, <1>5, <1>6 DEF Ready, ChildTerminal
<1>8. PICK n : n = Cardinality(Ready(t.loaded))
  OBVIOUS
<1>9. /\ Cardinality(F) \in Nat /\ Cardinality(E) \in Nat /\ Cardinality(J) \in Nat
      /\ IsFiniteSet(E) /\ IsFiniteSet(F) /\ Made(t) \in Nat
  BY <1>2, <1>7, CountedSets DEF ChildShape, Made
<1>10. n \in Nat /\ n <= Cardinality(F)
  <2>1. F \subseteq Children
    BY <1>2, <1>7
  <2>2. QED
    BY <1>7, <1>8, <2>1, CountedSets DEF ChildShape
<1>11. Made(t) = Cardinality(E) + Cardinality(F)
  <2>1. Cardinality(E \cup F) = Cardinality(E) + Cardinality(F) - Cardinality(E \cap F)
    BY <1>9, FS_Union
  <2>2. Cardinality(E \cap F) = 0
    BY <1>7, FS_EmptySet
  <2>3. Cardinality(E \cup F) = Made(t)
    BY <1>7 DEF Made
  <2>4. QED
    BY <1>9, <2>1, <2>2, <2>3
<1>12. Spent(t.seen) = Cardinality(E) + Cardinality(J)
  BY <1>5, <1>6 DEF Spent
<1>13. Flying(t) = Cardinality(F)
  BY <1>4 DEF Flying
<1>14. PICK l : l = Slots(t)
  OBVIOUS
<1>15. l \in Nat /\ l <= InflightTarget - Cardinality(F) /\ l <= Planned - Made(t)
  BY <1>1, <1>3, <1>9, <1>13, <1>14 DEF Slots
<1>16. n + l <= InflightTarget /\ Made(t) + l <= Planned
  BY <1>3, <1>9, <1>10, <1>15
<1>17. ASSUME run.setup.cap > 0
       PROVE  Made(t) + l < run.setup.cap + InflightTarget
  <2>1. Cardinality(E) < run.setup.cap
    BY <1>1, <1>3, <1>9, <1>12, <1>17 DEF Exceeded
  <2>2. QED
    BY <1>3, <1>9, <1>11, <1>15, <2>1
<1>18. Within(Made(t) + l, n + l)
  BY <1>16, <1>17 DEF Within
<1>19. QED
  BY <1>1, <1>8, <1>14, <1>15, <1>16, <1>18

\* A tick takes up the creation of children.
LEMMA TickTakesUp ==
  ASSUME RunsInv, NEW k \in RunTicks, TickCreates(k), ~past'.raced
  PROVE  RunsInv'
<1>1. PICK t : t = tick[k]
  OBVIOUS
<1>2. PICK c : c = Spent(t.seen)
  OBVIOUS
<1>3. PICK d : d = [t.draft EXCEPT !.cost = c]
  OBVIOUS
<1>4. PICK l : l = Slots(t)
  OBVIOUS
<1>5. /\ t.pc = "evaluate" /\ ~Exceeded(c) /\ l > 0
      /\ run' = run /\ offspring' = offspring /\ source' = source /\ past' = past
  <2>1. ~Exceeded(d.cost) /\ t.pc = "evaluate" /\ l > 0
    BY <1>1, <1>2, <1>3, <1>4 DEF TickCreates
  <2>2. run' = run /\ offspring' = offspring /\ source' = source /\ past' = past
    BY DEF TickCreates
  <2>3. DOMAIN t.draft = RunFields
    BY <1>1, <2>1, <2>2, WorksAlone DEF WorkPlace, RunShape
  <2>4. d.cost = c
    BY <1>3, <2>3 DEF RunFields
  <2>5. QED
    BY <2>1, <2>2, <2>4
<1>6. WorkPlace(k) /\ \A j \in RunTicks \ {k} : tick[j] = Idle
  BY <1>1, <1>5, WorksAlone
<1>7. /\ ChildShape /\ NoneGone /\ run.setup \in RunSetups /\ RunShape(run) /\ StoredPlace
      /\ DOMAIN tick = RunTicks /\ DOMAIN past = RunPastFields
  BY <1>5 DEF RunsInv
<1>8. PICK x : x = Dirty(t, d)
  OBVIOUS
<1>9. PICK u : u = [t EXCEPT !.pc = "create", !.left = l, !.draft = d, !.dirty = x]
  OBVIOUS
<1>10. tick' = [tick EXCEPT ![k] = u]
  <2>1. tick' = [tick EXCEPT ![k] =
          [t EXCEPT !.pc = "create", !.left = Slots(t), !.draft = [t.draft EXCEPT !.cost = Spent(t.seen)],
                    !.dirty = Dirty(t, [t.draft EXCEPT !.cost = Spent(t.seen)])]]
    BY <1>1 DEF TickCreates
  <2>2. QED
    BY <1>2, <1>3, <1>4, <1>8, <1>9, <2>1
<1>11. DOMAIN tick' = RunTicks /\ tick'[k] = u /\ \A j \in RunTicks \ {k} : tick'[j] = tick[j]
  BY <1>7, <1>10
<1>12. /\ DOMAIN t = TickFields /\ RunShape(t.draft)
       /\ \A f \in RunFields : f \in t.dirty \/ t.draft[f] = run[f]
       /\ t.draft.status \notin RunTerminal /\ run.status \notin RunTerminal
  BY <1>1, <1>6 DEF WorkPlace
<1>13. /\ DOMAIN d = RunFields /\ d.setup = t.draft.setup /\ d.base = t.draft.base
       /\ d.other = t.draft.other /\ d.status = t.draft.status
       /\ \A f \in RunFields : d[f] = t.draft[f] \/ f \in x
  BY <1>3, <1>8, <1>12 DEF RunShape, RunFields, Dirty
<1>14. /\ DOMAIN u = TickFields /\ u.pc = "create" /\ u.left = l /\ u.draft = d /\ u.dirty = x
       /\ u.seen = t.seen /\ u.loaded = t.loaded /\ u.from = t.from
  BY <1>9, <1>12 DEF TickFields
<1>15. t.dirty \subseteq x
  BY <1>8 DEF Dirty
<1>16. l \in Nat /\ Made(t) + l <= Planned /\ Within(Made(t) + l, Cardinality(Ready(t.loaded)) + l)
  BY <1>1, <1>2, <1>4, <1>5, <1>6, <1>7, RoomToCreate
<1>17. Names(d) = Names(t.draft) /\ Alive(d) = Alive(t.draft) /\ \A m : InOrder(d, m) <=> InOrder(t.draft, m)
  BY <1>13 DEF Names, Alive, InOrder
<1>18. \A r, m : Names(r)' = Names(r) /\ Alive(r)' = Alive(r) /\ (RunShape(r)' <=> RunShape(r))
                /\ (InOrder(r, m)' <=> InOrder(r, m))
  BY <1>5 DEF Names, Alive, RunShape, InOrder, Planned, Children
<1>19. \A S, m, n : Ready(S)' = Ready(S) /\ (Within(m, n)' <=> Within(m, n))
  BY <1>5 DEF Ready, Within, InflightTarget
<1>20. Children' = Children /\ Planned' = Planned /\ (AsPlanned' <=> AsPlanned) /\ Made(u) = Made(t)
  BY <1>5, <1>14 DEF Children, Planned, AsPlanned, Made
<1>21. WorkPlace(k)'
  <2>1. /\ RunShape(d) /\ d.status \notin RunTerminal /\ \A f \in RunFields : f \in x \/ d[f] = run[f]
    BY <1>12, <1>13, <1>15, <1>17 DEF RunShape
  <2>2. /\ Alive(d) \subseteq t.loaded /\ t.loaded \subseteq Names(d)
        /\ Names(run) \subseteq Names(d) /\ Names(d) \subseteq Names(run) \cup t.loaded
        /\ DOMAIN t.seen \subseteq t.loaded /\ (source # "gone" => t.from # "gone")
        /\ \A i \in DOMAIN t.seen :
             /\ t.seen[i] \in {"ready"} \cup ChildTerminal
             /\ t.seen[i] # "ready" => offspring[i].status = t.seen[i]
    BY <1>1, <1>6, <1>17 DEF WorkPlace
  <2>3. /\ ~past.lost => Children \subseteq Names(d)
        /\ ~past.lost /\ ~past.deleted =>
             /\ InOrder(d, Len(offspring)) /\ t.loaded = Children /\ AsPlanned
             /\ \E m \in 0 .. Len(offspring) : InOrder(run, m)
    BY <1>1, <1>6, <1>17 DEF WorkPlace
  <2>4. Made(u)' = Made(u)
    BY DEF Made
  <2>5. /\ ~past'.lost => Children' \subseteq Names(d)'
        /\ ~past'.lost /\ ~past'.deleted =>
             /\ InOrder(d, Len(offspring))' /\ t.loaded = Children' /\ AsPlanned'
             /\ \E m \in 0 .. Len(offspring)' : InOrder(run, m)'
    BY <1>5, <1>18, <1>20, <2>3
  <2>6. Within(Made(u) + u.left, Cardinality(Ready(u.loaded)) + u.left)'
    <3>1. PICK n : n = Cardinality(Ready(u.loaded)) + u.left
      OBVIOUS
    <3>2. PICK m : m = Made(u) + u.left
      OBVIOUS
    <3>3. Within(m, n)'
      BY <1>14, <1>16, <1>19, <1>20, <3>1, <3>2
    <3>4. QED
      BY <1>19, <2>4, <3>1, <3>2, <3>3
  <2>7. \A j \in RunTicks \ {k} : tick'[j].pc = "idle"
    BY <1>6, <1>11 DEF Idle
  <2>8. u.left \in Nat /\ Made(u)' + u.left <= Planned'
    BY <1>14, <1>16, <1>20, <2>4
  <2>9. QED
    BY <1>5, <1>11, <1>12, <1>14, <1>18, <1>20, <2>1, <2>2, <2>5, <2>6, <2>7, <2>8 DEF WorkPlace
<1>22. ChildShape' /\ NoneGone' /\ RunShape(run)' /\ StoredPlace'
  BY <1>5, <1>7, <1>18, <1>19, <1>20 DEF ChildShape, NoneGone, StoredPlace
<1>23. RestPlace'
  BY <1>11, <1>14 DEF RestPlace
<1>24. QED
  BY <1>5, <1>6, <1>7, <1>11, <1>21, <1>22, <1>23 DEF RunsInv

\* What a commit leaves in the row is the draft.
LEMMA CommittedDraft ==
  ASSUME DOMAIN run = RunFields, NEW d, NEW x, \A f \in RunFields : f \in x \/ d[f] = run[f]
  PROVE  DOMAIN Committed(d, x) = RunFields /\ \A f \in RunFields : Committed(d, x)[f] = d[f]
BY DEF Committed

\* A row that lists child n behind the others: with the clean ones as long as these last.
Extends(e, d, n) ==
  \/ n <= run.setup.base /\ e.base = Append(d.base, n) /\ e.other = d.other
  \/ ~(n <= run.setup.base) /\ e.base = d.base /\ e.other = Append(d.other, n)

\* The next child in the order is listed behind the others.
LEMMA NextInOrder ==
  ASSUME run.setup \in RunSetups, NEW n \in Nat, n < Planned,
         NEW d, d.base \in Seq(Nat), d.other \in Seq(Nat), InOrder(d, n), NEW e,
         Extends(e, d, n + 1)
  PROVE  InOrder(e, n + 1)
<1>1. PICK b : b = d.base
  OBVIOUS
<1>2. PICK o : o = d.other
  OBVIOUS
<1>3. PICK s : s = run.setup.base
  OBVIOUS
<1>4. s \in Nat /\ Planned \in Nat
  BY <1>3, SetupNumbers DEF Planned
<1>5. PICK x \in Nat : x = Len(b)
  BY <1>1
<1>6. PICK y \in Nat : y = Len(o)
  BY <1>2
<1>7. x + y = n /\ x <= s /\ (y > 0 => x = s)
  BY <1>1, <1>2, <1>3, <1>5, <1>6 DEF InOrder
<1>8. (\A i \in 1 .. x : b[i] = i) /\ (\A i \in 1 .. y : o[i] = x + i)
  BY <1>1, <1>2, <1>5, <1>6 DEF InOrder
<1>9. n + 1 <= Planned /\ x + (y + 1) = n + 1 /\ (x + 1) + y = n + 1
  BY <1>4, <1>7
<1>10. CASE n + 1 <= s /\ e.base = Append(b, n + 1) /\ e.other = o
  <2>1. y = 0 /\ x = n
    BY <1>4, <1>7, <1>10
  <2>2. PICK a : a = Append(b, n + 1)
    OBVIOUS
  <2>3. Len(a) = x + 1 /\ a[x + 1] = n + 1 /\ \A i \in 1 .. x : a[i] = b[i]
    BY <1>1, <1>5, <2>2
  <2>4. \A i \in 1 .. n + 1 : a[i] = i
    BY <1>8, <2>1, <2>3
  <2>5. e.base = a /\ e.other = o
    BY <1>10, <2>2
  <2>6. /\ Len(e.base) = n + 1 /\ Len(e.other) = 0 /\ Len(e.base) <= s
        /\ Len(e.base) + Len(e.other) = n + 1
    BY <1>6, <1>10, <2>1, <2>3, <2>5
  <2>7. QED
    BY <1>3, <1>9, <2>4, <2>5, <2>6 DEF InOrder
<1>11. CASE ~(n + 1 <= s) /\ e.base = b /\ e.other = Append(o, n + 1)
  <2>1. x = s
    BY <1>4, <1>7, <1>11
  <2>2. PICK a : a = Append(o, n + 1)
    OBVIOUS
  <2>3. Len(a) = y + 1 /\ a[y + 1] = n + 1 /\ \A i \in 1 .. y : a[i] = o[i]
    BY <1>2, <1>6, <2>2
  <2>4. \A i \in 1 .. y + 1 : a[i] = x + i
    BY <1>8, <1>9, <2>3
  <2>5. e.base = b /\ e.other = a /\ Len(e.base) = x /\ Len(e.other) = y + 1
    BY <1>5, <1>11, <2>2, <2>3
  <2>6. QED
    BY <1>3, <1>4, <1>8, <1>9, <2>1, <2>4, <2>5 DEF InOrder
<1>12. QED
  BY <1>1, <1>2, <1>3, <1>10, <1>11 DEF Extends

\* A tick clones the next child.
LEMMA TickCloned ==
  ASSUME RunsInv, NEW k \in RunTicks, TickClones(k), ~past'.raced
  PROVE  RunsInv'
<1>1. PICK t : t = tick[k]
  OBVIOUS
<1>2. /\ t.pc = "create" /\ t.left > 0 /\ (source = "here" \/ Blank(t))
      /\ source' = source /\ past' = past
  BY <1>1 DEF TickClones
<1>3. WorkPlace(k) /\ \A j \in RunTicks \ {k} : tick[j] = Idle
  BY <1>1, <1>2, WorksAlone
<1>4. /\ ChildShape /\ NoneGone /\ run.setup \in RunSetups /\ RunShape(run) /\ StoredPlace
      /\ DOMAIN tick = RunTicks /\ DOMAIN past = RunPastFields
  BY <1>2 DEF RunsInv
<1>5. PICK n : n = Len(offspring)
  OBVIOUS
<1>6. PICK p : p = Plan(run.setup)[Made(t) + 1]
  OBVIOUS
<1>7. PICK c : c = Column(p)
  OBVIOUS
<1>8. PICK d : d = t.draft
  OBVIOUS
<1>9. PICK b : b = [input |-> IF Blank(t) THEN "blank" ELSE p, status |-> "ready", judged |-> FALSE]
  OBVIOUS
<1>10. PICK e : e = [d EXCEPT ![c] = Append(@, n + 1)]
  OBVIOUS
<1>11. PICK u : u = [t EXCEPT !.left = @ - 1, !.loaded = @ \cup {n + 1}, !.dirty = {c}, !.draft = e]
  OBVIOUS
<1>12. /\ offspring' = Append(offspring, b) /\ run' = Committed(d, t.dirty)
       /\ tick' = [tick EXCEPT ![k] = u]
  <2>1. /\ offspring' = Append(offspring,
              [input |-> IF Blank(t) THEN "blank" ELSE p, status |-> "ready", judged |-> FALSE])
        /\ run' = Committed(t.draft, t.dirty)
        /\ tick' = [tick EXCEPT ![k] =
             [t EXCEPT !.left = @ - 1, !.loaded = @ \cup {n + 1}, !.dirty = {c},
                       !.draft = [t.draft EXCEPT ![c] = Append(@, n + 1)]]]
    BY <1>1, <1>5, <1>6, <1>7 DEF TickClones
  <2>2. offspring' = Append(offspring, b) /\ run' = Committed(d, t.dirty)
    BY <1>8, <1>9, <2>1
  <2>3. e = [t.draft EXCEPT ![c] = Append(@, n + 1)]
    BY <1>8, <1>10
  <2>4. u = [t EXCEPT !.left = @ - 1, !.loaded = @ \cup {n + 1}, !.dirty = {c},
                      !.draft = [t.draft EXCEPT ![c] = Append(@, n + 1)]]
    BY <1>11, <2>3
  <2>5. QED
    BY <2>1, <2>2, <2>4
<1>13. /\ DOMAIN t = TickFields /\ RunShape(d) /\ d.status \notin RunTerminal
       /\ \A f \in RunFields : f \in t.dirty \/ d[f] = run[f]
       /\ Alive(d) \subseteq t.loaded /\ t.loaded \subseteq Names(d)
       /\ DOMAIN t.seen \subseteq t.loaded /\ (source # "gone" => t.from # "gone")
  BY <1>1, <1>3, <1>8 DEF WorkPlace
<1>14. \A i \in DOMAIN t.seen :
         /\ t.seen[i] \in {"ready"} \cup ChildTerminal
         /\ t.seen[i] # "ready" => offspring[i].status = t.seen[i]
  BY <1>1, <1>3 DEF WorkPlace
<1>15. /\ t.left \in Nat /\ Made(t) + t.left <= Planned
       /\ Within(Made(t) + t.left, Cardinality(Ready(t.loaded)) + t.left)
  BY <1>1, <1>2, <1>3 DEF WorkPlace
<1>16. /\ ~past.lost => Children \subseteq Names(d)
       /\ ~past.lost /\ ~past.deleted => InOrder(d, n) /\ t.loaded = Children /\ AsPlanned
  BY <1>1, <1>3, <1>5, <1>8 DEF WorkPlace
<1>17. /\ n \in Nat /\ Children = 1 .. n /\ t.loaded \subseteq Children /\ n + 1 \notin Children
       /\ IsFiniteSet(t.loaded) /\ Made(t) \in Nat /\ Planned \in Nat
  <2>1. n \in Nat /\ Children = 1 .. n /\ n + 1 \notin 1 .. n
    BY <1>4, <1>5 DEF ChildShape, Children
  <2>2. t.loaded \subseteq Children
    BY <1>13 DEF RunShape
  <2>3. QED
    BY <1>4, <2>1, <2>2, CountedSets, SetupNumbers DEF ChildShape, Made, Planned
<1>18. p \in Inputs /\ c = (IF Made(t) + 1 <= run.setup.base THEN "base" ELSE "other")
  <2>1. Made(t) + 1 \in 1 .. Total(run.setup)
    BY <1>2, <1>15, <1>17 DEF Planned
  <2>2. QED
    BY <1>4, <1>6, <1>7, <2>1, SetupNumbers
<1>19. /\ ChildShape' /\ Len(offspring') = n + 1 /\ offspring'[n + 1] = b
       /\ \A i \in Children : offspring'[i] = offspring[i]
  <2>1. PICK R : R = [input : Inputs, status : {"ready", "gone"} \cup ChildTerminal, judged : BOOLEAN]
    OBVIOUS
  <2>2. b \in R
    BY <1>9, <1>18, <2>1 DEF Inputs
  <2>3. offspring \in Seq(R)
    BY <1>4, <2>1 DEF ChildShape
  <2>4. offspring' \in Seq(R) /\ Len(offspring') = n + 1 /\ offspring'[n + 1] = b
        /\ \A i \in 1 .. n : offspring'[i] = offspring[i]
    BY <1>5, <1>12, <2>2, <2>3
  <2>5. QED
    BY <1>17, <2>1, <2>4 DEF ChildShape
<1>20. Children' = Children \cup {n + 1} /\ Children' = 1 .. n + 1
  BY <1>17, <1>19 DEF Children
<1>21. DOMAIN run' = RunFields /\ \A f \in RunFields : run'[f] = d[f]
  BY <1>4, <1>12, <1>13, CommittedDraft DEF RunShape
<1>22. /\ run'.setup = run.setup /\ run'.base = d.base /\ run'.other = d.other /\ run'.status = d.status
       /\ Planned' = Planned /\ InflightTarget' = InflightTarget
  BY <1>13, <1>21 DEF RunFields, RunShape, Planned, InflightTarget
<1>23. /\ DOMAIN e = RunFields /\ e.setup = d.setup /\ e.status = d.status
       /\ \A f \in RunFields : f \in {c} \/ e[f] = d[f]
       /\ \/ Made(t) + 1 <= run.setup.base /\ e.base = Append(d.base, n + 1) /\ e.other = d.other
          \/ ~(Made(t) + 1 <= run.setup.base) /\ e.base = d.base /\ e.other = Append(d.other, n + 1)
  BY <1>10, <1>13, <1>18 DEF RunShape, RunFields
<1>24. /\ DOMAIN tick' = RunTicks /\ tick'[k] = u /\ \A j \in RunTicks \ {k} : tick'[j] = Idle
       /\ DOMAIN u = TickFields /\ u.pc = "create" /\ u.left = t.left - 1 /\ u.loaded = t.loaded \cup {n + 1}
       /\ u.dirty = {c} /\ u.draft = e /\ u.seen = t.seen /\ u.from = t.from
  BY <1>2, <1>3, <1>4, <1>11, <1>12, <1>13 DEF TickFields
<1>25. /\ Names(d)' = Names(d) /\ Names(run)' = Names(d) /\ Names(e)' = Names(e)
       /\ Alive(d)' = Alive(d) /\ Ready(Names(d))' = Ready(Names(d)) /\ Names(d) \subseteq Children
  <2>1. Names(d)' = Names(d) /\ Names(run)' = Names(d) /\ Names(e)' = Names(e) /\ Names(d) \subseteq Children
    BY <1>13, <1>22 DEF Names, RunShape
  <2>2. QED
    BY <1>19, <2>1 DEF Alive, Ready
<1>26. Names(e) = Names(d) \cup {n + 1} /\ e.base \in Seq(Nat) /\ e.other \in Seq(Nat)
  <2>1. ASSUME NEW z \in Seq(Nat)
        PROVE  /\ {Append(z, n + 1)[i] : i \in DOMAIN Append(z, n + 1)} = {z[i] : i \in DOMAIN z} \cup {n + 1}
               /\ Append(z, n + 1) \in Seq(Nat)
    <3>1. PICK a : a = Append(z, n + 1)
      OBVIOUS
    <3>2. PICK l \in Nat : l = Len(z)
      OBVIOUS
    <3>3. /\ a \in Seq(Nat) /\ DOMAIN a = 1 .. l + 1 /\ DOMAIN z = 1 .. l
          /\ a[l + 1] = n + 1 /\ \A i \in 1 .. l : a[i] = z[i]
      BY <1>17, <3>1, <3>2
    <3>4. \A v : (\E i \in 1 .. l + 1 : v = a[i]) <=> (\E i \in 1 .. l : v = z[i]) \/ v = n + 1
      <4>1. \A i \in 1 .. l + 1 : i \in 1 .. l \/ i = l + 1
        BY <3>2
      <4>2. l + 1 \in 1 .. l + 1 /\ 1 .. l \subseteq 1 .. l + 1
        BY <3>2
      <4>3. QED
        BY <3>3, <4>1, <4>2
    <3>5. QED
      BY <3>1, <3>3, <3>4
  <2>2. d.base \in Seq(Nat) /\ d.other \in Seq(Nat)
    BY <1>13 DEF RunShape
  <2>3. CASE e.base = Append(d.base, n + 1) /\ e.other = d.other
    <3>1. PICK S : S = {d.base[i] : i \in DOMAIN d.base}
      OBVIOUS
    <3>2. {e.base[i] : i \in DOMAIN e.base} = S \cup {n + 1} /\ e.base \in Seq(Nat)
      BY <2>1, <2>2, <2>3, <3>1
    <3>3. QED
      BY <2>2, <2>3, <3>1, <3>2 DEF Names
  <2>4. CASE e.base = d.base /\ e.other = Append(d.other, n + 1)
    <3>1. PICK S : S = {d.other[i] : i \in DOMAIN d.other}
      OBVIOUS
    <3>2. {e.other[i] : i \in DOMAIN e.other} = S \cup {n + 1} /\ e.other \in Seq(Nat)
      BY <2>1, <2>2, <2>4, <3>1
    <3>3. QED
      BY <2>2, <2>4, <3>1, <3>2 DEF Names
  <2>5. QED
    BY <1>23, <2>3, <2>4
<1>27. RunShape(e)' /\ RunShape(run)'
  BY <1>13, <1>20, <1>21, <1>22, <1>23, <1>25, <1>26 DEF RunShape
<1>28. StoredPlace'
  <2>1. Within(Cardinality(Alive(d)), Cardinality(Ready(Names(d))))
    BY <1>3, <1>4, <1>8, <1>1, DraftWithin
  <2>2. Alive(run)' = Alive(d) /\ Ready(Names(run))' = Ready(Names(d))
    BY <1>25 DEF Alive, Ready
  <2>3. Within(Cardinality(Alive(run)), Cardinality(Ready(Names(run))))'
    BY <1>22, <2>1, <2>2 DEF Within
  <2>4. QED
    BY <1>13, <1>22, <2>3 DEF StoredPlace, RunTerminal
<1>29. Made(u) = Made(t) + 1 /\ Made(u)' = Made(u)
  <2>1. PICK L : L = t.loaded
    OBVIOUS
  <2>2. IsFiniteSet(L) /\ n + 1 \notin L
    BY <1>17, <2>1
  <2>3. Cardinality(L \cup {n + 1}) = Cardinality(L) + 1
    BY <2>2, FS_AddElement
  <2>4. QED
    BY <1>24, <2>1, <2>3 DEF Made
<1>30. Within(Made(u) + u.left, Cardinality(Ready(u.loaded)) + u.left)' /\ u.left \in Nat
       /\ Made(u)' + u.left <= Planned'
  <2>1. Ready(u.loaded)' = Ready(t.loaded) \cup {n + 1}
    <3>1. b.status = "ready"
      BY <1>9
    <3>2. QED
      BY <1>17, <1>19, <1>24, <3>1 DEF Ready
  <2>2. PICK m : m = Cardinality(Ready(t.loaded))
    OBVIOUS
  <2>3. m \in Nat /\ Cardinality(Ready(t.loaded) \cup {n + 1}) = m + 1
    <3>1. Ready(t.loaded) \subseteq Children /\ n + 1 \notin Ready(t.loaded)
      BY <1>17 DEF Ready
    <3>2. IsFiniteSet(Ready(t.loaded)) /\ m \in Nat
      BY <1>4, <2>2, <3>1, CountedSets DEF ChildShape
    <3>3. QED
      BY <2>2, <3>1, <3>2, FS_AddElement
  <2>4. Made(u) + u.left = Made(t) + t.left /\ (m + 1) + u.left = m + t.left /\ u.left \in Nat
    BY <1>2, <1>15, <1>17, <1>24, <1>29, <2>3
  <2>5. Within(Made(u)' + u.left, (m + 1) + u.left)
    BY <1>15, <1>29, <2>2, <2>4
  <2>6. PICK x : x = Made(u)' + u.left
    OBVIOUS
  <2>7. PICK y : y = (m + 1) + u.left
    OBVIOUS
  <2>8. Within(x, y)'
    BY <1>22, <2>5, <2>6, <2>7 DEF Within
  <2>9. QED
    BY <1>15, <1>22, <1>29, <2>1, <2>3, <2>4, <2>6, <2>7, <2>8
<1>31. /\ ~past'.lost => Children' \subseteq Names(e)'
       /\ ~past'.lost /\ ~past'.deleted =>
            /\ InOrder(e, Len(offspring))' /\ u.loaded = Children' /\ AsPlanned'
            /\ \E m \in 0 .. Len(offspring)' : InOrder(run, m)'
  <2>1. ~past'.lost => Children' \subseteq Names(e)'
    BY <1>2, <1>16, <1>20, <1>25, <1>26
  <2>2. ASSUME ~past.lost, ~past.deleted
        PROVE  /\ InOrder(e, n + 1)' /\ u.loaded = Children' /\ AsPlanned' /\ InOrder(run, n)'
    <3>1. InOrder(d, n) /\ t.loaded = Children /\ AsPlanned
      BY <1>16, <2>2
    <3>2. Made(t) = n
      BY <1>4, <1>5, <3>1, CountedSets DEF ChildShape, Made
    <3>3. n < Planned
      BY <1>2, <1>15, <1>17, <3>2
    <3>4. Extends(e, d, n + 1)
      BY <1>23, <3>2 DEF Extends
    <3>5. d.base \in Seq(Nat) /\ d.other \in Seq(Nat)
      BY <1>13 DEF RunShape
    <3>6. InOrder(e, n + 1)
      BY <1>4, <1>17, <3>1, <3>3, <3>4, <3>5, NextInOrder
    <3>7. \A r, m : InOrder(r, m)' <=> InOrder(r, m)
      BY <1>22 DEF InOrder
    <3>8. InOrder(run, n)'
      BY <1>22, <3>1 DEF InOrder
    <3>9. AsPlanned'
      <4>1. SUFFICES ASSUME source # "gone"
                     PROVE  \A i \in 1 .. n + 1 : offspring'[i].input = Plan(run.setup)[i]
        BY <1>2, <1>20, <1>22 DEF AsPlanned
      <4>2. ~Blank(t)
        BY <1>13, <4>1 DEF Blank
      <4>3. offspring'[n + 1].input = Plan(run.setup)[n + 1]
        BY <1>6, <1>9, <1>19, <3>2, <4>2
      <4>4. \A i \in 1 .. n : offspring'[i].input = Plan(run.setup)[i]
        BY <1>17, <1>19, <3>1, <4>1 DEF AsPlanned
      <4>5. \A i \in 1 .. n + 1 : i \in 1 .. n \/ i = n + 1
        BY <1>17
      <4>6. QED
        BY <4>3, <4>4, <4>5
    <3>10. QED
      BY <1>20, <1>24, <3>1, <3>6, <3>7, <3>8, <3>9
  <2>3. n \in 0 .. n + 1
    BY <1>17
  <2>4. QED
    BY <1>2, <1>19, <2>1, <2>2, <2>3
<1>32. WorkPlace(k)'
  <2>1. Alive(e)' \subseteq u.loaded
    BY <1>13, <1>24, <1>25, <1>26 DEF Alive
  <2>2. u.loaded \subseteq Names(e) /\ Names(d) \subseteq Names(e) /\ Names(e) \subseteq Names(d) \cup u.loaded
    BY <1>13, <1>24, <1>26
  <2>3. \A i \in DOMAIN u.seen :
          /\ u.seen[i] \in {"ready"} \cup ChildTerminal
          /\ u.seen[i] # "ready" => offspring'[i].status = u.seen[i]
    BY <1>13, <1>14, <1>17, <1>19, <1>24
  <2>4. \A f \in RunFields : f \in u.dirty \/ e[f] = run'[f]
    BY <1>21, <1>23, <1>24
  <2>5. run'.status \notin RunTerminal /\ e.status \notin RunTerminal
    BY <1>13, <1>22, <1>23
  <2>6. \A j \in RunTicks \ {k} : tick'[j].pc = "idle"
    BY <1>24 DEF Idle
  <2>7. DOMAIN u.seen \subseteq u.loaded /\ (source' # "gone" => u.from # "gone")
    BY <1>2, <1>13, <1>24
  <2>8. QED
    BY <1>24, <1>25, <1>27, <1>30, <1>31, <2>1, <2>2, <2>3, <2>4, <2>5, <2>6, <2>7 DEF WorkPlace
<1>33. NoneGone'
  <2>1. b.status = "ready"
    BY <1>9
  <2>2. QED
    BY <1>2, <1>4, <1>19, <1>20, <2>1 DEF NoneGone
<1>34. RestPlace'
  BY <1>24 DEF RestPlace
<1>35. QED
  BY <1>2, <1>4, <1>19, <1>22, <1>24, <1>27, <1>28, <1>32, <1>33, <1>34 DEF RunsInv

\* A tick that ends with a commit leaves what it counted in the row.
LEMMA TickCommitted ==
  ASSUME RunsInv, ~past.raced, NEW k \in RunTicks, tick[k].pc # "idle",
         offspring' = offspring, source' = source, past' = past, tick' = [tick EXCEPT ![k] = Idle],
         DOMAIN run' = RunFields, run'.setup = run.setup, run'.base = tick[k].draft.base,
         run'.other = tick[k].draft.other,
         run'.status \in {"done", "capped"} =>
           /\ \A i \in Names(tick[k].draft) : offspring[i].status # "ready"
           /\ run'.report.success + run'.report.failed = run'.report.executed
           /\ run'.status = "done" <=> run'.report.executed >= Planned
  PROVE  RunsInv'
<1>1. WorkPlace(k) /\ \A j \in RunTicks \ {k} : tick[j] = Idle
  BY WorksAlone
<1>2. /\ ChildShape /\ NoneGone /\ run.setup \in RunSetups
      /\ DOMAIN tick = RunTicks /\ DOMAIN past = RunPastFields
  BY DEF RunsInv
<1>3. PICK d : d = tick[k].draft
  OBVIOUS
<1>4. DOMAIN tick' = RunTicks /\ \A j \in RunTicks : tick'[j] = Idle
  BY <1>1, <1>2
<1>5. /\ RunShape(d) /\ Within(Cardinality(Alive(d)), Cardinality(Ready(Names(d))))
      /\ ~past.lost => Children \subseteq Names(d)
      /\ ~past.lost /\ ~past.deleted => InOrder(d, Len(offspring)) /\ AsPlanned
  BY <1>1, <1>2, <1>3, DraftWithin DEF WorkPlace
<1>6. /\ Names(run)' = Names(d) /\ Alive(run)' = Alive(d) /\ Ready(Names(run))' = Ready(Names(d))
      /\ Children' = Children /\ Planned' = Planned /\ InflightTarget' = InflightTarget
  <2>1. Names(run)' = Names(d)
    BY <1>3 DEF Names
  <2>2. QED
    BY <2>1 DEF Alive, Ready, Children, Planned, InflightTarget
<1>7. RunShape(run)'
  BY <1>3, <1>5, <1>6 DEF RunShape
<1>8. StoredPlace'
  <2>1. Within(Cardinality(Alive(run)), Cardinality(Ready(Names(run))))'
    BY <1>5, <1>6 DEF Within
  <2>2. QED
    BY <1>3, <1>6, <2>1 DEF StoredPlace
<1>9. RestPlace'
  <2>1. InOrder(d, Len(offspring)) => InOrder(run, Len(offspring))'
    BY <1>3, <1>6 DEF InOrder
  <2>2. AsPlanned => AsPlanned'
    BY <1>6 DEF AsPlanned
  <2>3. QED
    BY <1>5, <1>6, <2>1, <2>2 DEF RestPlace
<1>10. QED
  BY <1>2, <1>4, <1>6, <1>7, <1>8, <1>9 DEF RunsInv, ChildShape, NoneGone

\* The tick that created children lets them run.
LEMMA TickLet ==
  ASSUME RunsInv, NEW k \in RunTicks, TickLetsRun(k), ~past'.raced
  PROVE  RunsInv'
<1>1. PICK t : t = tick[k]
  OBVIOUS
<1>2. PICK d : d = [t.draft EXCEPT !.status = "running"]
  OBVIOUS
<1>3. /\ t.pc = "create" /\ run' = Committed(d, Dirty(t, d)) /\ tick' = [tick EXCEPT ![k] = Idle]
      /\ offspring' = offspring /\ source' = source /\ past' = past
  BY <1>1, <1>2 DEF TickLetsRun
<1>4. WorkPlace(k) /\ RunShape(run)
  BY <1>1, <1>3, WorksAlone DEF RunsInv
<1>5. RunShape(t.draft) /\ \A f \in RunFields : f \in t.dirty \/ t.draft[f] = run[f]
  BY <1>1, <1>4 DEF WorkPlace
<1>6. /\ DOMAIN d = RunFields /\ d.setup = t.draft.setup /\ d.base = t.draft.base
      /\ d.other = t.draft.other /\ d.status = "running"
  BY <1>2, <1>5 DEF RunShape, RunFields
<1>7. \A f \in RunFields : f \in Dirty(t, d) \/ d[f] = run[f]
  BY <1>5, <1>6 DEF Dirty
<1>8. DOMAIN run' = RunFields /\ \A f \in RunFields : run'[f] = d[f]
  BY <1>3, <1>4, <1>7, CommittedDraft DEF RunShape
<1>9. run'.setup = run.setup /\ run'.base = t.draft.base /\ run'.other = t.draft.other /\ run'.status = "running"
  BY <1>5, <1>6, <1>8 DEF RunShape, RunFields
<1>10. QED
  BY <1>1, <1>3, <1>8, <1>9, TickCommitted

\* A run ends on what the tick counted once nothing of it is in flight.
LEMMA EndIsSettled ==
  ASSUME ChildShape, run.setup \in RunSetups, NEW k \in RunTicks, WorkPlace(k), tick[k].pc = "evaluate",
         NEW c, ReadyToEnd(tick[k], c), NEW r, DOMAIN r = RunFields, r.cost = c,
         EndOf(tick[k], r).status \in {"done", "capped"}
  PROVE  /\ \A i \in Names(tick[k].draft) : offspring[i].status # "ready"
         /\ EndOf(tick[k], r).report.success + EndOf(tick[k], r).report.failed
              = EndOf(tick[k], r).report.executed
         /\ EndOf(tick[k], r).status = "done" <=> EndOf(tick[k], r).report.executed >= Planned
<1>1. PICK t : t = tick[k]
  OBVIOUS
<1>2. /\ t.loaded = DOMAIN t.seen /\ t.loaded \subseteq Children /\ Alive(t.draft) \subseteq t.loaded
      /\ \A i \in t.loaded : t.seen[i] \in {"ready"} \cup ChildTerminal
                            /\ (t.seen[i] # "ready" => offspring[i].status = t.seen[i])
  BY <1>1 DEF WorkPlace, RunShape
<1>3. PICK F : F = {i \in DOMAIN t.seen : t.seen[i] \notin ChildTerminal}
  OBVIOUS
<1>4. F = {}
  <2>1. Cardinality(F) = 0
    BY <1>1, <1>3 DEF ReadyToEnd, Flying
  <2>2. IsFiniteSet(F)
    <3>1. F \subseteq Children
      BY <1>2, <1>3
    <3>2. QED
      BY <3>1, CountedSets DEF ChildShape
  <2>3. QED
    BY <2>1, <2>2, FS_EmptySet
<1>5. \A i \in t.loaded : t.seen[i] \in ChildTerminal /\ offspring[i].status = t.seen[i]
  BY <1>2, <1>3, <1>4 DEF ChildTerminal
<1>6. \A i \in Names(t.draft) : offspring[i].status # "ready"
  BY <1>2, <1>5 DEF Alive, ChildTerminal
<1>7. PICK A : A = {i \in DOMAIN t.seen : t.seen[i] = "success"}
  OBVIOUS
<1>8. PICK B : B = {i \in DOMAIN t.seen : t.seen[i] = "failed"}
  OBVIOUS
<1>9. Cardinality(A) + Cardinality(B) = Made(t)
  <2>1. A \cup B = t.loaded /\ A \cap B = {} /\ A \subseteq Children /\ B \subseteq Children
    BY <1>2, <1>5, <1>7, <1>8 DEF ChildTerminal
  <2>2. IsFiniteSet(A) /\ IsFiniteSet(B) /\ Cardinality(A) \in Nat /\ Cardinality(B) \in Nat
    BY <2>1, CountedSets DEF ChildShape
  <2>3. Cardinality(A \cup B) = Cardinality(A) + Cardinality(B) - Cardinality(A \cap B)
    BY <2>2, FS_Union
  <2>4. Cardinality(A \cap B) = 0
    BY <2>1, FS_EmptySet
  <2>5. Cardinality(A \cup B) = Made(t)
    BY <2>1 DEF Made
  <2>6. QED
    BY <2>2, <2>3, <2>4, <2>5
<1>10. t.loaded # {}
  <2>1. SUFFICES ASSUME t.loaded = {}
                 PROVE  FALSE
    OBVIOUS
  <2>2. EndOf(t, r) = [r EXCEPT !.status = "failed"]
    BY <2>1 DEF EndOf
  <2>3. EndOf(t, r).status = "failed"
    BY <2>2 DEF RunFields
  <2>4. QED
    BY <1>1, <2>3
<1>11. PICK w : w = (IF Exceeded(c) /\ Made(t) < Planned THEN "capped" ELSE "done")
  OBVIOUS
<1>12. PICK q : q = [executed |-> Made(t), success |-> Cardinality(A), failed |-> Cardinality(B)]
  OBVIOUS
<1>13. EndOf(t, r) = [r EXCEPT !.status = w, !.report = q]
  BY <1>7, <1>8, <1>10, <1>11, <1>12 DEF EndOf
<1>14. EndOf(t, r).status = w /\ EndOf(t, r).report = q
  BY <1>13 DEF RunFields
<1>15. q.executed = Made(t) /\ q.success + q.failed = Made(t)
  BY <1>9, <1>12
<1>16. Made(t) \in Nat /\ Planned \in Nat
  BY <1>2, CountedSets, SetupNumbers DEF ChildShape, Made, Planned
<1>17. w = "done" <=> Made(t) >= Planned
  BY <1>1, <1>11, <1>16 DEF ReadyToEnd
<1>18. QED
  BY <1>1, <1>6, <1>14, <1>15, <1>17

\* The tick that creates nothing ends the run or waits.
LEMMA TickEnded ==
  ASSUME RunsInv, NEW k \in RunTicks, TickEndsOrWaits(k), ~past'.raced
  PROVE  RunsInv'
<1>1. PICK t : t = tick[k]
  OBVIOUS
<1>2. PICK c : c = Spent(t.seen)
  OBVIOUS
<1>3. PICK r : r = [t.draft EXCEPT !.cost = c]
  OBVIOUS
<1>4. PICK d : d = (IF ReadyToEnd(t, r.cost) THEN EndOf(t, r) ELSE [r EXCEPT !.status = "running"])
  OBVIOUS
<1>5. /\ t.pc = "evaluate" /\ run' = Committed(d, Dirty(t, d)) /\ tick' = [tick EXCEPT ![k] = Idle]
      /\ offspring' = offspring /\ source' = source /\ past' = past
  BY <1>1, <1>2, <1>3, <1>4 DEF TickEndsOrWaits
<1>6. WorkPlace(k) /\ RunShape(run) /\ ChildShape /\ run.setup \in RunSetups
  BY <1>1, <1>5, WorksAlone DEF RunsInv
<1>7. RunShape(t.draft) /\ \A f \in RunFields : f \in t.dirty \/ t.draft[f] = run[f]
  BY <1>1, <1>6 DEF WorkPlace
<1>8. /\ DOMAIN r = RunFields /\ r.cost = c /\ r.setup = t.draft.setup /\ r.base = t.draft.base
      /\ r.other = t.draft.other
  BY <1>3, <1>7 DEF RunShape, RunFields
<1>9. /\ DOMAIN d = RunFields /\ d.setup = r.setup /\ d.base = r.base /\ d.other = r.other
  <2>1. CASE ReadyToEnd(t, r.cost) /\ t.loaded = {}
    <3>1. d = [r EXCEPT !.status = "failed"]
      BY <1>4, <2>1 DEF EndOf
    <3>2. QED
      BY <1>8, <3>1 DEF RunFields
  <2>2. CASE ReadyToEnd(t, r.cost) /\ t.loaded # {}
    <3>1. \E w, q : d = [r EXCEPT !.status = w, !.report = q]
      BY <1>4, <2>2 DEF EndOf
    <3>2. QED
      BY <1>8, <3>1 DEF RunFields
  <2>3. CASE ~ReadyToEnd(t, r.cost)
    BY <1>4, <1>8, <2>3 DEF RunFields
  <2>4. QED
    BY <2>1, <2>2, <2>3
<1>10. \A f \in RunFields : f \in Dirty(t, d) \/ d[f] = run[f]
  BY <1>7, <1>9 DEF Dirty
<1>11. DOMAIN run' = RunFields /\ \A f \in RunFields : run'[f] = d[f]
  BY <1>5, <1>6, <1>10, CommittedDraft DEF RunShape
<1>12. /\ run'.setup = run.setup /\ run'.base = t.draft.base /\ run'.other = t.draft.other
       /\ run'.status = d.status /\ run'.report = d.report
  BY <1>7, <1>8, <1>9, <1>11 DEF RunShape, RunFields
<1>13. run'.status \in {"done", "capped"} =>
         /\ \A i \in Names(t.draft) : offspring[i].status # "ready"
         /\ run'.report.success + run'.report.failed = run'.report.executed
         /\ run'.status = "done" <=> run'.report.executed >= Planned
  <2>1. CASE ReadyToEnd(t, c)
    <3>1. d = EndOf(t, r)
      BY <1>4, <1>8, <2>1
    <3>2. QED
      BY <1>1, <1>5, <1>6, <1>8, <1>12, <2>1, <3>1, EndIsSettled
  <2>2. CASE ~ReadyToEnd(t, c)
    <3>1. d.status = "running"
      BY <1>4, <1>8, <2>2 DEF RunFields
    <3>2. QED
      BY <1>12, <3>1
  <2>3. QED
    BY <2>1, <2>2
<1>14. QED
  BY <1>1, <1>5, <1>11, <1>12, <1>13, TickCommitted

\* A tick that fails leaves the row as it was.
LEMMA TickAborted ==
  ASSUME RunsInv, NEW k \in RunTicks, TickAborts(k), ~past'.raced
  PROVE  RunsInv'
<1>1. /\ tick[k].pc # "idle" /\ tick' = [tick EXCEPT ![k] = Idle]
      /\ run' = run /\ offspring' = offspring /\ source' = source
  BY DEF TickAborts
<1>2. /\ DOMAIN past' = RunPastFields /\ ~past.raced /\ past'.deleted = past.deleted
      /\ ~past'.lost => ~past.lost /\ tick[k].pc # "create"
  BY DEF TickAborts, RunsInv, RunPastFields
<1>3. WorkPlace(k) /\ \A j \in RunTicks \ {k} : tick[j] = Idle
  BY <1>1, <1>2, WorksAlone
<1>4. /\ ChildShape /\ NoneGone /\ run.setup \in RunSetups /\ RunShape(run) /\ StoredPlace
      /\ DOMAIN tick = RunTicks
  BY <1>2 DEF RunsInv
<1>5. DOMAIN tick' = RunTicks /\ \A j \in RunTicks : tick'[j] = Idle
  BY <1>1, <1>3, <1>4
<1>6. PICK d : d = tick[k].draft
  OBVIOUS
<1>7. /\ Names(run)' = Names(run) /\ Alive(run)' = Alive(run) /\ Ready(Names(run))' = Ready(Names(run))
      /\ Children' = Children /\ Planned' = Planned /\ InflightTarget' = InflightTarget
  BY <1>1 DEF Names, Alive, Ready, Children, Planned, InflightTarget
<1>8. ASSUME ~past'.lost
      PROVE  /\ Children \subseteq Names(run)
             /\ ~past'.deleted => InOrder(run, Len(offspring)) /\ AsPlanned
  <2>1. d.base = run.base /\ d.other = run.other
    BY <1>2, <1>3, <1>6, <1>8 DEF WorkPlace
  <2>2. /\ Children \subseteq Names(d)
        /\ ~past.deleted => InOrder(d, Len(offspring)) /\ AsPlanned
    BY <1>2, <1>3, <1>6, <1>8 DEF WorkPlace
  <2>3. QED
    BY <1>2, <2>1, <2>2 DEF Names, InOrder
<1>9. RestPlace'
  <2>1. InOrder(run, Len(offspring)) => InOrder(run, Len(offspring))'
    BY <1>1 DEF InOrder, Planned
  <2>2. AsPlanned => AsPlanned'
    BY <1>1 DEF AsPlanned, Children
  <2>3. QED
    BY <1>7, <1>8, <2>1, <2>2 DEF RestPlace
<1>10. StoredPlace'
  <2>1. Within(Cardinality(Alive(run)), Cardinality(Ready(Names(run))))'
    BY <1>1, <1>4, <1>7 DEF Within, StoredPlace
  <2>2. QED
    BY <1>1, <1>4, <1>7, <2>1 DEF StoredPlace
<1>11. QED
  BY <1>1, <1>2, <1>4, <1>5, <1>7, <1>9, <1>10 DEF RunsInv, ChildShape, NoneGone, RunShape

\* One child is rewritten.
LEMMA OneChild ==
  ASSUME NEW R, NEW z \in Seq(R), NEW i \in 1 .. Len(z), NEW b \in R
  PROVE  [z EXCEPT ![i] = b] \in Seq(R) /\ Len([z EXCEPT ![i] = b]) = Len(z)
<1>1. PICK n \in Nat : n = Len(z)
  OBVIOUS
<1>2. z \in [1 .. n -> R]
  BY <1>1
<1>3. PICK y : y = [z EXCEPT ![i] = b]
  OBVIOUS
<1>4. y \in [1 .. n -> R]
  BY <1>1, <1>2, <1>3
<1>5. y \in Seq(R) /\ Len(y) = n
  BY <1>4
<1>6. QED
  BY <1>1, <1>3, <1>5

\* What the judge, the orchestrator and users do to children and to the source.
LEMMA RunsBeside ==
  ASSUME RunsInv, ~past'.raced,
         \/ \E k \in RunTicks : \E i \in DOMAIN offspring : TickEvaluates(k, i)
         \/ \E i \in DOMAIN offspring : ChildEnds(i) \/ ChildDeleted(i)
         \/ SourceDeleted
  PROVE  RunsInv'
<1>1. /\ DOMAIN past = RunPastFields /\ run' = run /\ tick' = tick
  BY DEF RunsInv, TickEvaluates, ChildEnds, ChildDeleted, SourceDeleted
<1>2. ~past.raced /\ DOMAIN past' = RunPastFields /\ past'.lost = past.lost /\ (past.deleted => past'.deleted)
  BY <1>1 DEF TickEvaluates, ChildEnds, ChildDeleted, SourceDeleted, RunPastFields
<1>3. ChildShape /\ NoneGone /\ DOMAIN offspring = Children
  BY <1>2 DEF RunsInv, ChildShape, Children
<1>4. PICK R : R = [input : Inputs, status : {"ready", "gone"} \cup ChildTerminal, judged : BOOLEAN]
  OBVIOUS
<1>5. ASSUME NEW i \in Children, NEW b \in R, offspring' = [offspring EXCEPT ![i] = b]
      PROVE  ChildShape' /\ Len(offspring') = Len(offspring) /\ offspring'[i] = b
             /\ \A j \in Children \ {i} : offspring'[j] = offspring[j]
  <2>1. offspring \in Seq(R)
    BY <1>3, <1>4 DEF ChildShape
  <2>2. offspring' \in Seq(R) /\ Len(offspring') = Len(offspring)
    BY <1>5, <2>1, OneChild DEF Children
  <2>3. offspring'[i] = b /\ \A j \in Children \ {i} : offspring'[j] = offspring[j]
    BY <1>3, <1>5
  <2>4. QED
    BY <1>4, <2>2, <2>3 DEF ChildShape
<1>6. CASE SourceDeleted
  <2>1. offspring' = offspring /\ source' = "gone" /\ past'.deleted = past.deleted
    BY <1>1, <1>6 DEF SourceDeleted, RunPastFields
  <2>2. ChildShape' /\ NoneGone'
    BY <1>3, <2>1 DEF ChildShape, NoneGone, Children
  <2>3. QED
    BY <1>1, <1>2, <2>1, <2>2, ChildrenMoved
<1>7. ASSUME NEW i \in Children,
             \/ \E k \in RunTicks : TickEvaluates(k, i)
             \/ ChildEnds(i) \/ ChildDeleted(i)
      PROVE  RunsInv'
  <2>1. PICK o : o = offspring[i]
    OBVIOUS
  <2>2. /\ o.input \in Inputs /\ o.judged \in BOOLEAN /\ o.status \in {"ready", "gone"} \cup ChildTerminal
        /\ DOMAIN o = {"input", "status", "judged"}
    BY <1>3, <2>1, ChildTypes
  <2>3. o \in R
    <3>1. offspring \in Seq(R) /\ i \in 1 .. Len(offspring)
      BY <1>3, <1>4 DEF ChildShape, Children
    <3>2. QED
      BY <2>1, <3>1
  <2>4. \E b \in R :
          /\ offspring' = [offspring EXCEPT ![i] = b] /\ b.input = o.input
          /\ b.status = o.status \/ (o.status = "ready" /\ b.status # "ready")
          /\ ~past'.deleted => (o.status # "gone" => b.status # "gone")
    <3>1. CASE \E k \in RunTicks : TickEvaluates(k, i)
      <4>1. PICK b : b = [o EXCEPT !.judged = TRUE]
        OBVIOUS
      <4>2. offspring' = [offspring EXCEPT ![i] = b]
        BY <2>1, <3>1, <4>1 DEF TickEvaluates
      <4>3. b \in R /\ b.input = o.input /\ b.status = o.status
        BY <1>4, <2>2, <2>3, <4>1
      <4>4. QED
        BY <4>2, <4>3
    <3>2. CASE ChildEnds(i)
      <4>1. PICK w \in ChildTerminal : offspring' = [offspring EXCEPT ![i].status = w]
        BY <3>2 DEF ChildEnds
      <4>2. PICK b : b = [o EXCEPT !.status = w]
        OBVIOUS
      <4>3. offspring' = [offspring EXCEPT ![i] = b] /\ o.status = "ready"
        BY <2>1, <3>2, <4>1, <4>2 DEF ChildEnds
      <4>4. b \in R /\ b.input = o.input /\ b.status = w
        BY <1>4, <2>2, <2>3, <4>2
      <4>5. w # "ready" /\ w # "gone"
        BY DEF ChildTerminal
      <4>6. QED
        BY <4>3, <4>4, <4>5
    <3>3. CASE ChildDeleted(i)
      <4>1. PICK b : b = [o EXCEPT !.status = "gone"]
        OBVIOUS
      <4>2. offspring' = [offspring EXCEPT ![i] = b] /\ o.status = "ready"
        BY <2>1, <3>3, <4>1 DEF ChildDeleted
      <4>3. b \in R /\ b.input = o.input /\ b.status = "gone"
        BY <1>4, <2>2, <2>3, <4>1
      <4>4. past'.deleted
        BY <1>1, <3>3 DEF ChildDeleted, RunPastFields
      <4>5. QED
        BY <4>2, <4>3, <4>4
    <3>4. QED
      BY <1>7, <3>1, <3>2, <3>3
  <2>5. PICK b \in R :
          /\ offspring' = [offspring EXCEPT ![i] = b] /\ b.input = o.input
          /\ b.status = o.status \/ (o.status = "ready" /\ b.status # "ready")
          /\ ~past'.deleted => (o.status # "gone" => b.status # "gone")
    BY <2>4
  <2>6. /\ ChildShape' /\ Len(offspring') = Len(offspring) /\ offspring'[i] = b
        /\ \A j \in Children \ {i} : offspring'[j] = offspring[j]
    BY <1>5, <2>5
  <2>7. Children' = Children
    BY <2>6 DEF Children
  <2>8. NoneGone'
    BY <1>2, <1>3, <2>1, <2>5, <2>6, <2>7 DEF NoneGone
  <2>9. \A j \in Children :
          /\ offspring'[j].input = offspring[j].input
          /\ \/ offspring'[j].status = offspring[j].status
             \/ offspring[j].status = "ready" /\ offspring'[j].status # "ready"
    BY <2>1, <2>5, <2>6
  <2>10. source' = source
    BY <1>7 DEF TickEvaluates, ChildEnds, ChildDeleted
  <2>11. QED
    BY <1>1, <1>2, <2>6, <2>8, <2>9, <2>10, ChildrenMoved
<1>8. QED
  BY <1>3, <1>6, <1>7

\* Once ticks overlapped nothing is promised any more.
LEMMA RacedStays ==
  ASSUME DOMAIN past = RunPastFields, DOMAIN tick = RunTicks, RunsNext
  PROVE  DOMAIN past' = RunPastFields /\ DOMAIN tick' = RunTicks /\ (~past'.raced => ~past.raced)
<1>1. ASSUME NEW k \in RunTicks, TickStep(k)
      PROVE  DOMAIN past' = RunPastFields /\ DOMAIN tick' = RunTicks /\ (~past'.raced => ~past.raced)
  <2>1. CASE TickReads(k)
    BY <2>1 DEF TickReads, RunPastFields
  <2>2. CASE TickCreates(k) \/ TickLetsRun(k) \/ TickEndsOrWaits(k)
    BY <2>2 DEF TickCreates, TickLetsRun, TickEndsOrWaits
  <2>3. CASE TickClones(k)
    BY <2>3 DEF TickClones
  <2>4. CASE TickAborts(k)
    BY <2>4 DEF TickAborts, RunPastFields
  <2>5. CASE \E i \in DOMAIN offspring : TickEvaluates(k, i)
    BY <2>5 DEF TickEvaluates
  <2>6. QED
    BY <1>1, <2>1, <2>2, <2>3, <2>4, <2>5 DEF TickStep
<1>2. CASE \E i \in DOMAIN offspring : ChildEnds(i) \/ ChildDeleted(i)
  BY <1>2 DEF ChildEnds, ChildDeleted, RunPastFields
<1>3. CASE SourceDeleted
  BY <1>3 DEF SourceDeleted, RunPastFields
<1>4. QED
  BY <1>1, <1>2, <1>3 DEF RunsNext

\* Children in order are the children of the plan.
LEMMA OrderIsPlan ==
  ASSUME ChildShape, RunShape(run), run.setup \in RunSetups, NEW m \in 0 .. Len(offspring), InOrder(run, m),
         AsPlanned, source # "gone"
  PROVE  LET listed == Listed(run)
             planned == SubSeq(Plan(run.setup), 1, Len(listed)) IN
         /\ Len(listed) <= Planned
         /\ \A x : {n \in DOMAIN listed : offspring[listed[n]].input = x}
                    = {n \in DOMAIN planned : planned[n] = x}
<1>1. PICK b : b = run.base
  OBVIOUS
<1>2. PICK o : o = run.other
  OBVIOUS
<1>3. PICK z : z = b \o o
  OBVIOUS
<1>4. PICK l \in Nat : l = Len(b)
  BY <1>1 DEF RunShape
<1>5. PICK w \in Nat : w = Len(o)
  BY <1>2 DEF RunShape
<1>6. /\ l + w = m /\ m <= Planned /\ (\A n \in 1 .. l : b[n] = n) /\ \A n \in 1 .. w : o[n] = l + n
  BY <1>1, <1>2, <1>4, <1>5 DEF InOrder
<1>7. b \in Seq(Nat) /\ o \in Seq(Nat)
  BY <1>1, <1>2 DEF RunShape
<1>8. /\ Len(z) = l + w /\ DOMAIN z = 1 .. l + w
      /\ \A n \in 1 .. l + w : z[n] = (IF n <= l THEN b[n] ELSE o[n - l])
  BY <1>3, <1>4, <1>5, <1>7
<1>9. ASSUME NEW n \in 1 .. m
      PROVE  z[n] = n
  <2>1. n \in 1 .. l + w
    BY <1>6
  <2>2. CASE n <= l
    BY <1>4, <1>6, <1>8, <2>1, <2>2
  <2>3. CASE ~(n <= l)
    <3>1. n - l \in 1 .. w /\ l + (n - l) = n
      BY <1>4, <1>5, <2>1, <2>3
    <3>2. o[n - l] = l + (n - l)
      BY <1>6, <3>1
    <3>3. QED
      BY <1>8, <2>1, <2>3, <3>1, <3>2
  <2>4. QED
    BY <2>2, <2>3
<1>10. Len(offspring) \in Nat /\ m \in Nat
  BY DEF ChildShape
<1>11. \A n \in 1 .. m : offspring[n].input = Plan(run.setup)[n]
  BY <1>10 DEF AsPlanned, Children
<1>12. PICK p : p = Plan(run.setup)
  OBVIOUS
<1>13. PICK q : q = SubSeq(p, 1, m)
  OBVIOUS
<1>14. DOMAIN q = 1 .. m /\ \A n \in 1 .. m : q[n] = p[n]
  <2>1. p \in Seq(Inputs) /\ Len(p) = Planned
    <3>1. PICK t \in Nat : t = Total(run.setup)
      BY SetupNumbers
    <3>2. p \in [1 .. t -> Inputs]
      BY <1>12, <3>1, SetupNumbers DEF Plan
    <3>3. QED
      BY <3>1, <3>2 DEF Planned
  <2>2. m <= Len(p)
    BY <1>6, <2>1
  <2>3. QED
    BY <1>10, <1>13, <2>1, <2>2
<1>15. Listed(run) = z /\ Len(z) = m /\ DOMAIN z = 1 .. m
  BY <1>1, <1>2, <1>3, <1>6, <1>8 DEF Listed
<1>16. \A x : {n \in DOMAIN z : offspring[z[n]].input = x} = {n \in DOMAIN q : q[n] = x}
  BY <1>9, <1>11, <1>12, <1>14, <1>15
<1>17. Len(Listed(run)) = m /\ SubSeq(Plan(run.setup), 1, Len(Listed(run))) = q
  BY <1>12, <1>13, <1>15
<1>18. PICK s : s = SubSeq(Plan(run.setup), 1, Len(Listed(run)))
  OBVIOUS
<1>19. ASSUME NEW x
       PROVE  {n \in DOMAIN Listed(run) : offspring[Listed(run)[n]].input = x}
              = {n \in DOMAIN s : s[n] = x}
  <2>1. Listed(run) = z /\ s = q
    BY <1>15, <1>17, <1>18, Zenon
  <2>2. {n \in DOMAIN z : offspring[z[n]].input = x} = {n \in DOMAIN q : q[n] = x}
    BY <1>16, Zenon
  <2>3. QED
    BY <2>1, <2>2, Zenon
<1>20. Len(Listed(run)) <= Planned
  BY <1>6, <1>17, Zenon
<1>21. QED
  BY <1>18, <1>19, <1>20, Zenon

\* What RunsCounted says of repeated runs (variance.py, perturbation.py) holds for any
\* plan, limits, failures and requests: every child is counted in its place of the plan,
\* limits on agents and cost hold, and the report of an ended run is on settled children.
THEOREM RunsAreCounted == RunsSpec => []RunsCounted
<1>1. RunsInit => RunsInv
  BY RunsInvInit
<1>2. RunsInv /\ [RunsNext]_runVars => RunsInv'
  <2>1. SUFFICES ASSUME RunsInv, [RunsNext]_runVars
                 PROVE  RunsInv'
    OBVIOUS
  <2>2. CASE UNCHANGED runVars
    <3>1. run' = run /\ offspring' = offspring /\ tick' = tick /\ source' = source /\ past' = past
      BY <2>2 DEF runVars
    <3>2. CASE past.raced
      BY <2>1, <3>1, <3>2 DEF RunsInv
    <3>3. CASE ~past.raced
      <4>1. ChildShape /\ NoneGone /\ DOMAIN past = RunPastFields
        BY <2>1, <3>3 DEF RunsInv
      <4>2. ChildShape' /\ NoneGone'
        BY <3>1, <4>1 DEF ChildShape, NoneGone, Children
      <4>3. QED
        BY <2>1, <3>1, <3>3, <4>1, <4>2, ChildrenMoved
    <3>4. QED
      BY <3>2, <3>3
  <2>3. CASE RunsNext
    <3>1. DOMAIN past' = RunPastFields /\ DOMAIN tick' = RunTicks /\ (~past'.raced => ~past.raced)
      BY <2>1, <2>3, RacedStays DEF RunsInv
    <3>2. CASE past'.raced
      BY <3>1, <3>2 DEF RunsInv
    <3>3. CASE ~past'.raced
      BY <2>1, <2>3, <3>3, TickBegun, TickTakesUp, TickCloned, TickLet, TickEnded, TickAborted, RunsBeside
         DEF RunsNext, TickStep
    <3>4. QED
      BY <3>2, <3>3
  <2>4. QED
    BY <2>1, <2>2, <2>3
<1>3. RunsInv => RunsCounted
  <2>1. SUFFICES ASSUME RunsInv, ~past.raced
                 PROVE  RunsCounted
    BY DEF RunsCounted, ChildrenListed, PlanKept, RunLimitsHeld, ReportSettled
  <2>2. /\ ChildShape /\ run.setup \in RunSetups /\ RunShape(run) /\ StoredPlace /\ RestPlace
        /\ \A k \in RunTicks : tick[k] = Idle \/ WorkPlace(k)
    BY <2>1 DEF RunsInv
  <2>3. PICK N : N = Range(Listed(run))
    OBVIOUS
  <2>4. N = Names(run) /\ N \subseteq Children
    BY <2>2, <2>3, NamesListed DEF RunShape
  <2>5. ChildrenListed
    <3>1. SUFFICES ASSUME ~past.lost, NEW i \in Children
                   PROVE  i \in N \/ \E k \in RunTicks : i \in tick[k].loaded
      BY <2>2, <2>3 DEF ChildrenListed, ChildShape, Children
    <3>2. CASE \A k \in RunTicks : tick[k].pc = "idle"
      BY <2>2, <2>4, <3>1, <3>2 DEF RestPlace
    <3>3. CASE ~(\A k \in RunTicks : tick[k].pc = "idle")
      <4>1. PICK k \in RunTicks : WorkPlace(k)
        BY <2>2, <3>3 DEF Idle
      <4>2. i \in Names(tick[k].draft)
        BY <3>1, <4>1 DEF WorkPlace
      <4>3. QED
        BY <2>4, <4>1, <4>2 DEF WorkPlace
    <3>4. QED
      BY <3>2, <3>3
  <2>6. PlanKept
    <3>1. SUFFICES ASSUME ~past.deleted, ~past.lost, source # "gone"
                   PROVE  PlanKept
      BY DEF PlanKept
    <3>2. Len(offspring) \in Nat
      BY <2>2 DEF ChildShape
    <3>3. AsPlanned /\ \E m \in 0 .. Len(offspring) : InOrder(run, m)
      <4>1. CASE \A k \in RunTicks : tick[k].pc = "idle"
        BY <2>2, <3>1, <3>2, <4>1 DEF RestPlace
      <4>2. CASE ~(\A k \in RunTicks : tick[k].pc = "idle")
        <5>1. PICK k \in RunTicks : WorkPlace(k)
          BY <2>2, <4>2 DEF Idle
        <5>2. QED
          BY <3>1, <5>1 DEF WorkPlace
      <4>3. QED
        BY <4>1, <4>2
    <3>4. PICK m \in 0 .. Len(offspring) : InOrder(run, m)
      BY <3>3
    <3>5. QED
      BY <2>2, <3>1, <3>3, <3>4, OrderIsPlan DEF PlanKept
  <2>7. RunLimitsHeld
    <3>1. {i \in N : offspring[i].status \in {"ready"}} = Ready(N)
      BY DEF Ready
    <3>2. {i \in N : offspring[i].status \in ChildTerminal \cup {"ready"}} = Alive(run)
      BY <2>2, <2>4, ChildTypes DEF Alive, ChildTerminal
    <3>3. QED
      BY <2>2, <2>3, <2>4, <3>1, <3>2 DEF RunLimitsHeld, StoredPlace, Within
  <2>8. ReportSettled
    BY <2>2, <2>3, <2>4 DEF ReportSettled, StoredPlace
  <2>9. QED
    BY <2>5, <2>6, <2>7, <2>8 DEF RunsCounted
<1>4. QED
  BY <1>1, <1>2, <1>3, PTL DEF RunsSpec

-----------------------------------------------------------------------------
(* Bundles: what is kept can be computed again                              *)

Ratings == 1..MaxRatings

\* The site holds ratings that were given and one of two judgements.
SiteShape ==
  /\ DOMAIN site = {"ratings", "profile", "score", "archive"}
  /\ site.ratings \in SUBSET Ratings
  /\ site.profile \in {0, 1} /\ site.score \in {0, 1}

\* An export reads what the site held at some time, and is written only whole.
ExportShape ==
  /\ DOMAIN export = {"at", "score", "profile", "ratings", "live", "blobs"}
  /\ export.score \in {0, 1} /\ export.profile \in {0, 1}
  /\ export.ratings \in SUBSET Ratings /\ export.live \in SUBSET Ratings
  /\ export.at = "written" =>
       export.ratings = export.live /\ export.blobs = Blobs({<<"record", 1>>}, "archive")

\* A stamp is the fingerprint of ratings that are among those the report used.
StampedFrom(stamp, used) == \E seen \in SUBSET used : stamp = Fingerprint(seen)

\* A report is stamped before it reads, and uses what is there when it reads.
StampedFirst ==
  /\ DOMAIN cached = {"at", "stamp", "used", "kept"}
  /\ cached.at \in {"stamped", "collected"} => StampedFrom(cached.stamp, site.ratings)
  /\ cached.at = "collected" =>
       StampedFrom(cached.stamp, cached.used) /\ cached.used \in SUBSET site.ratings
  /\ cached.kept.used \in SUBSET site.ratings
  /\ cached.kept.stamp = <<-1, -1>> \/ StampedFrom(cached.kept.stamp, cached.kept.used)

\* A clerk begins after every clerk that began before, and misses what was there.
ClerkShape ==
  /\ DOMAIN clerk = Clerks
  /\ \A c \in Clerks :
       /\ DOMAIN clerk[c] = {"at", "began", "seen", "missed"}
       /\ clerk[c].at \in {"idle", "computing", "numbered", "refused", "done"}
       /\ clerk[c].began \in Nat /\ clerk[c].seen \in Nat
       /\ \A p \in clerk[c].missed : p.began < clerk[c].began
       /\ clerk[c].at \in {"numbered", "refused"} => clerk[c].seen <= Len(shelf)
       /\ clerk[c].at = "refused" => clerk[c].seen < Len(shelf)
  /\ \A c, d \in Clerks : c # d /\ clerk[c].at # "idle" => clerk[c].began # clerk[d].began

\* The last to begin began last.
LastBegan ==
  Clerks # {} => \E c \in Clerks : \A d \in Clerks : clerk[d].began <= clerk[c].began

\* The shelf holds one report of every clerk that is done, in the order of the numbers.
ShelfShape ==
  /\ shelf \in Seq([version : Nat, began : Nat, by : Clerks])
  /\ \A i \in 1..Len(shelf) :
       /\ shelf[i].version = i /\ shelf[i].by \in Clerks /\ shelf[i].began \in Nat
       /\ clerk[shelf[i].by].at = "done" /\ clerk[shelf[i].by].began = shelf[i].began
  /\ \A i, j \in 1..Len(shelf) : i # j => shelf[i].by # shelf[j].by
  /\ \A c \in Clerks : clerk[c].at = "done" => \E i \in 1..Len(shelf) : shelf[i].by = c
  /\ shelf # <<>> =>
       \E i \in 1..Len(shelf) : \A j \in 1..Len(shelf) : shelf[j].began <= shelf[i].began

BundlesInv ==
  SiteShape /\ ExportShape /\ StampedFirst /\ ClerkShape /\ LastBegan /\ ShelfShape

-----------------------------------------------------------------------------
\* The largest of numbers among which one is largest.
LEMMA LargestOf ==
  ASSUME NEW S \in SUBSET Nat, NEW m \in S, \A y \in S : y <= m
  PROVE  Max(S) = m
<1>1. Max(S) \in S /\ \A y \in S : Max(S) >= y
  BY DEF Max
<1>2. m \in Nat /\ Max(S) \in Nat /\ Max(S) >= m /\ Max(S) <= m
  BY <1>1
<1>3. QED
  BY <1>2

\* Ratings that are there stay: what was stamped and used stays among them.
LEMMA StampStays ==
  ASSUME StampedFirst, NEW more, site.ratings \subseteq more,
         site'.ratings = more, UNCHANGED cached
  PROVE  StampedFirst'
<1>1. \A stamp : StampedFrom(stamp, site.ratings) => StampedFrom(stamp, more)
  BY DEF StampedFrom
<1>2. QED
  BY <1>1 DEF StampedFirst

\* At first no rating is given and no report is there.
LEMMA BundlesInitInv ==
  ASSUME BundlesAssumption, BundlesInit
  PROVE  BundlesInv
<1> USE DEF BundlesInit
<1>1. SiteShape
  BY DEF SiteShape, NewSite
<1>2. ExportShape
  BY DEF ExportShape, NotBegun, Ratings
<1>3. StampedFirst
  BY DEF StampedFirst, NoReport, StampedFrom
<1>4. ClerkShape
  BY DEF ClerkShape, Idle2
<1>5. LastBegan
  BY DEF LastBegan, Idle2
<1>6. ShelfShape
  BY DEF ShelfShape, Idle2
<1>7. QED
  BY <1>1, <1>2, <1>3, <1>4, <1>5, <1>6 DEF BundlesInv

\* Nothing the clerks and their reports are about changes.
LEMMA ShelfStays ==
  ASSUME ClerkShape, LastBegan, ShelfShape, UNCHANGED <<clerk, shelf>>
  PROVE  ClerkShape' /\ LastBegan' /\ ShelfShape'
BY DEF ClerkShape, LastBegan, ShelfShape

\* A rating is one of those that can be given, and takes none away.
LEMMA RateInv ==
  ASSUME BundlesInv, Rate
  PROVE  BundlesInv'
<1> USE DEF BundlesInv
<1>1. PICK t \in (1..MaxRatings) \ site.ratings :
        site' = [site EXCEPT !.ratings = @ \cup {t}] /\ UNCHANGED <<matter, export, cached, clerk, shelf>>
  BY DEF Rate
<1>2. SiteShape'
  BY <1>1 DEF SiteShape, Ratings
<1>3. StampedFirst'
  <2>1. site'.ratings = site.ratings \cup {t}
    BY <1>1 DEF SiteShape
  <2>2. QED
    BY <1>1, <2>1, StampStays
<1>4. QED
  BY <1>1, <1>2, <1>3, ShelfStays DEF ExportShape

\* A new judgement and the loss of an archive change no rating.
LEMMA SiteInv ==
  ASSUME BundlesInv, Rejudge \/ LoseArchive
  PROVE  BundlesInv'
<1> USE DEF BundlesInv
<1>1. SiteShape' /\ site'.ratings = site.ratings /\ UNCHANGED <<export, cached, clerk, shelf>>
  BY DEF Rejudge, LoseArchive, SiteShape
<1>2. StampedFirst'
  BY <1>1, StampStays
<1>3. QED
  BY <1>1, <1>2, ShelfStays DEF ExportShape

\* An export reads the site, and is written only if both readings agree.
LEMMA ExportInv ==
  ASSUME BundlesInv, ExportReads \/ ExportEnds
  PROVE  BundlesInv'
<1> USE DEF BundlesInv
<1>1. UNCHANGED <<site, cached, clerk, shelf>>
  BY DEF ExportReads, ExportEnds
<1>2. ExportShape'
  <2>1. CASE ExportReads
    <3>1. /\ DOMAIN export' = DOMAIN export /\ export'.score \in {export.score, site.score}
          /\ export'.profile \in {export.profile, site.profile}
          /\ export'.ratings \in {export.ratings, site.ratings}
          /\ export'.live \in {export.live, site.ratings} /\ export'.at # "written"
      BY <2>1 DEF ExportReads, ExportShape
    <3>2. QED
      BY <3>1 DEF ExportShape, SiteShape
  <2>2. CASE ExportEnds
    BY <2>2 DEF ExportEnds, ExportShape, Reproduces
  <2>3. QED
    BY <2>1, <2>2
<1>3. SiteShape' /\ StampedFirst'
  BY <1>1, StampStays DEF SiteShape
<1>4. QED
  BY <1>1, <1>2, <1>3, ShelfStays

\* The stamp is of what is there when the report is asked for, and the ratings are
\* read later.
LEMMA CacheInv ==
  ASSUME BundlesInv, Stamp \/ Collect \/ StoreReport
  PROVE  BundlesInv'
<1> USE DEF BundlesInv
<1>1. UNCHANGED <<site, export, clerk, shelf>>
  BY DEF Stamp, Collect, StoreReport
<1>2. StampedFirst'
  <2>1. CASE Stamp
    <3>1. StampedFrom(Fingerprint(site.ratings), site.ratings)
      BY DEF StampedFrom
    <3>2. /\ DOMAIN cached' = DOMAIN cached /\ cached'.at = "stamped"
          /\ cached'.stamp = Fingerprint(site.ratings) /\ cached'.kept = cached.kept
      BY <2>1 DEF Stamp, StampedFirst
    <3>3. QED
      BY <1>1, <3>1, <3>2 DEF StampedFirst
  <2>2. CASE Collect
    <3>1. /\ DOMAIN cached' = DOMAIN cached /\ cached'.at = "collected"
          /\ cached'.stamp = cached.stamp /\ cached'.kept = cached.kept
          /\ cached'.used = site.ratings
      BY <2>2 DEF Collect, StampedFirst
    <3>2. QED
      BY <1>1, <2>2, <3>1 DEF StampedFirst, Collect
  <2>3. CASE StoreReport
    <3>1. /\ DOMAIN cached' = DOMAIN cached /\ cached'.at = "idle"
          /\ cached'.kept.stamp = cached.stamp /\ cached'.kept.used = cached.used
      BY <2>3 DEF StoreReport, StampedFirst, Stored
    <3>2. QED
      BY <1>1, <2>3, <3>1 DEF StampedFirst, StoreReport
  <2>4. QED
    BY <2>1, <2>2, <2>3
<1>3. SiteShape' /\ ExportShape'
  BY <1>1 DEF SiteShape, ExportShape
<1>4. QED
  BY <1>1, <1>2, <1>3, ShelfStays

\* The time of the last to begin, and the number of the last report on the shelf.
LEMMA LastAndNext ==
  ASSUME BundlesInv, NEW c \in Clerks
  PROVE  /\ Max(Began) \in Nat /\ \A d \in Clerks : clerk[d].began <= Max(Began)
         /\ \E d \in Clerks : clerk[d].began = Max(Began)
         /\ Versions = 1..Len(shelf) /\ Max(Versions \cup {0}) = Len(shelf) /\ Len(shelf) \in Nat
<1> USE DEF BundlesInv
<1>1. PICK d \in Clerks : \A e \in Clerks : clerk[e].began <= clerk[d].began
  BY DEF LastBegan
<1>2. Max(Began) = clerk[d].began
  <2>1. Began \in SUBSET Nat /\ clerk[d].began \in Began /\ \A y \in Began : y <= clerk[d].began
    BY <1>1 DEF Began, ClerkShape
  <2>2. QED
    BY <2>1, LargestOf
<1>3. Len(shelf) \in Nat /\ DOMAIN shelf = 1..Len(shelf)
  BY DEF ShelfShape
<1>4. Versions = 1..Len(shelf)
  <2>1. \A i \in 1..Len(shelf) : shelf[i].version = i
    BY DEF ShelfShape
  <2>2. QED
    BY <1>3, <2>1 DEF Versions
<1>5. Max(Versions \cup {0}) = Len(shelf)
  <2>1. /\ Versions \cup {0} \in SUBSET Nat /\ Len(shelf) \in Versions \cup {0}
        /\ \A y \in Versions \cup {0} : y <= Len(shelf)
    BY <1>3, <1>4
  <2>2. QED
    BY <2>1, LargestOf
<1>6. QED
  BY <1>1, <1>2, <1>3, <1>4, <1>5 DEF ClerkShape

\* What is on the shelf was begun by clerks that are done.
LEMMA OnShelf ==
  ASSUME ShelfShape
  PROVE  /\ Len(shelf) \in Nat /\ DOMAIN shelf = 1..Len(shelf)
         /\ \A i \in 1..Len(shelf) :
              /\ shelf[i].version = i /\ shelf[i].by \in Clerks /\ shelf[i].began \in Nat
              /\ clerk[shelf[i].by].at = "done" /\ clerk[shelf[i].by].began = shelf[i].began
         /\ \A i, j \in 1..Len(shelf) : i # j => shelf[i].by # shelf[j].by
BY DEF ShelfShape

\* The shelf stays while no clerk gets done.
LEMMA ShelfKept ==
  ASSUME ShelfShape, UNCHANGED shelf,
         \A d \in Clerks : (clerk'[d].at = "done") = (clerk[d].at = "done"),
         \A d \in Clerks : clerk[d].at = "done" => clerk'[d].began = clerk[d].began
  PROVE  ShelfShape'
<1>1. \A i \in 1..Len(shelf) :
        /\ shelf[i].version = i /\ shelf[i].by \in Clerks /\ shelf[i].began \in Nat
        /\ clerk'[shelf[i].by].at = "done" /\ clerk'[shelf[i].by].began = shelf[i].began
  BY OnShelf
<1>2. \A c \in Clerks : clerk'[c].at = "done" => \E i \in 1..Len(shelf) : shelf[i].by = c
  BY DEF ShelfShape
<1>3. QED
  BY <1>1, <1>2 DEF ShelfShape

\* Who begins is the last to begin, and misses what is on the shelf.
LEMMA ClerkBeginsInv ==
  ASSUME BundlesInv, NEW c \in Clerks, ClerkBegins(c)
  PROVE  ClerkShape' /\ LastBegan' /\ ShelfShape'
<1> USE DEF BundlesInv
<1>0. PICK m \in Nat : m = Max(Began)
  BY LastAndNext
<1>1. /\ clerk[c].at = "idle" /\ UNCHANGED shelf /\ DOMAIN clerk' = Clerks
      /\ clerk'[c] = [at |-> "computing", began |-> m + 1, seen |-> 0, missed |-> ToSet(shelf)]
      /\ \A d \in Clerks : d # c => clerk'[d] = clerk[d]
  BY <1>0 DEF ClerkBegins, ClerkShape
<1>2. \A d \in Clerks : clerk[d].began \in Nat /\ clerk[d].began <= m
  BY <1>0, LastAndNext DEF ClerkShape
<1>3. \A p \in ToSet(shelf) : p.began < m + 1
  <2>1. \A i \in DOMAIN shelf : shelf[i].began \in Nat /\ shelf[i].began <= m
    BY <1>2, OnShelf
  <2>2. QED
    BY <2>1 DEF ToSet
<1>4. ClerkShape'
  <2>1. \A d, e \in Clerks : d # e /\ clerk'[d].at # "idle" => clerk'[d].began # clerk'[e].began
    BY <1>1, <1>2 DEF ClerkShape
  <2>2. ASSUME NEW d \in Clerks
        PROVE  /\ DOMAIN clerk'[d] = {"at", "began", "seen", "missed"}
               /\ clerk'[d].at \in {"idle", "computing", "numbered", "refused", "done"}
               /\ clerk'[d].began \in Nat /\ clerk'[d].seen \in Nat
               /\ \A p \in clerk'[d].missed : p.began < clerk'[d].began
               /\ clerk'[d].at \in {"numbered", "refused"} => clerk'[d].seen <= Len(shelf)
               /\ clerk'[d].at = "refused" => clerk'[d].seen < Len(shelf)
    <3>1. CASE d = c
      BY <1>1, <1>3, <3>1
    <3>2. CASE d # c
      BY <1>1, <3>2 DEF ClerkShape
    <3>3. QED
      BY <3>1, <3>2
  <2>3. QED
    BY <1>1, <2>1, <2>2 DEF ClerkShape
<1>5. LastBegan'
  <2>1. \A d \in Clerks : clerk'[d].began <= clerk'[c].began
    BY <1>1, <1>2
  <2>2. QED
    BY <2>1 DEF LastBegan
<1>6. ShelfShape'
  BY <1>1, ShelfKept
<1>7. QED
  BY <1>4, <1>5, <1>6

\* Who reads is not done, and reads the last number there is.
LEMMA ClerkReadsInv ==
  ASSUME BundlesInv, NEW c \in Clerks, ClerkReads(c)
  PROVE  ClerkShape' /\ LastBegan' /\ ShelfShape'
<1> USE DEF BundlesInv
<1>1. /\ clerk[c].at = "computing" /\ UNCHANGED shelf /\ DOMAIN clerk' = Clerks
      /\ DOMAIN clerk'[c] = DOMAIN clerk[c] /\ clerk'[c].at = "numbered"
      /\ clerk'[c].seen = Len(shelf) /\ clerk'[c].began = clerk[c].began
      /\ clerk'[c].missed = clerk[c].missed
      /\ \A d \in Clerks : d # c => clerk'[d] = clerk[d]
  BY LastAndNext DEF ClerkReads, ClerkShape
<1>2. Len(shelf) \in Nat
  BY LastAndNext
<1>3. \A d \in Clerks : clerk'[d].began = clerk[d].began
  BY <1>1
<1>4. ClerkShape'
  <2>1. \A d, e \in Clerks : d # e /\ clerk'[d].at # "idle" => clerk'[d].began # clerk'[e].began
    BY <1>1, <1>3 DEF ClerkShape
  <2>2. ASSUME NEW d \in Clerks
        PROVE  /\ DOMAIN clerk'[d] = {"at", "began", "seen", "missed"}
               /\ clerk'[d].at \in {"idle", "computing", "numbered", "refused", "done"}
               /\ clerk'[d].began \in Nat /\ clerk'[d].seen \in Nat
               /\ \A p \in clerk'[d].missed : p.began < clerk'[d].began
               /\ clerk'[d].at \in {"numbered", "refused"} => clerk'[d].seen <= Len(shelf)
               /\ clerk'[d].at = "refused" => clerk'[d].seen < Len(shelf)
    BY <1>1, <1>2 DEF ClerkShape
  <2>3. QED
    BY <1>1, <2>1, <2>2 DEF ClerkShape
<1>5. LastBegan'
  BY <1>3 DEF LastBegan
<1>6. ShelfShape'
  BY <1>1, ShelfKept
<1>7. QED
  BY <1>4, <1>5, <1>6

\* Who commits puts the next number on the shelf, or is refused.
LEMMA ClerkCommitsInv ==
  ASSUME BundlesInv, NEW c \in Clerks, ClerkCommits(c)
  PROVE  ClerkShape' /\ LastBegan' /\ ShelfShape'
<1> USE DEF BundlesInv
<1>0. PICK n \in Nat : n = Len(shelf)
  BY LastAndNext
<1>1. /\ clerk[c].at = "numbered" /\ DOMAIN clerk' = Clerks
      /\ DOMAIN clerk'[c] = DOMAIN clerk[c] /\ clerk'[c].seen = clerk[c].seen
      /\ clerk'[c].began = clerk[c].began /\ clerk'[c].missed = clerk[c].missed
      /\ \A d \in Clerks : d # c => clerk'[d] = clerk[d]
  BY DEF ClerkCommits, ClerkShape
<1>2. clerk[c].seen \in Nat /\ clerk[c].seen <= n /\ (clerk[c].seen + 1 \in Versions <=> clerk[c].seen < n)
  BY <1>0, <1>1, LastAndNext DEF ClerkShape
<1>3. \/ clerk[c].seen < n /\ clerk'[c].at = "refused" /\ shelf' = shelf
      \/ /\ clerk[c].seen = n /\ clerk'[c].at = "done"
         /\ shelf' = Append(shelf, [version |-> n + 1, began |-> clerk[c].began, by |-> c])
  BY <1>2 DEF ClerkCommits, ClerkShape
<1>4. \A d \in Clerks : clerk'[d].began = clerk[d].began
  BY <1>1
<1>5. Len(shelf') \in Nat /\ n <= Len(shelf')
  BY <1>0, <1>3 DEF ShelfShape
<1>6. ClerkShape'
  <2>1. \A d, e \in Clerks : d # e /\ clerk'[d].at # "idle" => clerk'[d].began # clerk'[e].began
    BY <1>1, <1>4 DEF ClerkShape
  <2>2. ASSUME NEW d \in Clerks
        PROVE  /\ DOMAIN clerk'[d] = {"at", "began", "seen", "missed"}
               /\ clerk'[d].at \in {"idle", "computing", "numbered", "refused", "done"}
               /\ clerk'[d].began \in Nat /\ clerk'[d].seen \in Nat
               /\ \A p \in clerk'[d].missed : p.began < clerk'[d].began
               /\ clerk'[d].at \in {"numbered", "refused"} => clerk'[d].seen <= Len(shelf')
               /\ clerk'[d].at = "refused" => clerk'[d].seen < Len(shelf')
    <3>1. CASE d = c
      BY <1>0, <1>1, <1>2, <1>3, <1>5, <3>1 DEF ClerkShape
    <3>2. CASE d # c
      BY <1>0, <1>1, <1>5, <3>2 DEF ClerkShape
    <3>3. QED
      BY <3>1, <3>2
  <2>3. QED
    BY <1>1, <2>1, <2>2 DEF ClerkShape
<1>7. LastBegan'
  BY <1>4 DEF LastBegan
<1>8. ShelfShape'
  <2>1. \A i \in 1..n : shelf[i].by \in Clerks /\ shelf[i].by # c
    BY <1>0, <1>1, OnShelf
  <2>2. CASE shelf' = shelf /\ clerk'[c].at = "refused"
    <3>1. \A d \in Clerks : (clerk'[d].at = "done") = (clerk[d].at = "done")
      BY <1>1, <2>2
    <3>2. QED
      BY <1>4, <2>2, <3>1, ShelfKept
  <2>3. CASE /\ clerk'[c].at = "done"
             /\ shelf' = Append(shelf, [version |-> n + 1, began |-> clerk[c].began, by |-> c])
    <3> DEFINE new == [version |-> n + 1, began |-> clerk[c].began, by |-> c]
    <3>1. new \in [version : Nat, began : Nat, by : Clerks]
      BY DEF ClerkShape
    <3>2. /\ shelf' \in Seq([version : Nat, began : Nat, by : Clerks]) /\ Len(shelf') = n + 1
          /\ shelf'[n + 1] = new /\ \A i \in 1..n : shelf'[i] = shelf[i]
      BY <1>0, <2>3, <3>1 DEF ShelfShape
    <3>3. new.version = n + 1 /\ new.began = clerk[c].began /\ new.by = c
      OBVIOUS
    <3> HIDE DEF new
    <3>4. \A i \in 1..(n + 1) : i \in 1..n \/ i = n + 1
      OBVIOUS
    <3>5. \A i \in 1..(n + 1) :
            /\ shelf'[i].version = i /\ shelf'[i].by \in Clerks /\ shelf'[i].began \in Nat
            /\ clerk'[shelf'[i].by].at = "done" /\ clerk'[shelf'[i].by].began = shelf'[i].began
      <4>1. ASSUME NEW i \in 1..n
            PROVE  /\ shelf'[i].version = i /\ shelf'[i].by \in Clerks /\ shelf'[i].began \in Nat
                   /\ clerk'[shelf'[i].by].at = "done"
                   /\ clerk'[shelf'[i].by].began = shelf'[i].began
        <5>1. shelf'[i] = shelf[i] /\ i \in 1..Len(shelf)
          BY <1>0, <3>2
        <5>2. PICK b \in Clerks : b = shelf[i].by /\ b # c
          BY <2>1
        <5>3. /\ shelf[i].version = i /\ shelf[i].began \in Nat
              /\ clerk[b].at = "done" /\ clerk[b].began = shelf[i].began
          BY <5>1, <5>2, OnShelf
        <5>4. clerk'[b] = clerk[b]
          BY <1>1, <5>2
        <5>5. QED
          BY <5>1, <5>2, <5>3, <5>4
      <4>2. /\ shelf'[n + 1].version = n + 1 /\ shelf'[n + 1].by = c
            /\ shelf'[n + 1].began = clerk'[c].began /\ shelf'[n + 1].began \in Nat
        BY <1>1, <3>2, <3>3 DEF ClerkShape
      <4>3. QED
        BY <2>3, <3>4, <4>1, <4>2
    <3>6. \A i, j \in 1..(n + 1) : i # j => shelf'[i].by # shelf'[j].by
      <4>1. \A i, j \in 1..n : i # j => shelf'[i].by # shelf'[j].by
        <5>1. \A i, j \in 1..n : i # j => shelf[i].by # shelf[j].by
          BY <1>0, OnShelf
        <5>2. QED
          BY <3>2, <5>1
      <4>2. \A i \in 1..n : shelf'[i].by # shelf'[n + 1].by
        BY <2>1, <3>2, <3>3
      <4>3. QED
        BY <3>4, <4>1, <4>2
    <3>7. \A d \in Clerks : clerk'[d].at = "done" => \E i \in 1..(n + 1) : shelf'[i].by = d
      <4>1. ASSUME NEW d \in Clerks, clerk'[d].at = "done", d # c
            PROVE  \E i \in 1..(n + 1) : shelf'[i].by = d
        <5>1. PICK i \in 1..n : shelf[i].by = d
          BY <1>0, <1>1, <4>1 DEF ShelfShape
        <5>2. QED
          BY <3>2, <5>1
      <4>2. shelf'[n + 1].by = c /\ n + 1 \in 1..(n + 1)
        BY <3>2, <3>3
      <4>3. QED
        BY <4>1, <4>2
    <3>8. \E i \in 1..(n + 1) : \A j \in 1..(n + 1) : shelf'[j].began <= shelf'[i].began
      <4>1. PICK w \in Nat : w = clerk[c].began
        BY DEF ClerkShape
      <4>2. shelf'[n + 1].began = w /\ \A j \in 1..n : shelf'[j].began = shelf[j].began /\ shelf[j].began \in Nat
        BY <1>0, <3>2, <3>3, <4>1, OnShelf
      <4>3. CASE n = 0
        <5>1. \A j \in 1..(n + 1) : j = n + 1
          BY <4>3
        <5>2. n + 1 \in 1..(n + 1)
          BY <4>3
        <5>3. \A j \in 1..(n + 1) : shelf'[j].began = w
          BY <4>2, <5>1
        <5>4. shelf'[n + 1].began <= shelf'[n + 1].began
          BY <4>2
        <5>5. QED
          BY <5>1, <5>2, <5>4
      <4>4. CASE n # 0
        <5>1. PICK i \in 1..n : \A j \in 1..n : shelf[j].began <= shelf[i].began
          BY <1>0, <4>4 DEF ShelfShape
        <5>2. PICK u \in Nat : u = shelf[i].began
          BY <4>2
        <5>3. CASE w <= u
          <6>1. \A j \in 1..(n + 1) : shelf'[j].began <= shelf'[i].began
            BY <3>4, <4>2, <5>1, <5>2, <5>3
          <6>2. QED
            BY <6>1
        <5>4. CASE u <= w
          <6>1. \A j \in 1..n : shelf[j].began <= w
            BY <4>2, <5>1, <5>2, <5>4
          <6>2. \A j \in 1..(n + 1) : shelf'[j].began <= shelf'[n + 1].began
            BY <3>4, <4>2, <6>1
          <6>3. QED
            BY <6>2
        <5>5. QED
          BY <5>3, <5>4
      <4>5. QED
        BY <4>3, <4>4
    <3>9. QED
      BY <3>2, <3>5, <3>6, <3>7, <3>8 DEF ShelfShape
  <2>4. QED
    BY <1>3, <2>2, <2>3
<1>9. QED
  BY <1>6, <1>7, <1>8

\* Every step of raters, exports, caches and clerks keeps the invariant.
LEMMA BundlesStepInv ==
  ASSUME BundlesInv, [BundlesNext]_bundleVars
  PROVE  BundlesInv'
<1>1. CASE Rate
  BY <1>1, RateInv
<1>2. CASE Rejudge \/ LoseArchive
  BY <1>2, SiteInv
<1>3. CASE ExportReads \/ ExportEnds
  BY <1>3, ExportInv
<1>4. CASE Stamp \/ Collect \/ StoreReport
  BY <1>4, CacheInv
<1>5. ASSUME NEW c \in Clerks, ClerkBegins(c) \/ ClerkReads(c) \/ ClerkCommits(c)
      PROVE  BundlesInv'
  <2>1. UNCHANGED <<site, export, cached>>
    BY <1>5 DEF ClerkBegins, ClerkReads, ClerkCommits
  <2>2. SiteShape' /\ ExportShape' /\ StampedFirst'
    BY <2>1, StampStays DEF BundlesInv, SiteShape, ExportShape
  <2>3. QED
    BY <1>5, <2>2, ClerkBeginsInv, ClerkReadsInv, ClerkCommitsInv DEF BundlesInv
<1>6. CASE UNCHANGED bundleVars
  <2>1. UNCHANGED <<site, export, cached, clerk, shelf>>
    BY <1>6 DEF bundleVars
  <2>2. QED
    BY <2>1, StampStays, ShelfStays DEF BundlesInv, SiteShape, ExportShape
<1>7. QED
  BY <1>1, <1>2, <1>3, <1>4, <1>5, <1>6 DEF BundlesNext

\* Ratings of one fingerprint, the ones among the others, are the same ratings.
LEMMA CacheIsCurrent ==
  ASSUME BundlesAssumption, BundlesInv
  PROVE  CacheCurrent
<1> USE DEF BundlesInv
<1>1. SUFFICES ASSUME cached.kept.stamp = Fingerprint(site.ratings)
               PROVE  cached.kept.used = site.ratings
  BY DEF CacheCurrent, UpToDate
<1>2. IsFiniteSet(site.ratings) /\ Cardinality(site.ratings) \in Nat
  <2>1. IsFiniteSet(1..MaxRatings)
    BY FS_Interval DEF BundlesAssumption
  <2>2. QED
    BY <2>1, FS_Subset, FS_CardinalityType DEF SiteShape, Ratings
<1>3. PICK seen \in SUBSET cached.kept.used : cached.kept.stamp = Fingerprint(seen)
  <2>1. cached.kept.stamp[1] # -1
    BY <1>1, <1>2 DEF Fingerprint
  <2>2. QED
    BY <2>1 DEF StampedFirst, StampedFrom
<1>4. cached.kept.used \in SUBSET site.ratings /\ seen \in SUBSET site.ratings
  BY <1>3 DEF StampedFirst
<1>5. Cardinality(seen) = Cardinality(site.ratings)
  BY <1>1, <1>3 DEF Fingerprint
<1>6. seen = site.ratings
  BY <1>2, <1>4, <1>5, FS_Subset
<1>7. QED
  BY <1>3, <1>4, <1>6

\* The report that began last is the one that is shown.
LEMMA OneIsShown ==
  ASSUME BundlesInv, shelf # <<>>
  PROVE  \E i \in 1..Len(shelf) :
           Shown = {shelf[i]} /\ \A j \in 1..Len(shelf) : shelf[j].began <= shelf[i].began
<1> USE DEF BundlesInv
<1>1. PICK i \in 1..Len(shelf) : \A j \in 1..Len(shelf) : shelf[j].began <= shelf[i].began
  BY DEF ShelfShape
<1>2. \A j \in 1..Len(shelf) : j # i => shelf[j].began < shelf[i].began
  <2>1. ASSUME NEW j \in 1..Len(shelf), j # i
        PROVE  shelf[j].began < shelf[i].began
    <3>1. PICK b \in Clerks, d \in Clerks : b = shelf[i].by /\ d = shelf[j].by /\ b # d
      BY <2>1, OnShelf
    <3>2. clerk[b].began = shelf[i].began /\ clerk[d].began = shelf[j].began /\ clerk[b].at = "done"
      BY <3>1, OnShelf
    <3>3. shelf[i].began # shelf[j].began
      BY <3>1, <3>2 DEF ClerkShape
    <3>4. shelf[i].began \in Nat /\ shelf[j].began \in Nat
      BY OnShelf
    <3>5. QED
      BY <1>1, <3>3, <3>4
  <2>2. QED
    BY <2>1
<1>3. ToSet(shelf) = {shelf[j] : j \in 1..Len(shelf)}
  BY OnShelf DEF ToSet
<1>4. shelf[i] \in Shown
  <2>1. \A j \in 1..Len(shelf) : Latest2(shelf[i], shelf[j])
    <3>1. ASSUME NEW j \in 1..Len(shelf) PROVE Latest2(shelf[i], shelf[j])
      <4>1. CASE j = i
        BY <4>1, OnShelf DEF Latest2
      <4>2. CASE j # i
        <5>1. shelf[i].began \in Nat /\ shelf[j].began \in Nat
          BY OnShelf
        <5>2. QED
          BY <1>2, <4>2, <5>1 DEF Latest2
      <4>3. QED
        BY <4>1, <4>2
    <3>2. QED
      BY <3>1
  <2>2. QED
    BY <1>3, <2>1 DEF Shown
<1>5. ASSUME NEW j \in 1..Len(shelf), j # i PROVE shelf[j] \notin Shown
  <2>1. shelf[j].began < shelf[i].began /\ shelf[i].began \in Nat /\ shelf[j].began \in Nat
    BY <1>2, <1>5, OnShelf
  <2>2. ~Latest2(shelf[j], shelf[i])
    BY <2>1 DEF Latest2
  <2>3. QED
    BY <1>3, <2>2 DEF Shown
<1>6. Shown = {shelf[i]}
  <2>1. Shown \in SUBSET ToSet(shelf)
    BY DEF Shown
  <2>2. QED
    BY <1>3, <1>4, <1>5, <2>1
<1>7. QED
  BY <1>1, <1>6

\* Numbers without gaps, refusals with a rival, and nothing old is shown.
LEMMA VersionsAreSound ==
  ASSUME BundlesInv
  PROVE  VersionsSound
<1> USE DEF BundlesInv
<1>1. \A i \in DOMAIN shelf : shelf[i].version = i
  BY OnShelf
<1>2. \A c \in Clerks : clerk[c].at = "refused" =>
        \E i \in DOMAIN shelf : shelf[i].version = clerk[c].seen + 1 /\ shelf[i].by # c
  <2>1. ASSUME NEW c \in Clerks, clerk[c].at = "refused"
        PROVE  \E i \in DOMAIN shelf : shelf[i].version = clerk[c].seen + 1 /\ shelf[i].by # c
    <3>1. PICK k \in 1..Len(shelf) : k = clerk[c].seen + 1
      BY <2>1, OnShelf DEF ClerkShape
    <3>2. shelf[k].version = k /\ clerk[shelf[k].by].at = "done" /\ k \in DOMAIN shelf
      BY OnShelf
    <3>3. shelf[k].by # c
      BY <2>1, <3>2
    <3>4. QED
      BY <3>1, <3>2, <3>3
  <2>2. QED
    BY <2>1
<1>3. shelf # <<>> => Cardinality(Shown) = 1
  BY OneIsShown, FS_Singleton
<1>4. \A p \in Shown : \A c \in Clerks : clerk[c].at = "done" => p \notin clerk[c].missed
  <2>1. ASSUME NEW p \in Shown, NEW c \in Clerks, clerk[c].at = "done"
        PROVE  p \notin clerk[c].missed
    <3>1. PICK k \in 1..Len(shelf) : shelf[k].by = c
      BY <2>1 DEF ShelfShape
    <3>2. shelf # <<>>
      BY <3>1
    <3>3. PICK i \in 1..Len(shelf) :
            Shown = {shelf[i]} /\ \A j \in 1..Len(shelf) : shelf[j].began <= shelf[i].began
      BY <3>2, OneIsShown
    <3>4. p = shelf[i] /\ p.began \in Nat /\ shelf[k].began <= p.began
      BY <3>3, OnShelf
    <3>5. clerk[c].began = shelf[k].began /\ shelf[k].began \in Nat
      BY <3>1, OnShelf
    <3>6. \A q \in clerk[c].missed : q.began < clerk[c].began
      BY DEF ClerkShape
    <3>7. ~(p.began < clerk[c].began)
      BY <3>4, <3>5
    <3>8. QED
      BY <3>6, <3>7
  <2>2. QED
    BY <2>1
<1>5. QED
  BY <1>1, <1>2, <1>3, <1>4 DEF VersionsSound

\* What is written verifies, and not once it is changed.
LEMMA BundleIsWritten ==
  ASSUME BundlesAssumption, BundlesInv
  PROVE  BundleWritten
<1> SUFFICES ASSUME export.at = "written"
             PROVE  /\ Verify(Exported)
                    /\ ~Verify([Exported EXCEPT !.blobs = <<>>])
                    /\ ~Verify([Exported EXCEPT !.blobs = Blobs({<<"record", 1>>}, "other")])
                    /\ ~Verify([Exported EXCEPT !.blobs = Blobs({<<"record", 1>>, <<"record", 2>>}, "archive")])
                    /\ ~Verify([Exported EXCEPT !.score = 2])
                    /\ ~Verify([Exported EXCEPT !.ratings = @ \cup {MaxRatings + 1}])
  BY DEF BundleWritten
<1> DEFINE one == <<"record", 1>>
           b == Blobs({one}, "archive")
           manifest == [digests |-> b, records |-> 1, journals |-> 0]
           headline == <<export.score, export.profile, export.ratings>>
<1>1. /\ export.ratings = export.live /\ export.blobs = b
      /\ export.score \in {0, 1} /\ export.ratings \in SUBSET (1..MaxRatings)
  BY DEF BundlesInv, ExportShape, Ratings
<1>2. \A files : Verify(files) <=>
        /\ <<files.score, files.profile, files.ratings>> = files.expected.headline
        /\ CheckBlobs(files.blobs, files.manifest)
  BY DEF Verify, Recompute
<1>3. /\ Exported.score = export.score /\ Exported.profile = export.profile
      /\ Exported.ratings = export.ratings /\ Exported.blobs = b
      /\ Exported.manifest = manifest /\ Exported.expected.headline = headline
      /\ DOMAIN Exported = {"score", "profile", "ratings", "rest", "blobs", "manifest", "expected"}
  BY <1>1 DEF Exported, Recompute
<1>4. CheckBlobs(b, manifest)
  <2>1. DOMAIN b = {one} /\ b[one] = "archive"
    BY DEF Blobs
  <2>2. OfKind(b, "record") = {one} /\ OfKind(b, "journal") = {}
    BY <2>1 DEF OfKind, Kind
  <2>3. Cardinality({one}) = 1 /\ Cardinality({}) = 0
    BY FS_Singleton, FS_EmptySet
  <2>4. QED
    BY <2>1, <2>2, <2>3 DEF CheckBlobs
<1>5. Verify(Exported)
  BY <1>2, <1>3, <1>4
<1>6. ~CheckBlobs(<<>>, manifest) /\ ~CheckBlobs(Blobs({one}, "other"), manifest)
  <2>1. one \in DOMAIN manifest.digests /\ manifest.digests[one] = "archive"
    BY DEF Blobs
  <2>2. one \notin DOMAIN <<>> /\ Blobs({one}, "other")[one] # "archive"
    BY DEF Blobs
  <2>3. QED
    BY <2>1, <2>2 DEF CheckBlobs
<1>7. ~CheckBlobs(Blobs({one, <<"record", 2>>}, "archive"), manifest)
  <2> DEFINE more == Blobs({one, <<"record", 2>>}, "archive")
  <2>1. OfKind(more, "record") = {one, <<"record", 2>>}
    BY DEF OfKind, Kind, Blobs
  <2>2. Cardinality({one, <<"record", 2>>}) = 2
    <3>1. one # <<"record", 2>>
      OBVIOUS
    <3>2. IsFiniteSet({one}) /\ Cardinality({one}) = 1
      BY FS_Singleton
    <3>3. {one, <<"record", 2>>} = {one} \cup {<<"record", 2>>} /\ <<"record", 2>> \notin {one}
      BY <3>1
    <3>4. Cardinality({one} \cup {<<"record", 2>>}) = Cardinality({one}) + 1
      BY <3>2, <3>3, FS_AddElement
    <3>5. QED
      BY <3>2, <3>3, <3>4
  <2>3. QED
    BY <2>1, <2>2 DEF CheckBlobs
<1>8. /\ ~Verify([Exported EXCEPT !.blobs = <<>>])
      /\ ~Verify([Exported EXCEPT !.blobs = Blobs({one}, "other")])
      /\ ~Verify([Exported EXCEPT !.blobs = Blobs({one, <<"record", 2>>}, "archive")])
  <2>1. \A blobs : LET f == [Exported EXCEPT !.blobs = blobs]
                   IN f.blobs = blobs /\ f.manifest = manifest
    BY <1>3
  <2>2. QED
    BY <1>2, <1>6, <1>7, <2>1
<1>9. ~Verify([Exported EXCEPT !.score = 2])
  <2> DEFINE f == [Exported EXCEPT !.score = 2]
  <2>1. f.score = 2 /\ f.expected.headline = headline /\ headline[1] # 2
    BY <1>1, <1>3
  <2>2. <<f.score, f.profile, f.ratings>> # f.expected.headline
    BY <2>1
  <2>3. QED
    BY <1>2, <2>2
<1>10. ~Verify([Exported EXCEPT !.ratings = @ \cup {MaxRatings + 1}])
  <2> DEFINE f == [Exported EXCEPT !.ratings = @ \cup {MaxRatings + 1}]
  <2>1. f.ratings = export.ratings \cup {MaxRatings + 1} /\ f.expected.headline = headline
    BY <1>3
  <2>2. MaxRatings + 1 \notin export.ratings
    BY <1>1 DEF BundlesAssumption
  <2>3. f.ratings # export.ratings
    BY <2>1, <2>2
  <2>4. <<f.score, f.profile, f.ratings>> # f.expected.headline
    BY <2>1, <2>3
  <2>5. QED
    BY <1>2, <2>4
<1>11. QED
  BY <1>5, <1>8, <1>9, <1>10

\* A value is written and read back as it was.
LEMMA ReadBack ==
  ASSUME NEW v, \/ v.type \notin {"date", "datetime"}
                \/ \E moment : v = [type |-> "datetime", v |-> moment]
                \/ \E day : v = [type |-> "date", v |-> <<day>>]
  PROVE  Decode(Encode(v)) = v
<1>1. CASE v.type \notin {"date", "datetime"}
  BY <1>1 DEF Encode, Decode
<1>2. CASE \E moment : v = [type |-> "datetime", v |-> moment]
  BY <1>2 DEF Encode, Decode
<1>3. CASE \E day : v = [type |-> "date", v |-> <<day>>]
  <2>1. PICK day : v = [type |-> "date", v |-> <<day>>]
    BY <1>3
  <2>2. Encode(v) = [type |-> "date", v |-> day]
    BY <2>1 DEF Encode
  <2>3. QED
    BY <2>1, <2>2 DEF Decode
<1>4. QED
  BY <1>1, <1>2, <1>3

\* What a row becomes in the archive, and there again.
LEMMA RowsReadBack ==
  ASSUME NEW row \in RowReadings
  PROVE  /\ LoadRow(DumpRow(row), {"id", "at"}) = [refused |-> FALSE, row |-> row]
         /\ LoadRow(DumpRow(row), {"id"}).refused
         /\ LET wider == LoadRow(DumpRow(row), {"id", "at", "new"}) IN
            ~wider.refused /\ \A c \in {"id", "at"} : wider.row[c] = row[c]
<1>1. /\ row = [c \in {"id", "at"} |-> row[c]]
      /\ \A c \in {"id", "at"} : row[c] \in {[type |-> "uuid", v |-> <<1>>], [type |-> "datetime", v |-> <<1, 2>>],
                    [type |-> "date", v |-> <<1>>], [type |-> "plain", v |-> <<3>>]}
  BY DEF RowReadings
<1>2. DumpRow(row) = [c \in {"id", "at"} |-> Encode(row[c])]
  BY <1>1 DEF DumpRow
<1>3. \A c \in {"id", "at"} : Decode(DumpRow(row)[c]) = row[c]
  <2>1. ASSUME NEW c \in {"id", "at"} PROVE Decode(Encode(row[c])) = row[c]
    <3>1. CASE row[c] = [type |-> "date", v |-> <<1>>]
      BY <3>1, ReadBack
    <3>2. CASE row[c] = [type |-> "datetime", v |-> <<1, 2>>]
      BY <3>2, ReadBack
    <3>3. CASE row[c] \in {[type |-> "uuid", v |-> <<1>>], [type |-> "plain", v |-> <<3>>]}
      BY <3>3, ReadBack
    <3>4. QED
      BY <1>1, <3>1, <3>2, <3>3
  <2>2. QED
    BY <1>2, <2>1
<1>4. LoadRow(DumpRow(row), {"id", "at"}) = [refused |-> FALSE, row |-> row]
  <2>1. [c \in {"id", "at"} |-> IF c \in DOMAIN DumpRow(row) THEN Decode(DumpRow(row)[c]) ELSE None] = row
    BY <1>1, <1>2, <1>3
  <2>2. ~(DOMAIN DumpRow(row) \subseteq {"id", "at"}) = FALSE
    BY <1>2
  <2>3. QED
    BY <2>1, <2>2 DEF LoadRow
<1>5. LoadRow(DumpRow(row), {"id"}).refused
  BY <1>2 DEF LoadRow
<1>6. LET wider == LoadRow(DumpRow(row), {"id", "at", "new"}) IN
      ~wider.refused /\ \A c \in {"id", "at"} : wider.row[c] = row[c]
  BY <1>2, <1>3 DEF LoadRow
<1>7. QED
  BY <1>4, <1>5, <1>6

\* A journal that is exported is of an ended attempt and has no gap.
LEMMA JournalsWhole ==
  ASSUME NEW a \in AttemptReadings, JournalWhole(a)
  PROVE  /\ a.status # "running" /\ a.seqs # <<1>> /\ a.next = Len(a.seqs)
         /\ a.status = "lost" \/ a.next > 0
BY DEF AttemptReadings, JournalWhole

\* Rows and journals come back as they were written.
LEMMA ArchivesAreSound == ArchivesSound
BY RowsReadBack, JournalsWhole DEF ArchivesSound

\* Whatever was run, no field is both captured and missing.
LEMMA CapturedOrMissing ==
  ASSUME NEW task, NEW e
  PROVE  Manifest(task, e).captured \cap Manifest(task, e).missing = {}
BY DEF Manifest

\* A snapshot that was taken says what was run.
LEMMA SnapshotTaken ==
  ASSUME NEW task, NEW e, Snapshot2(task, e) # None
  PROVE  /\ Snapshot2(task, e).determinism = Determinism(task, e)
         /\ Snapshot2(task, e).manifest = Manifest(task, e)
         /\ Snapshot2(task, e).content.harness = e.harness
BY DEF Snapshot2

\* The fingerprints are equal exactly if no path differs.
LEMMA DifferencesTold ==
  ASSUME NEW s, NEW t, NEW e, NEW f, NEW a, NEW b,
         a.determinism = Determinism(s, e), b.determinism = Determinism(t, f)
  PROVE  LET d == Diff(a, b)
         IN d.identical = (d.added = {} /\ d.removed = {} /\ d.changed = {})
<1> DEFINE p == Paths(a.determinism)
           q == Paths(b.determinism)
           Same == /\ DOMAIN q \ DOMAIN p = {} /\ DOMAIN p \ DOMAIN q = {}
                   /\ {k \in DOMAIN p \cap DOMAIN q : p[k] # q[k]} = {}
           Added == {"connector", "image", "conditions"}
<1>1. Diff(a, b) = [identical |-> a.determinism = b.determinism,
                   added |-> DOMAIN q \ DOMAIN p, removed |-> DOMAIN p \ DOMAIN q,
                   changed |-> {k \in DOMAIN p \cap DOMAIN q : p[k] # q[k]}]
  BY DEF Diff
<1>2. a.determinism = b.determinism => Same
  OBVIOUS
<1>3. ASSUME Same PROVE a.determinism = b.determinism
  <2>1. DOMAIN p = DOMAIN q /\ \A k \in DOMAIN p : p[k] = q[k]
    BY <1>3
  <2> HIDE DEF Same
  <2>2. /\ DOMAIN a.determinism = Unnested \cup {"harness"} /\ DOMAIN b.determinism = Unnested \cup {"harness"}
        /\ a.determinism = [k \in Unnested \cup {"harness"} |-> a.determinism[k]]
        /\ b.determinism = [k \in Unnested \cup {"harness"} |-> b.determinism[k]]
    BY DEF Determinism, Unnested
  <2>3. /\ Unnested \in SUBSET DOMAIN p /\ Unnested \in SUBSET DOMAIN q
        /\ \A k \in Unnested : p[k] = a.determinism[k] /\ q[k] = b.determinism[k]
        /\ "image" \in DOMAIN p <=> a.determinism.harness # None
        /\ "image" \in DOMAIN q <=> b.determinism.harness # None
        /\ a.determinism.harness # None =>
              Added \in SUBSET DOMAIN p /\ \A k \in Added : p[k] = a.determinism.harness[k]
        /\ b.determinism.harness # None => \A k \in Added : q[k] = b.determinism.harness[k]
    BY DEF Paths, Unnested
  <2> HIDE DEF p, q
  <2>4. a.determinism.harness # None =>
          a.determinism.harness = [connector |-> a.determinism.harness["connector"],
                                   image |-> a.determinism.harness["image"],
                                   conditions |-> a.determinism.harness["conditions"]]
    BY DEF Determinism, Identity
  <2>5. b.determinism.harness # None =>
          b.determinism.harness = [connector |-> b.determinism.harness["connector"],
                                   image |-> b.determinism.harness["image"],
                                   conditions |-> b.determinism.harness["conditions"]]
    BY DEF Determinism, Identity
  <2>6. a.determinism.harness = b.determinism.harness
    BY <2>1, <2>3, <2>4, <2>5
  <2>7. \A k \in Unnested \cup {"harness"} : a.determinism[k] = b.determinism[k]
    BY <2>1, <2>3, <2>6
  <2>8. QED
    BY <2>2, <2>7
<1>4. QED
  BY <1>1, <1>2, <1>3

\* Two runs with one fingerprint had the same inputs, and the other way round.
LEMMA FingerprintTells ==
  ASSUME BundlesAssumption,
         NEW e \in ExecutionReadings, NEW f \in ExecutionReadings,
         NEW s \in TaskReadings, NEW t \in TaskReadings
  PROVE  Determinism(s, e) = Determinism(t, f) <=> SameInputs(s, e, t, f)
<1>1. SameInputs(s, e, t, f) => Determinism(s, e) = Determinism(t, f)
  <2>1. SameInputs(s, e, t, f) => Identity(e.harness) = Identity(f.harness)
    BY DEF SameInputs, Conditions, Identity
  <2>2. QED
    BY <2>1 DEF SameInputs, Determinism
<1>2. ASSUME Determinism(s, e) = Determinism(t, f) PROVE SameInputs(s, e, t, f)
  <2>1. /\ e.model = f.model /\ e.tools = f.tools /\ s.temperature = t.temperature /\ s.seed = t.seed
        /\ Hashed(e.soul) = Hashed(f.soul) /\ Hashed(s.prompt) = Hashed(t.prompt)
        /\ Identity(e.harness) = Identity(f.harness)
    BY <1>2 DEF Determinism
  <2>2. /\ e.soul \in Texts /\ f.soul \in Texts /\ s.prompt \in Texts /\ t.prompt \in Texts
        /\ e.harness \in Harnesses \cup {None} /\ f.harness \in Harnesses \cup {None}
    BY DEF ExecutionReadings, TaskReadings, Texts, HarnessReadings
  <2>3. \A x, y \in Texts : Hashed(x) = Hashed(y) => x = y
    BY BundlesAssumption DEF Texts, Hashed, Digest, BundlesAssumption
  <2>4. e.harness = None <=> f.harness = None
    BY <2>1, <2>2, IdentityAssumption DEF Identity
  <2>5. e.harness # None => Conditions(e.harness) = Conditions(f.harness)
    BY <2>1, <2>4 DEF Identity, Digest
  <2>6. QED
    BY <2>1, <2>2, <2>3, <2>4, <2>5 DEF SameInputs
<1>3. QED
  BY <1>1, <1>2

\* Of every field, no more records capture it or miss it than there are.
LEMMA CoverageCounts ==
  ASSUME NEW snapshots, IsFiniteSet(DOMAIN snapshots), NEW k,
         \A i \in DOMAIN snapshots : snapshots[i] # None =>
           snapshots[i].manifest.captured \cap snapshots[i].manifest.missing = {}
  PROVE  LET told == Coverage(snapshots)
         IN k \in DOMAIN told.captured => told.captured[k] + told.missing[k] <= told.with
<1> DEFINE there == {i \in DOMAIN snapshots : snapshots[i] # None}
           with == {i \in there : k \in snapshots[i].manifest.captured}
           without == {i \in there : k \in snapshots[i].manifest.missing}
<1>1. IsFiniteSet(there) /\ IsFiniteSet(with) /\ IsFiniteSet(without) /\ IsFiniteSet(with \cup without)
  <2>1. /\ there \in SUBSET DOMAIN snapshots /\ with \in SUBSET DOMAIN snapshots
        /\ without \in SUBSET DOMAIN snapshots /\ with \cup without \in SUBSET DOMAIN snapshots
    OBVIOUS
  <2>2. QED
    BY <2>1, FS_Subset
<1>2. with \cap without = {}
  OBVIOUS
<1>3. with \cup without \in SUBSET there
  OBVIOUS
<1> HIDE DEF there, with, without
<1>4. Cardinality(with \cup without) <= Cardinality(there)
  BY <1>1, <1>3, FS_Subset
<1>5. Cardinality(with \cup without) = Cardinality(with) + Cardinality(without) - Cardinality(with \cap without)
  BY <1>1, FS_Union
<1>6. /\ Cardinality(with) \in Nat /\ Cardinality(without) \in Nat /\ Cardinality(there) \in Nat
      /\ Cardinality(with \cap without) = 0
  BY <1>1, <1>2, FS_CardinalityType, FS_EmptySet
<1>7. Cardinality(with) + Cardinality(without) <= Cardinality(there)
  BY <1>4, <1>5, <1>6
<1>8. LET told == Coverage(snapshots)
      IN /\ k \in DOMAIN told.captured => told.captured[k] = Cardinality(with) /\ told.missing[k] = Cardinality(without)
         /\ told.with = Cardinality(there)
  BY DEF Coverage, there, with, without
<1>9. QED
  BY <1>7, <1>8

\* What a snapshot kept of the harness can be run again exactly if nothing of it
\* is missing.
LEMMA ReplayTold ==
  ASSUME NEW task, NEW e, NEW a, a.manifest = Manifest(task, e), a.content.harness = e.harness
  PROVE  Replayable(a) <=> /\ a.content.harness # None
                           /\ a.content.harness.connector # "legacy"
                           /\ {"image", "applied_config"} \subseteq a.manifest.captured
<1>1. e.harness # None =>
        /\ "image" \in Manifest(task, e).captured <=> e.harness.image # None
        /\ "applied_config" \in Manifest(task, e).captured <=> e.harness.state = "prepared"
  BY DEF Manifest
<1>2. QED
  BY <1>1 DEF Replayable

\* An image is captured exactly if the harness names one.
LEMMA ImageTold ==
  ASSUME NEW task, NEW e, Snapshot2(task, e) # None
  PROVE  "image" \in Snapshot2(task, e).manifest.captured <=>
           /\ Snapshot2(task, e).content.harness # None
           /\ Snapshot2(task, e).content.harness.image # None
<1>1. /\ Snapshot2(task, e).manifest = Manifest(task, e)
      /\ Snapshot2(task, e).content.harness = e.harness
  BY SnapshotTaken
<1>2. "image" \in Manifest(task, e).captured <=> e.harness # None /\ e.harness.image # None
  BY DEF Manifest
<1>3. QED
  BY <1>1, <1>2

\* Of any two runs the snapshots tell whether and where they differ.
LEMMA SnapshotsAreSound ==
  ASSUME BundlesAssumption
  PROVE  SnapshotsSound
<1>1. SUFFICES ASSUME NEW e \in ExecutionReadings, NEW f \in ExecutionReadings,
                      NEW s \in TaskReadings, NEW t \in TaskReadings
               PROVE  LET a == Snapshot2(s, e)
                          b == Snapshot2(t, f)
                          told == Coverage(<<a, b>>)
                      IN /\ a # None /\ b # None =>
                              /\ SnapshotLaw(a, b, Diff(a, b))
                              /\ Diff(a, b).identical <=> SameInputs(s, e, t, f)
                         /\ \A k \in DOMAIN told.captured : told.captured[k] + told.missing[k] <= told.with
                         /\ told.pinned <=> /\ a # None /\ "image" \in a.manifest.captured
                                            /\ b # None /\ "image" \in b.manifest.captured
  BY DEF SnapshotsSound
<1> DEFINE a == Snapshot2(s, e)
           b == Snapshot2(t, f)
<1>2. ASSUME a # None, b # None
      PROVE  /\ SnapshotLaw(a, b, Diff(a, b))
             /\ Diff(a, b).identical <=> SameInputs(s, e, t, f)
  <2>1. /\ a.determinism = Determinism(s, e) /\ b.determinism = Determinism(t, f)
        /\ a.manifest = Manifest(s, e) /\ a.content.harness = e.harness
    BY <1>2, SnapshotTaken
  <2> HIDE DEF a, b
  <2>2. a.manifest.captured \cap a.manifest.missing = {}
    BY <2>1, CapturedOrMissing
  <2>3. SnapshotLaw(a, b, Diff(a, b))
    BY <2>1, <2>2, ReplayTold, DifferencesTold DEF SnapshotLaw
  <2>4. Diff(a, b).identical <=> SameInputs(s, e, t, f)
    <3>1. Diff(a, b).identical = (a.determinism = b.determinism)
      BY DEF Diff
    <3>2. QED
      BY <2>1, <3>1, FingerprintTells
  <2>5. QED
    BY <2>3, <2>4
<1>3. ASSUME NEW told, told = Coverage(<<a, b>>)
      PROVE  /\ \A k \in DOMAIN told.captured : told.captured[k] + told.missing[k] <= told.with
             /\ told.pinned <=> /\ a # None /\ "image" \in a.manifest.captured
                                /\ b # None /\ "image" \in b.manifest.captured
  <2>1. \A i \in DOMAIN <<a, b>> : <<a, b>>[i] # None =>
          <<a, b>>[i].manifest.captured \cap <<a, b>>[i].manifest.missing = {}
    <3>1. a # None => a.manifest.captured \cap a.manifest.missing = {}
      BY SnapshotTaken, CapturedOrMissing
    <3>2. b # None => b.manifest.captured \cap b.manifest.missing = {}
      BY SnapshotTaken, CapturedOrMissing
    <3> HIDE DEF a, b
    <3>3. QED
      BY <3>1, <3>2
  <2>2. /\ a # None => ("image" \in a.manifest.captured <=>
                          a.content.harness # None /\ a.content.harness.image # None)
        /\ b # None => ("image" \in b.manifest.captured <=>
                          b.content.harness # None /\ b.content.harness.image # None)
    BY ImageTold
  <2> HIDE DEF a, b
  <2>3. IsFiniteSet(DOMAIN <<a, b>>)
    <3>1. DOMAIN <<a, b>> = 1..2
      OBVIOUS
    <3>2. IsFiniteSet(1..2)
      <4>1. PICK m \in Int, n \in Int : m = 1 /\ n = 2
        OBVIOUS
      <4>2. IsFiniteSet(m..n)
        BY FS_Interval
      <4>3. QED
        BY <4>1, <4>2
    <3>3. QED
      BY <3>1, <3>2, Zenon
  <2>4. told.pinned <=> /\ a # None /\ "image" \in a.manifest.captured
                       /\ b # None /\ "image" \in b.manifest.captured
    <3> DEFINE two == <<a, b>>
    <3>1. told.pinned = Pinned(two)
      BY <1>3 DEF Coverage
    <3>2. DOMAIN two = {1, 2} /\ two[1] = a /\ two[2] = b /\ two # <<>>
      OBVIOUS
    <3> HIDE DEF two
    <3>3. Pinned(two) <=> /\ a # None /\ a.content.harness # None /\ a.content.harness.image # None
                          /\ b # None /\ b.content.harness # None /\ b.content.harness.image # None
      BY <3>2 DEF Pinned
    <3>4. QED
      BY <3>1, <3>3, <2>2
  <2>5. QED
    BY <1>3, <2>1, <2>3, <2>4, CoverageCounts
<1>4. QED
  BY <1>2, <1>3

\* What was reported can be found and computed again.
THEOREM BundlesAreSound == BundlesSpec => []BundlesSound
<1>1. BundlesInit => BundlesInv
  BY BundlesInitInv, BundlesAssumption
<1>2. BundlesInv /\ [BundlesNext]_bundleVars => BundlesInv'
  BY BundlesStepInv
<1>3. BundlesInv => BundlesSound
  BY SnapshotsAreSound, ArchivesAreSound, BundleIsWritten, CacheIsCurrent, VersionsAreSound,
     BundlesAssumption DEF BundlesSound
<1>4. QED
  BY <1>1, <1>2, <1>3, PTL DEF BundlesSpec
=============================================================================
