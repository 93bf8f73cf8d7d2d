----------------------------- MODULE Comparison -----------------------------
(***************************************************************************)
(* Pairwise comparison (comparison.py): two answers to one task, judged by *)
(* a model that sees the pair in both orders, by a person, or by both.     *)
(* Candidate B exists already or is generated by a rerun that a scheduler  *)
(* job starts and awaits.  Judged comparisons become matches of a ranking. *)
(*                                                                         *)
(* A judge holds the row it read while the model answers; what it writes   *)
(* is committed at once, with the columns it changed.                      *)
(***************************************************************************)
EXTENDS Naturals, Sequences, FiniteSets

CONSTANTS PairSetups,   \* comparisons that users create
          Judges        \* who may be judging: the job and requests

ASSUME PairAssumption ==
  \A s \in PairSetups : s.direct \in BOOLEAN /\ s.faults \in Nat /\ s.users \in Nat

VARIABLES pair,         \* the row of the comparison
          rival,        \* the tasks created to be candidate B
          bench,        \* the judgements under way
          pairPast      \* what happened so far, and bounds

pairVars == <<pair, rival, bench, pairPast>>

Winners == {"a", "b", "tie"}            \* _VERDICTS
NoCall == [ab |-> "none", ba |-> "none"]
AtRest == [pc |-> "idle", row |-> <<>>, ab |-> "none"]

\* create_comparison: direct, with both candidates, or generated.
PairInit ==
  /\ \E s \in PairSetups :
       /\ pair = [setup |-> s, status |-> IF s.direct THEN "ready" ELSE "generating",
                  b |-> IF s.direct THEN 1 ELSE 0, player |-> s.direct, judge |-> "none",
                  human |-> "none", calls |-> NoCall, cost |-> 0]
       /\ rival \in IF s.direct THEN {<<"success">>, <<"running">>} ELSE {<<>>}
       /\ pairPast = [source |-> "here", paid |-> 0, lost |-> 0, raced |-> FALSE, early |-> FALSE,
                      asked |-> FALSE, faults |-> s.faults, users |-> s.users]
  /\ bench = [j \in Judges |-> AtRest]

-----------------------------------------------------------------------------
(* advance_comparison, by the job and once by the request that creates      *)

Busy(j) == \E i \in Judges \ {j} : bench[i].pc # "idle"

Advances(j) == j = "job" \/ (~pairPast.asked /\ j \in pair.setup.ticks)

Noted(j) == [pairPast EXCEPT !.asked = @ \/ j # "job", !.raced = @ \/ Busy(j)]

\* The source of a generated candidate was deleted.
PairFails ==
  /\ pair.status = "generating"
  /\ \/ pair.b = 0 /\ pairPast.source = "gone"
     \/ pair.b # 0 /\ rival[pair.b] = "failed"
  /\ pair' = [pair EXCEPT !.status = "failed"]
  /\ UNCHANGED <<rival, bench, pairPast>>

\* The rerun of the source is committed before its identifier is stored.
CandidateCloned(j) ==
  /\ bench[j].pc = "idle" /\ Advances(j)
  /\ pair.status = "generating" /\ pair.b = 0 /\ pairPast.source = "here"
  /\ rival' = Append(rival, "running")
  /\ bench' = [bench EXCEPT ![j] = [AtRest EXCEPT !.pc = "store", !.row = Len(rival) + 1]]
  /\ pairPast' = Noted(j)
  /\ UNCHANGED pair

CandidateStored(j) ==
  /\ bench[j].pc = "store"
  /\ pair' = [pair EXCEPT !.b = bench[j].row]
  /\ bench' = [bench EXCEPT ![j] = AtRest]
  /\ UNCHANGED <<rival, pairPast>>

\* B succeeded: it is evaluated, which may take a while.
CandidateEvaluated(j) ==
  /\ bench[j].pc = "idle" /\ Advances(j)
  /\ pair.status = "generating" /\ pair.b # 0
  /\ rival[pair.b] = "success"
  /\ bench' = [bench EXCEPT ![j] = [AtRest EXCEPT !.pc = "evaluate", !.row = pair]]
  /\ pairPast' = Noted(j)
  /\ UNCHANGED <<pair, rival>>

\* Then its player is resolved and the row is ready; in the mode "llm" the job
\* judges it at once, on the row it read before.
PairReady(j) ==
  /\ bench[j].pc = "evaluate"
  /\ pair' = [pair EXCEPT !.status = "ready", !.player = TRUE]
  /\ LET read == [bench[j].row EXCEPT !.status = "ready", !.player = TRUE] IN
     bench' = [bench EXCEPT ![j] = IF pair.setup.mode = "llm"
                                     THEN [pc |-> "first", row |-> read, ab |-> "none"]
                                     ELSE AtRest]
  /\ pairPast' = [pairPast EXCEPT !.raced = @ \/ Busy(j) \/ pair.cost # bench[j].row.cost]
  /\ UNCHANGED rival

-----------------------------------------------------------------------------
(* judge_pair_llm and _judge_comparison                                    *)

\* judge_comparison_by_id, and create_comparison in direct mode: both candidates
\* must be there; whether B has finished is not asked.
JudgeAsked(j) ==
  /\ j # "job"
  /\ bench[j].pc = "idle"
  /\ pairPast.users > 0
  /\ pair.b # 0
  /\ bench' = [bench EXCEPT ![j] = [pc |-> "first", row |-> pair, ab |-> "none"]]
  /\ pairPast' = [pairPast EXCEPT
       !.users = @ - 1,
       !.raced = @ \/ Busy(j),
       !.early = @ \/ rival[pair.b] # "success"]
  /\ UNCHANGED <<pair, rival>>

\* The first call shows (A, B).
FirstCall(j, w) ==
  /\ bench[j].pc = "first"
  /\ bench' = [bench EXCEPT ![j].pc = "second", ![j].ab = w]
  /\ pairPast' = [pairPast EXCEPT !.paid = @ + 1]
  /\ UNCHANGED <<pair, rival>>

MutSwapped(w) == w

\* _SWAP: a verdict of the frame (B, A) in the frame (A, B).
Swapped(w) == CASE w = "a" -> "b" [] w = "b" -> "a" [] w = "tie" -> "tie"

\* _reconcile.
Reconciled(first, mapped) == IF first = mapped THEN first ELSE "tie"

\* The second call shows (B, A); verdict, detail and cost are committed, the cost
\* on top of what the row had when it was read.  A column that would not change
\* is not written.
SecondCall(j, w) ==
  /\ bench[j].pc = "second"
  /\ LET read == bench[j].row
         verdict == Reconciled(bench[j].ab, Swapped(w))
         column(new, old, now) == IF new = old THEN now ELSE new IN
     pair' = [pair EXCEPT
       !.status = column("judged", read.status, pair.status),
       !.judge = column(verdict, read.judge, pair.judge),
       !.calls = column([ab |-> bench[j].ab, ba |-> w], read.calls, pair.calls),
       !.cost = read.cost + 2]
  /\ bench' = [bench EXCEPT ![j] = AtRest]
  /\ pairPast' = [pairPast EXCEPT !.paid = @ + 1]
  /\ UNCHANGED rival

\* The model cannot be reached: the error is noted, the comparison stays as it is
\* and may be judged again; or the process dies.
JudgeFails(j) ==
  /\ bench[j].pc # "idle"
  /\ pairPast.faults > 0
  /\ pairPast' = [pairPast EXCEPT !.faults = @ - 1,
                                  !.lost = IF bench[j].pc = "second" THEN @ + 1 ELSE @]
  /\ bench' = [bench EXCEPT ![j] = AtRest]
  /\ UNCHANGED <<pair, rival>>

-----------------------------------------------------------------------------
(* Users and the orchestrator                                              *)

\* record_human_verdict.
HumanDecides(w) ==
  /\ pairPast.users > 0
  /\ pair.status \in {"ready", "judged"}
  /\ pair' = [pair EXCEPT !.human = w, !.status = "judged"]
  /\ pairPast' = [pairPast EXCEPT !.users = @ - 1]
  /\ UNCHANGED <<rival, bench>>

CandidateEnds(n) ==
  /\ rival[n] = "running"
  /\ \E s \in {"success", "failed"} : rival' = [rival EXCEPT ![n] = s]
  /\ UNCHANGED <<pair, bench, pairPast>>

\* Before B is cloned, a user deletes the source; its column becomes null.
PairSourceDeleted ==
  /\ pairPast.users > 0 /\ pairPast.source = "here" /\ ~pair.setup.direct
  /\ pairPast' = [pairPast EXCEPT !.source = "gone", !.users = @ - 1]
  /\ UNCHANGED <<pair, rival, bench>>

JobStep(j) == 
  CandidateCloned(j) \/ CandidateStored(j) \/ CandidateEvaluated(j) \/ PairReady(j)

Judging(j) == \E w \in Winners : FirstCall(j, w) \/ SecondCall(j, w)

PairNext ==
  \/ PairFails
  \/ \E j \in Judges : JobStep(j)
  \/ \E j \in Judges : JudgeAsked(j) \/ Judging(j) \/ JudgeFails(j)
  \/ \E w \in Winners : HumanDecides(w)
  \/ \E n \in DOMAIN rival : CandidateEnds(n)
  \/ PairSourceDeleted

PairSpec == PairInit /\ [][PairNext]_pairVars

\* The job is fired for ever, candidates end and calls are answered: some step is
\* taken while there is one.
PairFairness ==
  WF_pairVars(\/ PairFails \/ JobStep("job")
              \/ \E n \in DOMAIN rival : CandidateEnds(n)
              \/ \E j \in Judges : Judging(j))

-----------------------------------------------------------------------------
(* Properties                                                              *)

\* The position of an answer never decides: a verdict for one candidate was
\* given by both calls, each in its own frame.
BothOrdersAgree ==
  pair.judge \in {"a", "b"} /\ ~pairPast.raced =>
    pair.calls.ab = pair.judge /\ pair.calls.ba = (IF pair.judge = "a" THEN "b" ELSE "a")

\* A judged comparison has a verdict, and every one that went unasked for was
\* given on a finished candidate; its cost covers every call but those of
\* judgements that failed.
JudgedOnAnswers ==
  /\ pair.status = "judged" => pair.judge # "none" \/ pair.human # "none"
  /\ pair.judge # "none" /\ ~pairPast.early /\ ~pairPast.raced => rival[pair.b] = "success"
  /\ ~pairPast.raced =>
       pairPast.paid = pair.cost + pairPast.lost + Cardinality({j \in Judges : bench[j].pc = "second"})

PairSound == BothOrdersAgree /\ JudgedOnAnswers

\* A comparison does not stay in generation.
PairSettles == pair.status = "generating" ~> pair.status # "generating"
=============================================================================
