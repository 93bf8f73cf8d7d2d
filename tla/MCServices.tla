----------------------------- MODULE MCServices -----------------------------
(***************************************************************************)
(* The services beside the execution of tasks, one at a time: a behaviour  *)
(* starts with one of them and the others asleep.                          *)
(***************************************************************************)
EXTENDS RepeatedRuns, Comparison, ConnectorClient, Traces, Trajectories, Evaluation,
        Annotations, Verdicts

VARIABLE part           \* the service this behaviour is about

vars == <<part, runVars, pairVars, clientVars, traceVars, reading, evVars, annotationVars,
          verdict>>

-----------------------------------------------------------------------------
(* Small instances                                                         *)

Plain == [kind |-> "variance", base |-> 3, transforms |-> <<>>, per |-> 0, parallel |-> TRUE,
          agents |-> 2, cap |-> 0, faults |-> 0, users |-> 1, ticks |-> {"job"}]
Faulty == [Plain EXCEPT !.base = 2, !.faults = 1, !.users = 0]
Perturbed == [Plain EXCEPT !.kind = "perturbation", !.base = 1,
                           !.transforms = <<"noise", "inject">>, !.per = 1]
Capped == [Plain EXCEPT !.cap = 2, !.users = 0]
Overlapped == [Plain EXCEPT !.cap = 1, !.base = 2, !.parallel = FALSE,
                            !.ticks = {"api", "job"}, !.users = 0]
SmallRuns == {Plain, Faulty, Perturbed, Capped, Overlapped}

Generated == [direct |-> FALSE, mode |-> "llm", faults |-> 1, users |-> 2, ticks |-> {}]
Requested == [Generated EXCEPT !.faults = 0, !.users = 1, !.ticks = {"api"}]
Direct == [Generated EXCEPT !.direct = TRUE]
ByHand == [Generated EXCEPT !.mode = "human"]
SmallPairs == {Generated, Requested, Direct, ByHand}

Who(kind, via) == [kind |-> kind, via |-> via]
Fresh == [recorded |-> FALSE, who |-> <<>>, faults |-> 0, retries |-> 1, prunes |-> 0,
          backfill |-> FALSE]
SmallEvals ==
  {[Fresh EXCEPT !.who = <<Who("quality", "api"), Who("calibration", "api"),
                           Who("trajectory", "child")>>],
   [Fresh EXCEPT !.who = <<Who("capability", "job"), Who("calibration", "api"),
                           Who("failures", "api")>>, !.faults = 1],
   [Fresh EXCEPT !.who = <<Who("hallucination", "job"), Who("quality", "job"),
                           Who("capability", "api")>>,
                 !.recorded = TRUE, !.prunes = 1, !.backfill = TRUE],
   [Fresh EXCEPT !.who = <<Who("evidence", "api"), Who("match", "api"), Who("quality", "child")>>,
                 !.backfill = TRUE]}

Rater(by, human, d) == [by |-> by, human |-> human, desk |-> d]
Desk(by, blind) == [by |-> by, blind |-> blind]
SmallAnnotations ==
  {[desks |-> <<>>, rejudged |-> 1, approve |-> FALSE,
    ratings |-> <<Rater("ann", TRUE, 0), Rater("ann", TRUE, 0), Rater("ann", TRUE, 0)>>],
   [desks |-> <<>>, rejudged |-> 0, approve |-> TRUE,
    ratings |-> <<Rater("ann", FALSE, 0), Rater("ann", TRUE, 0), Rater("ann", FALSE, 0)>>],
   [desks |-> <<Desk("ann", TRUE), Desk("bob", FALSE)>>, rejudged |-> 0, approve |-> TRUE,
    ratings |-> <<Rater("ann", TRUE, 1), Rater("ann", TRUE, 1), Rater("bob", TRUE, 2)>>]}

-----------------------------------------------------------------------------
(* Services that this behaviour is not about                               *)

RunsAsleep ==
  /\ run = [setup |-> Plain, status |-> "failed", base |-> <<>>, other |-> <<>>, cost |-> 0,
            report |-> [executed |-> 0, success |-> 0, failed |-> 0]]
  /\ past = [raced |-> FALSE, lost |-> FALSE, deleted |-> FALSE, asked |-> FALSE,
             faults |-> 0, users |-> 0]
  /\ offspring = <<>>
  /\ tick = [k \in RunTicks |-> Idle]
  /\ source = "here"

PairAsleep ==
  /\ pair = [setup |-> Direct, status |-> "failed", b |-> 0, player |-> FALSE, judge |-> "none",
             human |-> "none", calls |-> NoCall, cost |-> 0]
  /\ rival = <<>>
  /\ pairPast = [source |-> "here", paid |-> 0, lost |-> 0, raced |-> FALSE, early |-> FALSE,
                 asked |-> FALSE, faults |-> 0, users |-> 0]
  /\ bench = [j \in Judges |-> AtRest]

ClientAsleep ==
  /\ host = [closed |-> TRUE, closing |-> "closed", error |-> "none", queue |-> <<>>, got |-> <<>>]
  /\ call = <<>> /\ up = <<>> /\ down = <<>>
  /\ conn = [serving |-> "next", id |-> 0, run |-> "none", cancelled |-> FALSE, seq |-> 0,
             emitted |-> 0, lock |-> "free", torn |-> FALSE]
  /\ child = "gone"

\* No computation is asked for.
Unread == "nothing"

EvalAsleep ==
  /\ evTask = [attempt |-> 1, ended |-> TRUE] /\ evRec = NoRecord
  /\ evSess = <<>> /\ evLock = 0
  /\ evPast = [setup |-> Fresh, ids |-> 0, versions |-> 0, kept |-> {0}, paid |-> 0, stored |-> 0,
               lost |-> {}, faults |-> 0, retries |-> 0, prunes |-> 0]

AnnotationsAsleep ==
  /\ ledger = <<>> /\ desk = <<>> /\ rating = <<>>
  /\ approval = "idle" /\ opinion = 0 /\ slot = 0 /\ noted = "asleep"

-----------------------------------------------------------------------------
(* One service is awake                                                    *)

Parts == {"runs", "pairs", "client", "traces", "reading", "evaluations", "annotations",
          "verdicts"}

ServicesInit ==
  /\ part \in Parts
  /\ IF part = "runs" THEN RunsInit ELSE RunsAsleep
  /\ IF part = "pairs" THEN PairInit ELSE PairAsleep
  /\ IF part = "client" THEN ClientInit ELSE ClientAsleep
  /\ TracesInit
  /\ IF part = "reading" THEN TrajectoriesInit ELSE reading = Unread
  /\ IF part = "evaluations" THEN EvalInit ELSE EvalAsleep
  /\ IF part = "annotations" THEN AnnotationsInit ELSE AnnotationsAsleep
  /\ IF part = "verdicts" THEN VerdictsInit ELSE verdict = Unread

ServicesNext ==
  /\ UNCHANGED <<part, reading, verdict>>
  /\ \/ part = "runs" /\ RunsNext
        /\ UNCHANGED <<pairVars, clientVars, traceVars, evVars, annotationVars>>
     \/ part = "pairs" /\ PairNext
        /\ UNCHANGED <<runVars, clientVars, traceVars, evVars, annotationVars>>
     \/ part = "client" /\ ClientNext
        /\ UNCHANGED <<runVars, pairVars, traceVars, evVars, annotationVars>>
     \/ part = "traces" /\ TracesNext
        /\ UNCHANGED <<runVars, pairVars, clientVars, evVars, annotationVars>>
     \/ part = "evaluations" /\ EvalNext
        /\ UNCHANGED <<runVars, pairVars, clientVars, traceVars, annotationVars>>
     \/ part = "annotations" /\ AnnotationsNext
        /\ UNCHANGED <<runVars, pairVars, clientVars, traceVars, evVars>>

ServicesSpec ==
  /\ ServicesInit /\ [][ServicesNext]_vars
  /\ RunsFairness /\ PairFairness /\ ClientFairness /\ EvalFairness /\ AnnotationsFairness

\* What is started comes to an end: a run, the generation of a candidate, the
\* closing of a connector, an evaluation, a rating.
ServicesEnd == RunsEnd /\ PairSettles /\ ClosingEnds /\ SessionsClose /\ RatingsAnswered
=============================================================================
