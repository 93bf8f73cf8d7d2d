----------------------------- MODULE Evaluation -----------------------------
(***************************************************************************)
(* The evaluators of one finished task and the quality record they write.  *)
(*                                                                         *)
(* An evaluation is one database session: it reads what the agent left,    *)
(* asks a model, finds or builds the record, fills its own column of the   *)
(* record and commits.  The evaluators do that in different orders.  A     *)
(* session that builds the record locks the row of the task until it       *)
(* commits.  Meanwhile others evaluate, the owner retries a task that has  *)
(* no record yet, retention prunes records and the backfill builds them.   *)
(*                                                                         *)
(* A column is abstracted to the attempt its profile describes and the     *)
(* version of the quality profile it was derived from.                     *)
(***************************************************************************)
EXTENDS Naturals, Sequences, FiniteSets

CONSTANT EvalSetups    \* what is evaluated, by whom, and which faults happen

VARIABLES evTask,      \* the attempts of the task
          evRec,       \* its row in quality_records; id 0: none
          evSess,      \* the sessions of the evaluators
          evLock,      \* the session that holds the row of the task; 0: none
          evPast       \* history and bounds

evVars == <<evTask, evRec, evSess, evLock, evPast>>

\* The order in which each evaluator works.  "judge" is the quality judgement
\* that capability and calibration run once when the record has none.
QualitySteps == <<"trace", "call", "record", "store">>
TrajectorySteps == <<"trace", "call", "record", "store">>
EvidenceSteps == <<"trace", "call", "record", "store">>
MatchSteps == <<"trace", "record", "store">>
FailureSteps == <<"trace", "record", "call", "store">>
HallucinationSteps == <<"trace", "record", "call", "store">>
CapabilitySteps == <<"record", "trace", "judge", "store">>
CalibrationSteps == <<"record", "judge", "trace", "call", "store">>

StepsOf ==
  [quality |-> QualitySteps, trajectory |-> TrajectorySteps, evidence |-> EvidenceSteps,
   match |-> MatchSteps, failures |-> FailureSteps, hallucination |-> HallucinationSteps,
   capability |-> CapabilitySteps, calibration |-> CalibrationSteps]
Kinds == DOMAIN StepsOf

\* The sessions of a set-up come in an order, each with its kind and how it was begun.
ASSUME EvalAssumption ==
  \A s \in EvalSetups : s.who \in Seq([kind : Kinds, via : {"api", "job", "child"}])

Unfilled == [about |-> 0, base |-> 0, anchor |-> 0]
NoRecord == [id |-> 0, about |-> 0, slots |-> [k \in Kinds |-> Unfilled]]

\* A session: task, the attempt its copy of the task shows and the record that
\* existed when it was read; seen, the copy it evaluates; rec and built, the
\* record it updates or inserts; base and own, the quality profile it uses and
\* the one it made itself, of the copy judged.
Copy(n, id) == [about |-> n, anchor |-> id]
Unopened == [step |-> 0, task |-> Copy(0, 0), seen |-> Copy(0, 0), looked |-> FALSE, rec |-> 0,
             built |-> 0, base |-> 0, own |-> 0, judged |-> Copy(0, 0), cost |-> 0]

EvalInit ==
  \E s \in EvalSetups :
    /\ evTask = [attempt |-> 1, ended |-> TRUE]
    /\ evRec = IF s.recorded THEN [NoRecord EXCEPT !.id = 1, !.about = 1] ELSE NoRecord
    /\ evSess = [i \in DOMAIN s.who |-> Unopened]
    /\ evLock = 0
    /\ evPast = [setup |-> s, ids |-> IF s.recorded THEN 1 ELSE 0, versions |-> 0, kept |-> {0},
                 paid |-> 0, stored |-> 0, lost |-> {},
                 faults |-> s.faults, retries |-> s.retries, prunes |-> s.prunes]

KindOf(i) == evPast.setup.who[i].kind
ViaOf(i) == evPast.setup.who[i].via
StepOf(i) ==
  IF evSess[i].step \in DOMAIN StepsOf[KindOf(i)] THEN StepsOf[KindOf(i)][evSess[i].step]
  ELSE IF evSess[i].step = 0 THEN "unopened" ELSE "closed"
Closed(i) == Len(StepsOf[KindOf(i)]) + 1
Goes(i, s) == evSess' = [evSess EXCEPT ![i] = [s EXCEPT !.step = @ + 1]]
Freed(i) == IF evLock = i THEN 0 ELSE evLock

-----------------------------------------------------------------------------
(* Opening                                                                 *)

\* The scheduler's jobs take records of done tasks whose column is empty.
RecordJobPicks(i) == evRec.id # 0 /\ evRec.slots[KindOf(i)] = Unfilled
\* The capability job takes tasks, with a record or without.
CapabilityJobPicks(i) == evTask.ended /\ evRec.slots[KindOf(i)] = Unfilled

JobPicks(i) == IF KindOf(i) = "capability" THEN CapabilityJobPicks(i) ELSE RecordJobPicks(i)

\* build_quality_record of a terminal task: nothing to do when there is one.
Archived ==
  IF evRec.id # 0 THEN evRec
  ELSE [NoRecord EXCEPT !.id = evPast.ids + 1, !.about = evTask.attempt]

\* A request evaluates whatever the task's state is.  ensure_child_evaluated
\* builds the record in a transaction of its own and skips a filled column.
Opens(i) ==
  /\ StepOf(i) = "unopened"
  /\ ViaOf(i) = "job" => JobPicks(i)
  /\ ViaOf(i) = "child" => evTask.ended /\ evLock = 0
  /\ evRec' = IF ViaOf(i) = "child" THEN Archived ELSE evRec
  /\ evPast' = [evPast EXCEPT !.ids = IF evRec'.id > @ THEN evRec'.id ELSE @]
  /\ evSess' = [evSess EXCEPT
       ![i].task = Copy(evTask.attempt, evRec'.id),
       ![i].step = IF ViaOf(i) = "child" /\ evRec'.slots[KindOf(i)] # Unfilled
                   THEN Closed(i) ELSE 1]
  /\ UNCHANGED <<evTask, evLock>>

-----------------------------------------------------------------------------
(* Steps of a session                                                      *)

\* build_cleaned_trace, and the context of a judge: the attempt the session's
\* copy of the task shows.
ReadsTrace(i) ==
  /\ StepOf(i) = "trace"
  /\ Goes(i, [evSess[i] EXCEPT !.seen = evSess[i].task])
  /\ UNCHANGED <<evTask, evRec, evLock, evPast>>

\* The record is read, if there is one.
LooksForRecord(i) ==
  /\ StepOf(i) = "record" /\ ~evSess[i].looked
  /\ IF evRec.id # 0
     THEN Goes(i, [evSess[i] EXCEPT !.rec = evRec.id, !.base = evRec.slots.quality.base])
     ELSE evSess' = [evSess EXCEPT ![i].looked = TRUE]
  /\ UNCHANGED <<evTask, evRec, evLock, evPast>>

\* build_quality_record(commit=False) locks and reads the row of the task, until
\* the session ends.  An attempt that has not ended has no record; another
\* session may have built it by now.
BuildsRecord(i) ==
  /\ StepOf(i) = "record" /\ evSess[i].looked
  /\ evLock = 0
  /\ evLock' = i
  /\ Goes(i, [evSess[i] EXCEPT
       !.task = Copy(evTask.attempt, IF evRec.id = 0 THEN evPast.ids + 1 ELSE evRec.id),
       !.rec = evRec.id,
       !.base = evRec.slots.quality.base,
       !.built = IF evTask.ended /\ evRec.id = 0 THEN evTask.attempt ELSE 0])
  /\ UNCHANGED <<evTask, evRec, evPast>>

Pays(n) == evPast' = [evPast EXCEPT !.paid = @ + n]

\* The call is answered, well or badly: either profile is stored.
CallAnswered(i) ==
  /\ StepOf(i) = "call"
  /\ Goes(i, [evSess[i] EXCEPT !.cost = @ + 1])
  /\ Pays(1)
  /\ UNCHANGED <<evTask, evRec, evLock>>

\* The session's quality judgement is that of the record it has read.
JudgedAlready(i) ==
  /\ StepOf(i) = "judge"
  /\ evSess[i].base # 0
  /\ Goes(i, evSess[i])
  /\ UNCHANGED <<evTask, evRec, evLock, evPast>>

\* evaluate_task_quality(commit=False): its profile joins the transaction.
MutJudgesFirst(i) ==
  /\ StepOf(i) = "judge" /\ evSess[i].base = 0
  /\ Goes(i, [evSess[i] EXCEPT !.cost = @ + 1, !.base = evPast.versions + 1])
  /\ evPast' = [evPast EXCEPT !.paid = @ + 1, !.versions = @ + 1]
  /\ UNCHANGED <<evTask, evRec, evLock>>

JudgesFirst(i) ==
  /\ StepOf(i) = "judge" /\ evSess[i].base = 0
  /\ Goes(i, [evSess[i] EXCEPT !.cost = @ + 1, !.base = evPast.versions + 1,
                               !.own = evPast.versions + 1, !.judged = evSess[i].task])
  /\ evPast' = [evPast EXCEPT !.paid = @ + 1, !.versions = @ + 1]
  /\ UNCHANGED <<evTask, evRec, evLock>>

\* No dimension was scored: calibration has nothing to compare with and
\* returns, and its caller closes the session without a commit.
FindsNoSignal(i) ==
  /\ StepOf(i) = "judge" /\ KindOf(i) = "calibration"
  /\ evSess' = [evSess EXCEPT ![i].step = Closed(i)]
  /\ evLock' = Freed(i)
  /\ evPast' = [evPast EXCEPT !.paid = @ + IF evSess[i].base = 0 THEN 1 ELSE 0,
                              !.lost = @ \cup {"no signal"}]
  /\ UNCHANGED <<evTask, evRec>>

\* The columns a commit writes: the evaluator's own, and the quality profile
\* when the session judged too.
Written(i, r) ==
  LET s == evSess[i]
      base == IF KindOf(i) = "quality" THEN evPast.versions + 1 ELSE s.base
      mine == [about |-> s.seen.about, anchor |-> s.seen.anchor, base |-> base]
      too == [about |-> s.judged.about, anchor |-> s.judged.anchor, base |-> s.own] IN
  [r EXCEPT !.slots = [k \in Kinds |->
     IF k = KindOf(i) THEN mine ELSE IF k = "quality" /\ s.own # 0 THEN too ELSE @[k]]]

\* The event refers to the task: it waits while another session holds its row.
\* A record that was pruned after it was read cannot be updated, and an attempt
\* that had not ended when the record was looked for has none.
Stores(i) ==
  /\ StepOf(i) = "store"
  /\ evLock \in {0, i}
  /\ LET s == evSess[i]
         row == IF s.built = 0 THEN evRec
                ELSE [NoRecord EXCEPT !.id = evPast.ids + 1, !.about = s.built]
         void == s.rec = 0 /\ s.built = 0
         stale == s.rec # 0 /\ s.rec # evRec.id IN
     /\ evRec' = IF void \/ stale THEN evRec ELSE Written(i, row)
     /\ evPast' = [evPast EXCEPT
          !.ids = @ + IF s.built # 0 THEN 1 ELSE 0,
          !.versions = @ + IF KindOf(i) = "quality" THEN 1 ELSE 0,
          !.kept = IF void \/ stale THEN @ ELSE @ \cup {evRec'.slots.quality.base},
          !.stored = @ + IF void \/ stale THEN 0 ELSE s.cost,
          !.lost = @ \cup (IF void THEN {"unfinished"} ELSE {})]
  /\ Goes(i, evSess[i])
  /\ evLock' = Freed(i)
  /\ UNCHANGED evTask

\* The request is cancelled or a statement fails: the session is rolled back.
Aborts(i) ==
  /\ StepOf(i) \notin {"unopened", "closed"}
  /\ evPast.faults > 0
  /\ evPast' = [evPast EXCEPT !.faults = @ - 1, !.lost = @ \cup {"aborted"}]
  /\ evSess' = [evSess EXCEPT ![i].step = Closed(i)]
  /\ evLock' = Freed(i)
  /\ UNCHANGED <<evTask, evRec>>

-----------------------------------------------------------------------------
(* Around the evaluators                                                   *)

MutEvTaskRetried ==
  /\ evPast.retries > 0 /\ evTask.ended /\ evLock = 0
  /\ evTask' = [attempt |-> evTask.attempt + 1, ended |-> FALSE]
  /\ evPast' = [evPast EXCEPT !.retries = @ - 1]
  /\ UNCHANGED <<evRec, evSess, evLock>>

\* The owner retries; a record would refuse it.
EvTaskRetried ==
  /\ evPast.retries > 0 /\ evTask.ended /\ evRec.id = 0 /\ evLock = 0
  /\ evTask' = [attempt |-> evTask.attempt + 1, ended |-> FALSE]
  /\ evPast' = [evPast EXCEPT !.retries = @ - 1]
  /\ UNCHANGED <<evRec, evSess, evLock>>

EvTaskEnds ==
  /\ ~evTask.ended
  /\ evTask' = [evTask EXCEPT !.ended = TRUE]
  /\ UNCHANGED <<evRec, evSess, evLock, evPast>>

\* quality_record_backfill builds a record for every terminal task without one.
BackfillBuilds ==
  /\ evPast.setup.backfill /\ evRec.id = 0 /\ evTask.ended /\ evLock = 0
  /\ evRec' = Archived
  /\ evPast' = [evPast EXCEPT !.ids = @ + 1]
  /\ UNCHANGED <<evTask, evSess, evLock>>

\* quality_record_retention deletes blob and row of a record that is too old.
RetentionPrunes ==
  /\ evPast.prunes > 0 /\ evRec.id # 0
  /\ evRec' = NoRecord
  /\ evPast' = [evPast EXCEPT !.prunes = @ - 1, !.lost = @ \cup {"pruned"}]
  /\ UNCHANGED <<evTask, evSess, evLock>>

SessionStep(i) ==
  \/ ReadsTrace(i) \/ LooksForRecord(i) \/ BuildsRecord(i) \/ CallAnswered(i)
  \/ JudgedAlready(i) \/ JudgesFirst(i) \/ FindsNoSignal(i) \/ Stores(i)

EvalNext ==
  \/ \E i \in DOMAIN evSess : Opens(i) \/ SessionStep(i) \/ Aborts(i)
  \/ EvTaskRetried \/ EvTaskEnds \/ BackfillBuilds \/ RetentionPrunes

EvalSpec == EvalInit /\ [][EvalNext]_evVars

\* Models answer and transactions go on, also those of others that hold locks;
\* attempts end.  Nothing forces a session to be opened.
EvalFairness ==
  WF_evVars((\E i \in DOMAIN evSess : SessionStep(i)) \/ EvTaskEnds)

-----------------------------------------------------------------------------
(* Properties                                                              *)

\* What was read while the record existed, or under the lock of the session that
\* built it, is the attempt the record describes: no retry slips in between.
SlotsFitRecord ==
  \A k \in Kinds :
    LET s == evRec.slots[k] IN
    s # Unfilled /\ s.anchor = evRec.id => s.about = evRec.about

\* A profile is derived from a quality profile that was stored: one that was
\* rolled back, or made beside the transaction, is nobody's basis.
NoPhantomBasis == \A k \in Kinds : evRec.slots[k].base \in evPast.kept

\* Every answer of a model that was paid for is in a profile once nobody works,
\* unless calibration found no signal, the attempt had not ended, the record was
\* pruned or a session was rolled back.
PaidIsStored ==
  (evPast.lost = {} /\ \A i \in DOMAIN evSess : StepOf(i) \in {"unopened", "closed"})
    => evPast.paid = evPast.stored

\* One session at a time holds the row of the task, and only while it is open.
LockIsHeld == evLock # 0 => StepOf(evLock) \notin {"unopened", "closed"}

\* The evaluators of a task may work side by side: the record describes one
\* attempt, its profiles rest on what is stored, and no paid answer disappears.
EvaluationsSound == SlotsFitRecord /\ NoPhantomBasis /\ PaidIsStored /\ LockIsHeld

\* Nobody waits for ever on the row of the task: an evaluation that was opened
\* is stored or given up.
SessionsClose ==
  []<>(\A i \in DOMAIN evSess : StepOf(i) \in {"unopened", "closed"})
=============================================================================
