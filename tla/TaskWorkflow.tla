----------------------------- MODULE TaskWorkflow -----------------------------
(***************************************************************************)
(* The life of a task around its attempts: the orchestrator's loop takes   *)
(* ready tasks, decomposes or launches them; an ended attempt is settled,  *)
(* reviewed, retried or archived by the workflow; users start, patch,      *)
(* approve, reject and evaluate; the scheduler's backfill archives what    *)
(* has no record.  All of them write task.status.                          *)
(*                                                                         *)
(* A transaction that holds the task's row lock is one action.  Where the  *)
(* code reads, gives the lock up (or never takes it) and writes later, the *)
(* two halves are two actions.  An attempt is seen from outside here; its  *)
(* journal is in AttemptJournal.                                           *)
(***************************************************************************)
EXTENDS Integers, FiniteSets

CONSTANTS
  Tasks,         \* task rows that may exist, ordered by their creation
  Root,          \* the row that exists at the start
  NoTask,
  Modes,         \* execution modes a root may be created with
  Engines,       \* orchestrator processes inside orchestrator_loop
  Capacity,      \* runtime_max_concurrency
  MaxRetries,    \* task.max_retries
  UserOps,       \* kinds of requests users make
  PatchStatuses, \* statuses users write with PATCH
  MaxAttempts,   \* bound: attempts of a task
  MaxRequests,   \* bound: requests of users
  MaxCrashes,    \* bound: crashes of the orchestrator processes
  MaxFaults      \* bound: failing launches, decisions and uploads

ASSUME TaskAssumption ==
  /\ Tasks \subseteq Nat /\ IsFiniteSet(Tasks) /\ Root \in Tasks /\ NoTask \notin Tasks
  /\ Modes \subseteq {"direct", "orchestrated", "benchmark"}
  /\ Engines # {} /\ IsFiniteSet(Engines) /\ Capacity \in Nat \ {0}
  /\ UserOps \subseteq {"start", "patch", "mode", "approve", "reject", "evaluate", "backfill"}
  /\ PatchStatuses \subseteq {"backlog", "ready", "done", "failed"}
  /\ {MaxRetries, MaxAttempts, MaxRequests, MaxCrashes, MaxFaults} \subseteq Nat

VARIABLES
  status,    \* task.status; "absent" before the row exists
  retries,   \* task.retry_count
  pinned,    \* tasks with a template_id: no decomposition, no selection
  tree,      \* task -> parent_id and depends_on
  mode,      \* task -> its execution mode; benchmark: orchestrated, no review
  attempt,   \* task -> its current attempt: number, mode, state, workflow stage
  record,    \* task -> its quality record: source attempt and final_status
  engine,    \* engine -> where its loop is, and for which task
  reviews,   \* reviewer calls under way: <<task, attempt number>>
  archiving, \* reviewers between their two transactions
  approving, \* approve requests that read the status and will write it
  selected,  \* tasks the running backfill has selected
  budget,    \* requests, crashes and faults that may still happen
  history    \* observation only: reviews paid, requeues asked, approvals

taskVars == <<status, retries, pinned, tree, mode>>
sideVars == <<reviews, archiving, approving, selected>>
vars == <<taskVars, attempt, record, engine, sideVars, budget, history>>

Statuses == {"absent", "backlog", "ready", "decomposing", "in_progress",
             "review", "awaiting_approval", "done", "failed"}
Finished == {"done", "failed"}
Ended == {"success", "failed", "stopped"} \* stopped: cancelled, lost, timeout...
Complete == {"archived", "retry", "superseded"}
NoAttempt == [n |-> 0, mode |-> "none", state |-> "none", flow |-> "none"]
NoRecord == [attempt |-> -1, final |-> "none"]
Idle == [pc |-> "idle", task |-> NoTask]
At(pc, t) == [pc |-> pc, task |-> t]

Init ==
  /\ status = [t \in Tasks |-> IF t = Root THEN "ready" ELSE "absent"]
  /\ retries = [t \in Tasks |-> 0]
  /\ pinned = {}
  /\ tree = [t \in Tasks |-> [parent |-> NoTask, deps |-> {}]]
  /\ mode \in {[t \in Tasks |-> m] : m \in Modes}
  /\ attempt = [t \in Tasks |-> NoAttempt]
  /\ record = [t \in Tasks |-> NoRecord]
  /\ engine = [e \in Engines |-> Idle]
  /\ reviews = {} /\ archiving = {} /\ approving = {} /\ selected = {}
  /\ budget = [request |-> MaxRequests, crash |-> MaxCrashes, fault |-> MaxFaults]
  /\ history = [t \in Tasks |-> [paid |-> 0, asked |-> 0, approved |-> FALSE]]

Exists(t) == status[t] # "absent"
Running(t) == attempt[t].state = "active"
Archived(t) == record[t] # NoRecord
Children(p) == {t \in Tasks : tree[t].parent = p}
Spend(kind) == budget[kind] > 0 /\ budget' = [budget EXCEPT ![kind] = @ - 1]
Show(t, s) == status' = [status EXCEPT ![t] = s]
Goto(e, pc, t) == engine' = [engine EXCEPT ![e] = At(pc, t)]

NewAttempt(t) == [n |-> attempt[t].n + 1, mode |-> mode[t], state |-> "active", flow |-> "none"]

\* A dependency that failed counts as finished.
MutFinishedIsDone(t) == \A d \in tree[t].deps : status[d] \in Finished

DependenciesDone(t) == \A d \in tree[t].deps : status[d] = "done"

\* A parent with a failed child is reported done.
MutFailedChildIgnored(st, t) ==
  LET p == tree[t].parent IN
  IF p # NoTask /\ \A c \in Children(p) : st[c] \in Finished
  THEN [st EXCEPT ![p] = "done"] ELSE st

\* check_parent_task_completion: the statuses after rolling up t's parent.
RolledUp(st, t) ==
  LET p == tree[t].parent IN
  IF p # NoTask /\ \A c \in Children(p) : st[c] \in Finished
  THEN [st EXCEPT ![p] = IF \E c \in Children(p) : st[c] = "failed" THEN "failed" ELSE "done"]
  ELSE st

-----------------------------------------------------------------------------
(* The orchestrator's loop.                                                *)

Room == Cardinality({t \in Tasks : Running(t)}) < Capacity

\* _spawn_sdk_task up to the commit of launch_attempt.
RestoreArchived(e, t) ==
  /\ Archived(t)
  /\ Show(t, record[t].final)
  /\ engine' = [engine EXCEPT ![e] = Idle]
  /\ UNCHANGED <<retries, pinned, tree, mode, attempt, record, sideVars, budget, history>>

\* The attempt is created for a task whose results are archived.
MutCreateArchived(e, t) ==
  /\ DependenciesDone(t) /\ Room /\ ~Running(t)
  /\ attempt[t].n < MaxAttempts
  /\ attempt' = [attempt EXCEPT ![t] = NewAttempt(t)]
  /\ history' = [history EXCEPT ![t].paid = 0]
  /\ Show(t, "in_progress")
  /\ Goto(e, "starting", t)
  /\ UNCHANGED <<retries, pinned, tree, mode, record, sideVars, budget>>

CreateAttempt(e, t) ==
  /\ ~Archived(t) /\ DependenciesDone(t) /\ Room /\ ~Running(t)
  /\ attempt[t].n < MaxAttempts
  /\ attempt' = [attempt EXCEPT ![t] = NewAttempt(t)]
  /\ history' = [history EXCEPT ![t].paid = 0]
  /\ Show(t, "in_progress")
  /\ Goto(e, "starting", t)
  /\ UNCHANGED <<retries, pinned, tree, mode, record, sideVars, budget>>

\* CAPACITY: rolled back, the lock is given up.  Other tasks may fill the room.
NoCapacity(e, t) ==
  /\ ~Archived(t) /\ DependenciesDone(t)
  /\ \/ ~Room /\ UNCHANGED budget
     \/ Room /\ Spend("fault")
  /\ Goto(e, "requeue", t)
  /\ UNCHANGED <<taskVars, attempt, record, sideVars, history>>

\* Any other error: rolled back, the lock is given up.
LaunchFails(e, t) ==
  /\ ~Archived(t)
  /\ \/ (~DependenciesDone(t) \/ (Room /\ Running(t))) /\ UNCHANGED budget
     \/ DependenciesDone(t) /\ Spend("fault")
  /\ Goto(e, "failing", t)
  /\ UNCHANGED <<taskVars, attempt, record, sideVars, history>>

Launch(e, t) ==
  \/ RestoreArchived(e, t)
  \/ CreateAttempt(e, t)
  \/ NoCapacity(e, t)
  \/ LaunchFails(e, t)

Takes(e, t) == engine[e] = Idle /\ status[t] = "ready" /\ DependenciesDone(t)

\* Direct mode launches under the lock the loop took.
TakeDirect(e, t) == mode[t] = "direct" /\ Takes(e, t) /\ Launch(e, t)

TakeOrchestrated(e, t) ==
  /\ mode[t] # "direct" /\ Takes(e, t)
  /\ Show(t, "decomposing")
  /\ Goto(e, IF t \in pinned THEN "spawn" ELSE "decide", t)
  /\ UNCHANGED <<retries, pinned, tree, mode, attempt, record, sideVars, budget, history>>

\* The pinned template is gone.
TemplateMissing(e, t) ==
  /\ Takes(e, t) /\ t \in pinned
  /\ Spend("fault")
  /\ Show(t, "failed")
  /\ Goto(e, "rollup", t)
  /\ UNCHANGED <<retries, pinned, tree, mode, attempt, record, sideVars, history>>

Decompose(e, t) ==
  /\ engine[e] = At("decide", t) /\ tree[t].parent = NoTask
  /\ \E kids \in (SUBSET {k \in Tasks : ~Exists(k)}) \ {{}} :
       \E deps \in [kids -> SUBSET kids] :
         /\ \A k \in kids : \A d \in deps[k] : d < k
         /\ tree' = [k \in Tasks |-> IF k \in kids THEN [parent |-> t, deps |-> deps[k]]
                                                   ELSE tree[k]]
         /\ status' = [k \in Tasks |-> IF k \in kids THEN "ready"
                                       ELSE IF k = t THEN "in_progress" ELSE status[k]]
         /\ mode' = [k \in Tasks |-> IF k \in kids THEN mode[t] ELSE mode[k]]
  /\ engine' = [engine EXCEPT ![e] = Idle]
  /\ UNCHANGED <<retries, pinned, attempt, record, sideVars, budget, history>>

SelectTemplate(e, t) ==
  /\ engine[e] = At("decide", t)
  /\ pinned' = pinned \cup {t}
  /\ Goto(e, "spawn", t)
  /\ UNCHANGED <<status, retries, tree, mode, attempt, record, sideVars, budget, history>>

\* The failed decision is not rolled up.
MutFailQuietly(e, t) ==
  /\ engine[e] = At("decide", t)
  /\ Spend("fault")
  /\ Show(t, "failed")
  /\ engine' = [engine EXCEPT ![e] = Idle]
  /\ UNCHANGED <<retries, pinned, tree, mode, attempt, record, sideVars, history>>

\* No model, no template, a cyclic decomposition or no selection.
DecisionFails(e, t) ==
  /\ engine[e] = At("decide", t)
  /\ Spend("fault")
  /\ Show(t, "failed")
  /\ Goto(e, "rollup", t)
  /\ UNCHANGED <<retries, pinned, tree, mode, attempt, record, sideVars, history>>

Spawn(e, t) == engine[e] = At("spawn", t) /\ Launch(e, t)

\* After the CAPACITY rollback: written over whatever the row says by now.
Requeue(e, t) ==
  /\ engine[e] = At("requeue", t)
  /\ Show(t, "ready")
  /\ engine' = [engine EXCEPT ![e] = Idle]
  /\ UNCHANGED <<retries, pinned, tree, mode, attempt, record, sideVars, budget, history>>

Starting(t) == \E e \in Engines : engine[e] = At("starting", t)

\* The container runs and the attempt's job is created.
Started(e, t) ==
  /\ engine[e] = At("starting", t) /\ Running(t)
  /\ engine' = [engine EXCEPT ![e] = Idle]
  /\ UNCHANGED <<taskVars, attempt, record, sideVars, budget, history>>

\* mark_attempt_lost and settle_task in one transaction.
LostAndSettled(t) ==
  /\ Show(t, "failed")
  /\ attempt' = [attempt EXCEPT ![t].state = "stopped", ![t].flow = "pending"]

\* The container did not start, or the attempt ended meanwhile.
StartFails(e, t) ==
  /\ engine[e] = At("starting", t)
  /\ \/ Running(t) /\ Spend("fault") /\ LostAndSettled(t)
     \/ ~Running(t) /\ UNCHANGED <<budget, status, attempt>>
  /\ Goto(e, "unwinding", t)
  /\ UNCHANGED <<retries, pinned, tree, mode, record, sideVars, history>>

\* Every failed launch is queued again.
MutFailRequeues(e, t) ==
  /\ \/ engine[e] = At("failing", t)
     \/ engine[e] = At("unwinding", t) /\ attempt[t].flow # "pending"
  /\ Show(t, "ready")
  /\ Goto(e, "rollup", t)
  /\ UNCHANGED <<retries, pinned, tree, mode, attempt, record, sideVars, budget, history>>

\* _spawn_sdk_task's handler; after a failed start, the workflow ran first.
FailTask(e, t) ==
  /\ \/ engine[e] = At("failing", t)
     \/ engine[e] = At("unwinding", t) /\ attempt[t].flow # "pending"
  /\ Show(t, "failed")
  /\ Goto(e, "rollup", t)
  /\ UNCHANGED <<retries, pinned, tree, mode, attempt, record, sideVars, budget, history>>

RollUpAfter(e, t) ==
  /\ engine[e] = At("rollup", t)
  /\ status' = RolledUp(status, t)
  /\ engine' = [engine EXCEPT ![e] = Idle]
  /\ UNCHANGED <<retries, pinned, tree, mode, attempt, record, sideVars, budget, history>>

\* The time-out looks at tasks with an attempt.
MutTimesOutLaunched(e, t) ==
  /\ engine[e] = Idle
  /\ status[t] = "in_progress" /\ attempt[t].n # 0
  /\ Goto(e, "reaping", t)
  /\ UNCHANGED <<taskVars, attempt, record, sideVars, budget, history>>

\* check_timed_out_tasks: selected by one query, written later without a lock.
TimesOut(e, t) ==
  /\ engine[e] = Idle
  /\ status[t] = "in_progress" /\ attempt[t].n = 0
  /\ Goto(e, "reaping", t)
  /\ UNCHANGED <<taskVars, attempt, record, sideVars, budget, history>>

Reap(e, t) ==
  /\ engine[e] = At("reaping", t)
  /\ Show(t, "failed")
  /\ Goto(e, "rollup", t)
  /\ UNCHANGED <<retries, pinned, tree, mode, attempt, record, sideVars, budget, history>>

EngineStep(e, t) ==
  \/ TakeDirect(e, t) \/ TakeOrchestrated(e, t) \/ TemplateMissing(e, t)
  \/ Decompose(e, t) \/ SelectTemplate(e, t) \/ DecisionFails(e, t)
  \/ Spawn(e, t) \/ Requeue(e, t)
  \/ Started(e, t) \/ StartFails(e, t) \/ FailTask(e, t) \/ RollUpAfter(e, t)
  \/ Reap(e, t)

-----------------------------------------------------------------------------
(* An attempt ends and is projected onto its task.                         *)

\* The connector's run.finished is journalled.
AttemptReports(t, outcome) ==
  /\ Running(t) /\ ~Starting(t)
  /\ attempt' = [attempt EXCEPT ![t].state = outcome]
  /\ UNCHANGED <<taskVars, record, engine, sideVars, budget, history>>

Unprojected(t) == attempt[t].state \in Ended /\ attempt[t].flow = "none"

\* settle_task; valid: usage and artifact evidence are.
Settle(t, valid) ==
  /\ Unprojected(t)
  /\ Show(t, IF attempt[t].state = "success" /\ valid THEN "done" ELSE "failed")
  /\ attempt' = [attempt EXCEPT ![t].flow = "pending"]
  /\ UNCHANGED <<retries, pinned, tree, mode, record, engine, sideVars, budget, history>>

\* The job or the reconciler; the loop of an engine does one thing at a time.
Lose(t) ==
  /\ Running(t)
  /\ \E e \in Engines : engine[e] # At("starting", t)
  /\ LostAndSettled(t)
  /\ UNCHANGED <<retries, pinned, tree, mode, record, engine, sideVars, budget, history>>

-----------------------------------------------------------------------------
(* continue_workflow.                                                      *)

Current(t) == <<t, attempt[t].n>>

\* No job of this process works on it, or another process does not know.
Unattended(t) ==
  Current(t) \notin reviews \cup archiving \/ Cardinality(Engines) > 1

\* The last two steps in their order, with the record built from statuses st;
\* a failed upload rolls both back and only marks the attempt.
Archive(t, st) ==
  \/ /\ record' = [record EXCEPT ![t] = [attempt |-> attempt[t].n, final |-> st[t]]]
     /\ attempt' = [attempt EXCEPT ![t].flow = "archived"]
     /\ status' = RolledUp(st, t)
     /\ UNCHANGED budget
  \/ /\ Spend("fault")
     /\ attempt' = [attempt EXCEPT ![t].flow = "archive_pending"]
     /\ UNCHANGED <<record, status>>

\* The retry limit is off by one.
MutMayRetryOnceMore(t) == retries[t] <= MaxRetries

MayRetry(t) == retries[t] < MaxRetries

\* The retry is not counted.
MutRetriedUncounted(t) ==
  /\ Show(t, "ready")
  /\ attempt' = [attempt EXCEPT ![t].flow = "retry"]
  /\ UNCHANGED retries

Retried(t) ==
  /\ Show(t, "ready")
  /\ retries' = [retries EXCEPT ![t] = @ + 1]
  /\ attempt' = [attempt EXCEPT ![t].flow = "retry"]

RetryDue(t) ==
  /\ attempt[t].mode = "orchestrated" /\ status[t] = "failed"
  /\ attempt[t].state # "stopped" /\ MayRetry(t)

ReviewDue(t) == attempt[t].mode = "orchestrated" /\ status[t] = "done"

RetryFailed(t) ==
  /\ attempt[t].flow = "pending" /\ RetryDue(t)
  /\ Retried(t)
  /\ UNCHANGED <<pinned, tree, mode, record, engine, sideVars, budget, history>>

\* The claim is durable before the model is called.
ClaimReview(t) ==
  /\ attempt[t].flow = "pending" /\ ReviewDue(t)
  /\ Show(t, "review")
  /\ attempt' = [attempt EXCEPT ![t].flow = "review_running"]
  /\ reviews' = reviews \cup {Current(t)}
  /\ history' = [history EXCEPT ![t].paid = @ + 1]
  /\ UNCHANGED <<retries, pinned, tree, mode, record, engine, archiving, approving, selected, budget>>

\* The interrupted review is repeated.
MutRepeatReview(t) ==
  /\ attempt[t].flow = "review_running" /\ Unattended(t)
  /\ attempt' = [attempt EXCEPT ![t].flow = "pending"]
  /\ Show(t, "done")
  /\ UNCHANGED <<retries, pinned, tree, mode, record, engine, sideVars, budget, history>>

\* The interrupted review leaves the task's status alone.
MutRecoverQuietly(t) ==
  /\ attempt[t].flow = "review_running" /\ Unattended(t)
  /\ Archive(t, status)
  /\ UNCHANGED <<retries, pinned, tree, mode, engine, sideVars, history>>

\* The owner decides on an interrupted review; archived in the same transaction.
RecoverReview(t) ==
  /\ attempt[t].flow = "review_running" /\ Unattended(t)
  /\ Archive(t, [status EXCEPT ![t] = IF @ = "review" THEN "awaiting_approval" ELSE @])
  /\ UNCHANGED <<retries, pinned, tree, mode, engine, sideVars, history>>

\* An archive that was interrupted after the review is not resumed.
MutNoResume(t) ==
  /\ \/ attempt[t].flow = "pending" /\ ~RetryDue(t) /\ ~ReviewDue(t)
     \/ attempt[t].flow = "archive_pending" /\ Unattended(t)
  /\ Archive(t, status)
  /\ UNCHANGED <<retries, pinned, tree, mode, engine, sideVars, history>>

\* Without review and retry, or resumed after either was committed.
ArchiveNow(t) ==
  /\ \/ attempt[t].flow = "pending" /\ ~RetryDue(t) /\ ~ReviewDue(t)
     \/ attempt[t].flow \in {"reviewed", "archive_pending"} /\ Unattended(t)
  /\ Archive(t, status)
  /\ UNCHANGED <<retries, pinned, tree, mode, engine, sideVars, history>>

Reviewed(t, s) ==
  /\ Show(t, s)
  /\ attempt' = [attempt EXCEPT ![t].flow = "reviewed"]
  /\ archiving' = archiving \cup {Current(t)}
  /\ UNCHANGED retries

\* An approving reviewer ends the task.
MutApprovalIsDone(t, n, verdict) ==
  /\ <<t, n>> \in reviews /\ reviews' = reviews \ {<<t, n>>}
  /\ Current(t) = <<t, n>> /\ status[t] = "review"
  /\ \/ verdict # "rejected" /\ Reviewed(t, "done")
     \/ verdict = "rejected" /\ MayRetry(t) /\ Retried(t) /\ UNCHANGED archiving
     \/ verdict = "rejected" /\ ~MayRetry(t) /\ Reviewed(t, "failed")
  /\ UNCHANGED <<pinned, tree, mode, record, engine, approving, selected, budget, history>>

\* The answer, or its absence, is applied under the lock.
ReviewAnswers(t, n, verdict) ==
  /\ <<t, n>> \in reviews /\ reviews' = reviews \ {<<t, n>>}
  /\ Current(t) = <<t, n>> /\ status[t] = "review"
  /\ \/ verdict # "rejected" /\ Reviewed(t, "awaiting_approval")
     \/ verdict = "rejected" /\ MayRetry(t) /\ Retried(t) /\ UNCHANGED archiving
     \/ verdict = "rejected" /\ ~MayRetry(t) /\ Reviewed(t, "failed")
  /\ UNCHANGED <<pinned, tree, mode, record, engine, approving, selected, budget, history>>

\* The task moved on, or a newer attempt owns it.
ReviewSuperseded(t, n) ==
  /\ <<t, n>> \in reviews /\ reviews' = reviews \ {<<t, n>>}
  /\ \/ Current(t) # <<t, n>> /\ UNCHANGED attempt
     \/ /\ Current(t) = <<t, n>> /\ status[t] # "review"
        /\ attempt' = [attempt EXCEPT ![t].flow = "superseded"]
  /\ UNCHANGED <<taskVars, record, engine, archiving, approving, selected, budget, history>>

\* The reviewer's second transaction does not look at the stage again.
FinishReview(t, n) ==
  /\ <<t, n>> \in archiving /\ archiving' = archiving \ {<<t, n>>}
  /\ \/ Current(t) = <<t, n>> /\ Archive(t, status)
     \/ Current(t) # <<t, n>> /\ UNCHANGED <<status, attempt, record, budget>>
  /\ UNCHANGED <<retries, pinned, tree, mode, engine, reviews, approving, selected, history>>

Numbers == 1 .. MaxAttempts
Verdicts == {"approved", "rejected", "unavailable"}

ReviewStep(t) ==
  \E n \in Numbers :
    \/ \E verdict \in Verdicts : ReviewAnswers(t, n, verdict)
    \/ ReviewSuperseded(t, n)
    \/ FinishReview(t, n)

WorkflowStep(t) ==
  \/ RetryFailed(t) \/ ClaimReview(t) \/ RecoverReview(t) \/ ArchiveNow(t)
  \/ ReviewStep(t)

-----------------------------------------------------------------------------
(* Users.                                                                  *)

Asks(op) == op \in UserOps /\ Spend("request")
AskAgain(t) == history' = [history EXCEPT ![t].asked = @ + 1]

StartTask(t) ==
  /\ Asks("start")
  /\ ~Running(t) /\ ~Archived(t)
  /\ status[t] \in {"backlog", "ready", "failed", "done", "awaiting_approval"}
  /\ Show(t, "ready") /\ AskAgain(t)
  /\ UNCHANGED <<retries, pinned, tree, mode, attempt, record, engine, sideVars>>

\* The status is patched under a running attempt.
MutPatchRunning(t, s) ==
  /\ Asks("patch")
  /\ Exists(t) /\ s # status[t]
  /\ s \in {"ready", "backlog"} => ~Archived(t)
  /\ Show(t, s)
  /\ IF s = "ready" THEN AskAgain(t) ELSE UNCHANGED history
  /\ UNCHANGED <<retries, pinned, tree, mode, attempt, record, engine, sideVars>>

PatchStatus(t, s) ==
  /\ Asks("patch")
  /\ Exists(t) /\ s # status[t] /\ ~Running(t)
  /\ s \in {"ready", "backlog"} => ~Archived(t)
  /\ Show(t, s)
  /\ IF s = "ready" THEN AskAgain(t) ELSE UNCHANGED history
  /\ UNCHANGED <<retries, pinned, tree, mode, attempt, record, engine, sideVars>>

\* An attempt keeps the mode it was launched with.
PatchMode(t, m) ==
  /\ Asks("mode")
  /\ Exists(t) /\ ~Archived(t) /\ ~Running(t)
  /\ {m, mode[t]} = {"direct", "orchestrated"} /\ m # mode[t]
  /\ mode' = [mode EXCEPT ![t] = m]
  /\ UNCHANGED <<status, retries, pinned, tree, attempt, record, engine, sideVars, history>>

\* Once archived, the revision is a new task, which is not modelled.
RejectTask(t) ==
  /\ Asks("reject")
  /\ status[t] = "awaiting_approval"
  /\ \/ /\ Archived(t)
        /\ Show(t, "failed")
        /\ record' = [record EXCEPT ![t].final = "failed"]
        /\ UNCHANGED history
     \/ /\ ~Archived(t)
        /\ Show(t, "ready") /\ AskAgain(t)
        /\ UNCHANGED record
  /\ UNCHANGED <<retries, pinned, tree, mode, attempt, engine, sideVars>>

\* approve_task takes no lock: it reads the status ...
ApproveReads(t) ==
  /\ Asks("approve")
  /\ status[t] = "awaiting_approval" /\ t \notin approving
  /\ approving' = approving \cup {t}
  /\ UNCHANGED <<taskVars, attempt, record, engine, reviews, archiving, selected, history>>

\* ... and writes it.
ApproveWrites(t) ==
  /\ t \in approving /\ approving' = approving \ {t}
  /\ Show(t, "done")
  /\ history' = [history EXCEPT ![t].approved = TRUE]
  /\ UNCHANGED <<retries, pinned, tree, mode, attempt, record, engine, reviews, archiving, selected,
                 budget>>

\* build_quality_record: nothing while an attempt runs; the row keeps its source.
Recorded(t) ==
  IF Running(t) THEN UNCHANGED record
  ELSE record' = [record EXCEPT ![t] = [attempt |-> attempt[t].n, final |-> status[t]]]

\* An evaluation on demand builds the record it writes to.
EvaluateTask(t) ==
  /\ Asks("evaluate")
  /\ Exists(t) /\ ~Archived(t) /\ ~Running(t)
  /\ Recorded(t)
  /\ UNCHANGED <<taskVars, attempt, engine, sideVars, history>>

-----------------------------------------------------------------------------
(* The scheduler's backfill: one query, then one transaction per task.      *)

Missing == {t \in Tasks : status[t] \in Finished /\ ~Archived(t)}

BackfillSelects ==
  /\ "backfill" \in UserOps
  /\ selected = {} /\ Missing # {} /\ selected' = Missing
  /\ UNCHANGED <<taskVars, attempt, record, engine, reviews, archiving, approving, budget, history>>

\* The status is not looked at again.
BackfillBuilds(t) ==
  /\ t \in selected /\ selected' = selected \ {t}
  /\ \/ Recorded(t) /\ UNCHANGED budget
     \/ Spend("fault") /\ UNCHANGED record
  /\ UNCHANGED <<taskVars, attempt, engine, reviews, archiving, approving, history>>

\* Only records of unfinished tasks are reconciled.
MutReconcileUnfinished(t) ==
  /\ "backfill" \in UserOps
  /\ Archived(t) /\ status[t] \notin Finished /\ record[t].final # status[t]
  /\ record' = [record EXCEPT ![t].final = status[t]]
  /\ UNCHANGED <<taskVars, attempt, engine, sideVars, budget, history>>

BackfillReconciles(t) ==
  /\ "backfill" \in UserOps
  /\ Archived(t) /\ status[t] \in Finished /\ record[t].final # status[t]
  /\ record' = [record EXCEPT ![t].final = status[t]]
  /\ UNCHANGED <<taskVars, attempt, engine, sideVars, budget, history>>

\* The orchestrator processes restart: loops, jobs and reviewers are gone.
Crash ==
  /\ Spend("crash")
  /\ engine' = [e \in Engines |-> Idle]
  /\ reviews' = {} /\ archiving' = {}
  /\ UNCHANGED <<taskVars, attempt, record, approving, selected, history>>

UserStep(t) ==
  \/ StartTask(t)
  \/ \E s \in PatchStatuses : PatchStatus(t, s)
  \/ \E m \in Modes : PatchMode(t, m)
  \/ RejectTask(t) \/ ApproveReads(t) \/ ApproveWrites(t) \/ EvaluateTask(t)

AttemptEnds(t) ==
  \/ \E outcome \in Ended : AttemptReports(t, outcome)
  \/ Lose(t)

Next ==
  \/ \E e \in Engines, t \in Tasks : EngineStep(e, t) \/ TimesOut(e, t)
  \/ \E t \in Tasks : AttemptEnds(t) \/ WorkflowStep(t) \/ UserStep(t)
  \/ \E t \in Tasks, valid \in BOOLEAN : Settle(t, valid)
  \/ \E t \in Tasks : BackfillBuilds(t) \/ BackfillReconciles(t)
  \/ BackfillSelects
  \/ Crash

Spec == Init /\ [][Next]_vars

\* A loop goes on, a runner reports or is missed, workers resume what is
\* committed, the time-out is checked.  Users and crashes are never forced.
Fairness ==
  /\ \A e \in Engines, t \in Tasks : WF_vars(EngineStep(e, t)) /\ WF_vars(TimesOut(e, t))
  /\ \A t \in Tasks :
       /\ WF_vars(AttemptEnds(t)) /\ WF_vars(\E valid \in BOOLEAN : Settle(t, valid))
       /\ WF_vars(WorkflowStep(t))
       /\ WF_vars(BackfillBuilds(t)) /\ WF_vars(BackfillReconciles(t))
       /\ WF_vars(ApproveWrites(t))

FairSpec == Spec /\ Fairness

-----------------------------------------------------------------------------
(* Properties.                                                             *)

Stages == {"none", "pending", "review_running", "reviewed", "archive_pending"} \cup Complete

Places == {"idle", "decide", "spawn", "starting", "unwinding", "requeue", "failing", "rollup",
           "reaping"}

AttemptRows == [n : 0 .. MaxAttempts, mode : Modes \cup {"none"},
                state : Ended \cup {"none", "active"}, flow : Stages]
Budgets == [request : 0 .. MaxRequests, crash : 0 .. MaxCrashes, fault : 0 .. MaxFaults]
Histories == [paid : Nat, asked : Nat, approved : BOOLEAN]

\* The type invariant.
WorkflowTypeOK ==
  /\ status \in [Tasks -> Statuses]
  /\ retries \in [Tasks -> 0 .. MaxRetries]
  /\ pinned \subseteq Tasks
  /\ tree \in [Tasks -> [parent : Tasks \cup {NoTask}, deps : SUBSET Tasks]]
  /\ mode \in [Tasks -> Modes]
  /\ attempt \in [Tasks -> AttemptRows]
  /\ record \in [Tasks -> {NoRecord} \cup [attempt : 0 .. MaxAttempts, final : Statuses]]
  /\ engine \in [Engines -> [pc : Places, task : Tasks \cup {NoTask}]]
  /\ reviews \cup archiving \subseteq Tasks \X Numbers
  /\ approving \cup selected \subseteq Tasks
  /\ budget \in Budgets
  /\ history \in [Tasks -> Histories]

\* The model reviews an attempt at most once, whatever is interrupted, rolled
\* back, requeued or recovered by another process.
ReviewPaidOnce == \A t \in Tasks : history[t].paid <= 1

\* A record belongs to the newest attempt: no execution follows the archive,
\* and a record is never attributed to an attempt it does not describe.
RecordPinsAttempt == \A t \in Tasks : Archived(t) => record[t].attempt = attempt[t].n

\* A running attempt is visible: nobody writes over the status it set.
AttemptShown == \A t \in Tasks : Running(t) => status[t] = "in_progress"

\* Every execution after the first was asked for: by a counted retry or a user.
AttemptsAskedFor ==
  \A t \in Tasks : attempt[t].n <= 1 + retries[t] + history[t].asked

\* No execution runs behind the back of the user: none is hidden by the status
\* of its task, and none happens that was not asked for.
NoHiddenExecution == AttemptShown /\ AttemptsAskedFor

\* With the reviewer in charge, only the owner's approval ends a task as done;
\* in between, done is the projection that awaits its review.
OwnerDecides ==
  \A t \in Tasks :
    status[t] = "done" /\ attempt[t].mode = "orchestrated" =>
      history[t].approved \/ attempt[t].flow = "pending"

\* A child runs on the results of its dependencies, all of them done.
DependencyOrder ==
  \A t \in Tasks : Running(t) => \A d \in tree[t].deps : status[d] = "done"

\* A parent is reported done only while all its children are.
ParentDoneTruly ==
  \A p \in Tasks : status[p] = "done" /\ Children(p) # {} =>
    \A c \in Children(p) : status[c] = "done"

\* A parent whose children have all finished has somebody left to roll it up:
\* an engine about to, or a child whose archiving is still to come.
ParentNotForgotten ==
  \A p \in Tasks :
    status[p] = "in_progress" /\ Children(p) # {}
    /\ (\A c \in Children(p) : status[c] \in Finished) =>
      \E c \in Children(p) :
        \/ \E e \in Engines : engine[e] = At("rollup", c)
        \/ attempt[c].flow \in Stages \ (Complete \cup {"none"})

\* A decomposed task and its children agree: children run on finished
\* dependencies, a parent is done only with them, and somebody rolls it up.
FamilyAgrees == DependencyOrder /\ ParentDoneTruly /\ ParentNotForgotten

\* A task that waits for its retry is not archived: archived, it would not run.
RetryBeforeArchive == \A t \in Tasks : attempt[t].flow = "retry" => ~Archived(t)

\* An interrupted review becomes the owner's decision: past the review stage the
\* task no longer says review, a status from which the owner cannot act.
ReviewReachesOwner ==
  \A t \in Tasks :
    attempt[t].flow \in {"reviewed", "archive_pending", "archived"} => status[t] # "review"

\* Once settled, an attempt's workflow completes, or a newer attempt replaces it.
WorkflowEnds ==
  \A t \in Tasks : attempt[t].flow = "pending" ~> attempt[t].flow \in Complete \cup {"none"}

\* Nobody works on the decomposition of t any more.
Stranded(t) == status[t] = "decomposing" /\ \A e \in Engines : engine[e].task # t

\* A review ends: by its answer, or, when its reviewer died, by asking the owner.
ReviewEnds == \A t \in Tasks : status[t] = "review" ~> status[t] # "review"

\* The workflow behind an attempt completes, and its review with it.
WorkflowCompletes == WorkflowEnds /\ ReviewEnds

\* What was asked for comes to rest with an outcome that no review or retry
\* is still to change, decomposed or not, or was stranded by a crash.
RootRests ==
  status[Root] = "ready" ~>
    \/ status[Root] \in Finished \cup {"awaiting_approval"} /\ attempt[Root].flow # "pending"
    \/ Stranded(Root)

\* In the end a record agrees with the outcome of its task.
FinalStatusReconciled ==
  \A t \in Tasks :
    <>[](Archived(t) /\ status[t] \in Finished => record[t].final = status[t])
=============================================================================
