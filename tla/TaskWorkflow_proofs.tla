------------------------- MODULE TaskWorkflow_proofs -------------------------
(***************************************************************************)
(* Proofs about TaskWorkflow for every set of tasks, modes and engines and *)
(* every bound: its types, what a record is attributed to, that an attempt *)
(* is reviewed once, that nothing runs behind its task's status, that the  *)
(* owner decides, and that a decomposed task and its children agree.       *)
(***************************************************************************)
EXTENDS TaskWorkflow, TLAPS

\* Before its first launch a task has no attempt at all.
Numbered == \A t \in Tasks : attempt[t].n = 0 => attempt[t] = NoAttempt

TypeInv == WorkflowTypeOK /\ Numbered

\* Rolling a parent up yields statuses again.
LEMMA RolledUpType ==
  ASSUME NEW st \in [Tasks -> Statuses], NEW t \in Tasks
  PROVE  RolledUp(st, t) \in [Tasks -> Statuses]
BY DEF RolledUp, Statuses

\* A task whose attempt is under way, ended or in a workflow stage has one.
LEMMA AttemptNumber ==
  ASSUME TypeInv, NEW t \in Tasks, attempt[t].flow # "none" \/ attempt[t].state # "none"
  PROVE  attempt[t].n \in Numbers
BY TaskAssumption DEF TypeInv, WorkflowTypeOK, Numbered, NoAttempt, Numbers, AttemptRows

\* The attempt of a task is replaced by one that keeps its number.
LEMMA SameNumber ==
  ASSUME TypeInv, NEW t \in Tasks, attempt[t].n # 0, NEW row \in AttemptRows,
         row.n = attempt[t].n, attempt' = [attempt EXCEPT ![t] = row]
  PROVE  attempt' \in [Tasks -> AttemptRows] /\ Numbered'
BY DEF TypeInv, WorkflowTypeOK, Numbered

\* A new workflow stage.
LEMMA StageType ==
  ASSUME TypeInv, NEW t \in Tasks, attempt[t].n # 0, NEW f \in Stages,
         attempt' = [attempt EXCEPT ![t].flow = f]
  PROVE  attempt' \in [Tasks -> AttemptRows] /\ Numbered'
<1>1. attempt \in [Tasks -> AttemptRows] /\ attempt[t] \in AttemptRows
  BY DEF TypeInv, WorkflowTypeOK
<1>2. [attempt[t] EXCEPT !.flow = f] \in AttemptRows
  BY <1>1 DEF AttemptRows
<1>3. [attempt[t] EXCEPT !.flow = f].n = attempt[t].n
  BY <1>1 DEF AttemptRows
<1>4. attempt' = [attempt EXCEPT ![t] = [attempt[t] EXCEPT !.flow = f]]
  BY <1>1
<1>5. QED
  BY <1>2, <1>3, <1>4, SameNumber

\* An attempt that ends, with or without its projection.
LEMMA EndType ==
  ASSUME TypeInv, NEW t \in Tasks, Running(t), NEW s \in Ended, NEW f \in Stages,
         \/ attempt' = [attempt EXCEPT ![t].state = s, ![t].flow = f]
         \/ attempt' = [attempt EXCEPT ![t].state = s]
  PROVE  attempt' \in [Tasks -> AttemptRows] /\ Numbered'
<1>1. attempt \in [Tasks -> AttemptRows] /\ attempt[t] \in AttemptRows
  BY DEF TypeInv, WorkflowTypeOK
<1>2. attempt[t].n # 0
  BY TaskAssumption, AttemptNumber DEF Running, Numbers
<1>3. PICK row \in AttemptRows :
        row.n = attempt[t].n /\ attempt' = [attempt EXCEPT ![t] = row]
  <2>1. CASE attempt' = [attempt EXCEPT ![t].state = s, ![t].flow = f]
    <3>1. [attempt[t] EXCEPT !.state = s, !.flow = f] \in AttemptRows
      BY <1>1 DEF AttemptRows
    <3>2. [attempt[t] EXCEPT !.state = s, !.flow = f].n = attempt[t].n
      BY <1>1 DEF AttemptRows
    <3>3. attempt' = [attempt EXCEPT ![t] = [attempt[t] EXCEPT !.state = s, !.flow = f]]
      BY <1>1, <2>1
    <3>4. QED
      BY <3>1, <3>2, <3>3
  <2>2. CASE attempt' = [attempt EXCEPT ![t].state = s]
    <3>1. [attempt[t] EXCEPT !.state = s] \in AttemptRows
      BY <1>1 DEF AttemptRows
    <3>2. [attempt[t] EXCEPT !.state = s].n = attempt[t].n
      BY <1>1 DEF AttemptRows
    <3>3. attempt' = [attempt EXCEPT ![t] = [attempt[t] EXCEPT !.state = s]]
      BY <1>1, <2>2
    <3>4. QED
      BY <3>1, <3>2, <3>3
  <2>3. QED
    BY <2>1, <2>2
<1>4. QED
  BY <1>2, <1>3, SameNumber

\* Declaring a running attempt lost.
LEMMA LostType ==
  ASSUME TypeInv, NEW t \in Tasks, Running(t), LostAndSettled(t)
  PROVE  /\ status' \in [Tasks -> Statuses]
         /\ attempt' \in [Tasks -> AttemptRows]
         /\ Numbered'
<1>1. status' \in [Tasks -> Statuses]
  BY DEF LostAndSettled, Show, TypeInv, WorkflowTypeOK, Statuses
<1>2. "stopped" \in Ended /\ "pending" \in Stages
  BY DEF Ended, Stages
<1>3. QED
  BY <1>1, <1>2, EndType DEF LostAndSettled

\* What is spent stays within its bound.
LEMMA BudgetType ==
  ASSUME budget \in Budgets, NEW kind \in {"request", "crash", "fault"}, Spend(kind)
  PROVE  budget' \in Budgets
BY TaskAssumption DEF Budgets, Spend

\* The observations count on, or start again with a new attempt.
LEMMA HistoryType ==
  ASSUME history \in [Tasks -> Histories], NEW t \in Tasks
  PROVE  /\ [history EXCEPT ![t].paid = 0] \in [Tasks -> Histories]
         /\ [history EXCEPT ![t].paid = @ + 1] \in [Tasks -> Histories]
         /\ [history EXCEPT ![t].asked = @ + 1] \in [Tasks -> Histories]
         /\ [history EXCEPT ![t].approved = TRUE] \in [Tasks -> Histories]
<1>1. history[t] \in Histories
  OBVIOUS
<1>2. [history[t] EXCEPT !.paid = 0] \in Histories
  BY <1>1 DEF Histories
<1>3. [history[t] EXCEPT !.paid = @ + 1] \in Histories
  BY <1>1 DEF Histories
<1>4. [history[t] EXCEPT !.asked = @ + 1] \in Histories
  BY <1>1 DEF Histories
<1>5. [history[t] EXCEPT !.approved = TRUE] \in Histories
  BY <1>1, Zenon DEF Histories
<1>6. /\ [history EXCEPT ![t].paid = 0] = [history EXCEPT ![t] = [history[t] EXCEPT !.paid = 0]]
      /\ [history EXCEPT ![t].paid = @ + 1] =
           [history EXCEPT ![t] = [history[t] EXCEPT !.paid = @ + 1]]
      /\ [history EXCEPT ![t].asked = @ + 1] =
           [history EXCEPT ![t] = [history[t] EXCEPT !.asked = @ + 1]]
      /\ [history EXCEPT ![t].approved = TRUE] =
           [history EXCEPT ![t] = [history[t] EXCEPT !.approved = TRUE]]
  OBVIOUS
<1>7. QED
  BY <1>2, <1>3, <1>4, <1>5, <1>6

LEMMA AskedType ==
  ASSUME history \in [Tasks -> Histories], NEW t \in Tasks, AskAgain(t) \/ UNCHANGED history
  PROVE  history' \in [Tasks -> Histories]
BY HistoryType DEF AskAgain

LEMMA TypeInit == Init => TypeInv
BY TaskAssumption
DEF Init, TypeInv, WorkflowTypeOK, Numbered, NoAttempt, NoRecord, Idle, Statuses, Places,
    Stages, Complete, Ended, AttemptRows, Histories, Budgets

\* The actions of the orchestrator's loop keep the types.
LEMMA EngineTypes ==
  ASSUME TypeInv, NEW e \in Engines, NEW t \in Tasks, EngineStep(e, t) \/ TimesOut(e, t)
  PROVE  TypeInv'
<1> USE TaskAssumption
    DEF TypeInv, WorkflowTypeOK, taskVars, sideVars, Show, Goto, At, Idle
<1>1. ASSUME Launch(e, t) PROVE TypeInv'
  <2>1. CASE RestoreArchived(e, t)
    BY <2>1 DEF RestoreArchived, Archived, NoRecord, Statuses, Places, Numbered
  <2>2. CASE CreateAttempt(e, t)
    <3>1. /\ NewAttempt(t) \in AttemptRows
          /\ NewAttempt(t).n # 0
      BY <2>2 DEF CreateAttempt, NewAttempt, AttemptRows, Stages
    <3>2. attempt' = [attempt EXCEPT ![t] = NewAttempt(t)]
      BY <2>2 DEF CreateAttempt
    <3>3. Numbered'
      BY <3>1, <3>2 DEF Numbered
    <3>4. /\ status' \in [Tasks -> Statuses]
          /\ engine' \in [Engines -> [pc : Places, task : Tasks \cup {NoTask}]]
      BY <2>2 DEF CreateAttempt, Statuses, Places
    <3>5. history' \in [Tasks -> Histories]
      BY <2>2, HistoryType DEF CreateAttempt
    <3>6. attempt' \in [Tasks -> AttemptRows]
      BY <3>1, <3>2
    <3>7. QED
      BY <2>2, <3>3, <3>4, <3>5, <3>6 DEF CreateAttempt
  <2>3. CASE NoCapacity(e, t)
    BY <2>3, BudgetType DEF NoCapacity, Places, Numbered
  <2>4. CASE LaunchFails(e, t)
    BY <2>4, BudgetType DEF LaunchFails, Places, Numbered
  <2>5. QED
    BY <1>1, <2>1, <2>2, <2>3, <2>4 DEF Launch
<1>2. CASE TakeDirect(e, t)
  BY <1>1, <1>2 DEF TakeDirect
<1>3. CASE TakeOrchestrated(e, t)
  BY <1>3 DEF TakeOrchestrated, Statuses, Places, Numbered
<1>4. CASE TemplateMissing(e, t)
  BY <1>4, BudgetType DEF TemplateMissing, Statuses, Places, Numbered
<1>5. CASE Decompose(e, t)
  <2>1. PICK kids \in (SUBSET {k \in Tasks : ~Exists(k)}) \ {{}} :
          \E deps \in [kids -> SUBSET kids] :
            /\ \A k \in kids : \A d \in deps[k] : d < k
            /\ tree' = [k \in Tasks |-> IF k \in kids THEN [parent |-> t, deps |-> deps[k]]
                                                      ELSE tree[k]]
            /\ status' = [k \in Tasks |-> IF k \in kids THEN "ready"
                                          ELSE IF k = t THEN "in_progress" ELSE status[k]]
            /\ mode' = [k \in Tasks |-> IF k \in kids THEN mode[t] ELSE mode[k]]
    BY <1>5, Zenon DEF Decompose
  <2> DEFINE Tree == [parent : Tasks \cup {NoTask}, deps : SUBSET Tasks]
  <2>2. PICK deps \in [kids -> SUBSET kids] :
          tree' = [k \in Tasks |-> IF k \in kids THEN [parent |-> t, deps |-> deps[k]]
                                                 ELSE tree[k]]
    BY <2>1
  <2>3. \A k \in kids : deps[k] \in SUBSET Tasks
    BY <2>1, <2>2
  <2>4. tree' \in [Tasks -> Tree]
    <3>1. ASSUME NEW k \in kids PROVE [parent |-> t, deps |-> deps[k]] \in Tree
      BY <2>3
    <3>2. ASSUME NEW k \in Tasks PROVE tree[k] \in Tree
      OBVIOUS
    <3> HIDE DEF Tree
    <3>3. QED
      BY <2>2, <3>1, <3>2
  <2>5. status' \in [Tasks -> Statuses]
    BY <2>1 DEF Statuses
  <2>6. mode' \in [Tasks -> Modes]
    BY <2>1
  <2>7. QED
    BY <1>5, <2>4, <2>5, <2>6 DEF Decompose, Places, Numbered
<1>6. CASE SelectTemplate(e, t)
  BY <1>6 DEF SelectTemplate, Places, Numbered
<1>7. CASE DecisionFails(e, t)
  BY <1>7, BudgetType DEF DecisionFails, Statuses, Places, Numbered
<1>8. CASE Spawn(e, t)
  BY <1>1, <1>8 DEF Spawn
<1>9. CASE Requeue(e, t)
  BY <1>9 DEF Requeue, Statuses, Places, Numbered
<1>10. CASE Started(e, t)
  BY <1>10 DEF Started, Places, Numbered
<1>11. CASE StartFails(e, t)
  <2>1. CASE Running(t) /\ LostAndSettled(t)
    BY <1>11, <2>1, LostType, BudgetType DEF StartFails, Places
  <2>2. CASE UNCHANGED <<budget, status, attempt>>
    BY <1>11, <2>2 DEF StartFails, Places, Numbered
  <2>3. QED
    BY <1>11, <2>1, <2>2 DEF StartFails
<1>12. CASE FailTask(e, t)
  BY <1>12 DEF FailTask, Statuses, Places, Numbered
<1>13. CASE RollUpAfter(e, t)
  BY <1>13, RolledUpType DEF RollUpAfter, Places, Numbered
<1>14. CASE Reap(e, t)
  BY <1>14 DEF Reap, Statuses, Places, Numbered
<1>15. CASE TimesOut(e, t)
  BY <1>15 DEF TimesOut, Places, Numbered
<1>16. QED
  BY <1>2, <1>3, <1>4, <1>5, <1>6, <1>7, <1>8, <1>9, <1>10, <1>11, <1>12, <1>13, <1>14, <1>15
  DEF EngineStep

\* An attempt ends, is settled or is lost.
LEMMA AttemptTypes ==
  ASSUME TypeInv, NEW t \in Tasks,
         AttemptEnds(t) \/ \E valid \in BOOLEAN : Settle(t, valid)
  PROVE  TypeInv'
<1> USE TaskAssumption DEF TypeInv, WorkflowTypeOK, taskVars, sideVars, Show
<1>1. ASSUME NEW outcome \in Ended, AttemptReports(t, outcome) PROVE TypeInv'
  <2>1. "none" \in Stages
    BY DEF Stages
  <2>2. attempt' \in [Tasks -> AttemptRows] /\ Numbered'
    BY <1>1, <2>1, EndType DEF AttemptReports
  <2>3. QED
    BY <1>1, <2>2 DEF AttemptReports
<1>2. CASE Lose(t)
  BY <1>2, LostType DEF Lose
<1>3. ASSUME NEW valid \in BOOLEAN, Settle(t, valid) PROVE TypeInv'
  <2>1. attempt[t].n # 0 /\ "pending" \in Stages
    BY <1>3, AttemptNumber DEF Settle, Unprojected, Ended, Numbers, Stages
  <2>2. attempt' \in [Tasks -> AttemptRows] /\ Numbered'
    BY <1>3, <2>1, StageType DEF Settle
  <2>3. QED
    BY <1>3, <2>2 DEF Settle, Statuses
<1>4. QED
  BY <1>1, <1>2, <1>3 DEF AttemptEnds

\* Archiving writes a record of the current attempt, or leaves it for later.
LEMMA ArchiveType ==
  ASSUME TypeInv, NEW t \in Tasks, attempt[t].n # 0,
         NEW st \in [Tasks -> Statuses], Archive(t, st)
  PROVE  /\ status' \in [Tasks -> Statuses]
         /\ attempt' \in [Tasks -> AttemptRows]
         /\ Numbered'
         /\ record' \in [Tasks -> {NoRecord} \cup [attempt : 0 .. MaxAttempts, final : Statuses]]
         /\ budget' \in Budgets
<1> USE DEF TypeInv, WorkflowTypeOK
<1>1. "archived" \in Stages /\ "archive_pending" \in Stages
  BY DEF Stages, Complete
<1>2. attempt[t].n \in 0 .. MaxAttempts
  BY DEF AttemptRows
<1>3. attempt' \in [Tasks -> AttemptRows] /\ Numbered'
  BY <1>1, StageType DEF Archive
<1>4. status' \in [Tasks -> Statuses]
  BY RolledUpType DEF Archive
<1>5. record' \in [Tasks -> {NoRecord} \cup [attempt : 0 .. MaxAttempts, final : Statuses]]
  BY <1>2 DEF Archive
<1>6. budget' \in Budgets
  BY BudgetType DEF Archive
<1>7. QED
  BY <1>3, <1>4, <1>5, <1>6

\* The steps of continue_workflow.
LEMMA WorkflowTypes ==
  ASSUME TypeInv, NEW t \in Tasks, WorkflowStep(t)
  PROVE  TypeInv'
<1> USE TaskAssumption DEF TypeInv, WorkflowTypeOK, taskVars, sideVars
<1>1. ASSUME attempt[t].flow # "none" \/ attempt[t].state # "none"
      PROVE  attempt[t].n # 0 /\ Current(t) \in Tasks \X Numbers
  BY <1>1, AttemptNumber DEF Numbers, Current
<1>2. ASSUME attempt[t].n # 0, Retried(t), MayRetry(t)
      PROVE  /\ status' \in [Tasks -> Statuses]
             /\ retries' \in [Tasks -> 0 .. MaxRetries]
             /\ attempt' \in [Tasks -> AttemptRows] /\ Numbered'
  <2>1. "retry" \in Stages
    BY DEF Stages, Complete
  <2>2. attempt' \in [Tasks -> AttemptRows] /\ Numbered'
    BY <1>2, <2>1, StageType DEF Retried
  <2>3. QED
    BY <1>2, <2>2 DEF Retried, MayRetry, Show, Statuses
<1>3. CASE RetryFailed(t)
  BY <1>1, <1>2, <1>3 DEF RetryFailed, RetryDue
<1>4. CASE ClaimReview(t)
  <2>1. attempt[t].n # 0 /\ Current(t) \in Tasks \X Numbers /\ "review_running" \in Stages
    BY <1>1, <1>4 DEF ClaimReview, Stages
  <2>2. attempt' \in [Tasks -> AttemptRows] /\ Numbered'
    BY <1>4, <2>1, StageType DEF ClaimReview
  <2>3. QED
    BY <1>4, <2>1, <2>2, HistoryType DEF ClaimReview, Show, Statuses
<1>5. CASE RecoverReview(t)
  <2>1. [status EXCEPT ![t] = IF @ = "review" THEN "awaiting_approval" ELSE @]
          \in [Tasks -> Statuses]
    BY DEF Statuses
  <2>2. attempt[t].n # 0
    BY <1>1, <1>5 DEF RecoverReview
  <2>3. QED
    BY <1>5, <2>1, <2>2, ArchiveType DEF RecoverReview
<1>6. CASE ArchiveNow(t)
  <2>1. attempt[t].n # 0
    BY <1>1, <1>6 DEF ArchiveNow
  <2>2. QED
    BY <1>6, <2>1, ArchiveType DEF ArchiveNow
<1>7. ASSUME NEW n \in Numbers, NEW verdict \in Verdicts, ReviewAnswers(t, n, verdict)
      PROVE  TypeInv'
  <2>1. attempt[t].n # 0 /\ Current(t) \in Tasks \X Numbers
    BY <1>7 DEF ReviewAnswers, Current, Numbers
  <2>2. ASSUME NEW s \in Statuses, Reviewed(t, s) PROVE TypeInv'
    <3>1. "reviewed" \in Stages
      BY DEF Stages
    <3>2. attempt' \in [Tasks -> AttemptRows] /\ Numbered'
      BY <2>1, <2>2, <3>1, StageType DEF Reviewed
    <3>3. QED
      BY <1>7, <2>1, <2>2, <3>2 DEF ReviewAnswers, Reviewed, Show
  <2>3. CASE MayRetry(t) /\ Retried(t) /\ UNCHANGED archiving
    BY <1>2, <1>7, <2>1, <2>3 DEF ReviewAnswers
  <2>4. QED
    BY <1>7, <2>2, <2>3 DEF ReviewAnswers, Statuses
<1>8. ASSUME NEW n \in Numbers, ReviewSuperseded(t, n) PROVE TypeInv'
  <2>1. CASE UNCHANGED attempt
    BY <1>8, <2>1 DEF ReviewSuperseded, Numbered
  <2>2. CASE Current(t) = <<t, n>> /\ attempt' = [attempt EXCEPT ![t].flow = "superseded"]
    <3>1. attempt[t].n # 0 /\ "superseded" \in Stages
      BY <2>2 DEF Current, Numbers, Stages, Complete
    <3>2. attempt' \in [Tasks -> AttemptRows] /\ Numbered'
      BY <2>2, <3>1, StageType
    <3>3. QED
      BY <1>8, <3>2 DEF ReviewSuperseded
  <2>3. QED
    BY <1>8, <2>1, <2>2 DEF ReviewSuperseded
<1>9. ASSUME NEW n \in Numbers, FinishReview(t, n) PROVE TypeInv'
  <2>1. CASE Current(t) = <<t, n>> /\ Archive(t, status)
    <3>1. attempt[t].n # 0
      BY <2>1 DEF Current, Numbers
    <3>2. QED
      BY <1>9, <2>1, <3>1, ArchiveType DEF FinishReview
  <2>2. CASE UNCHANGED <<status, attempt, record, budget>>
    BY <1>9, <2>2 DEF FinishReview, Numbered
  <2>3. QED
    BY <1>9, <2>1, <2>2 DEF FinishReview
<1>10. QED
  BY <1>3, <1>4, <1>5, <1>6, <1>7, <1>8, <1>9 DEF WorkflowStep, ReviewStep

\* What users do, and the backfill.
LEMMA UserTypes ==
  ASSUME TypeInv, NEW t \in Tasks,
         UserStep(t) \/ BackfillBuilds(t) \/ BackfillReconciles(t)
  PROVE  TypeInv'
<1> USE TaskAssumption DEF TypeInv, WorkflowTypeOK, taskVars, sideVars, Show
<1>1. CASE StartTask(t)
  BY <1>1, BudgetType, AskedType DEF StartTask, Asks, Statuses, Numbered
<1>2. ASSUME NEW s \in PatchStatuses, PatchStatus(t, s) PROVE TypeInv'
  <2>1. history' \in [Tasks -> Histories]
    BY <1>2, AskedType DEF PatchStatus
  <2>2. status' \in [Tasks -> Statuses]
    BY <1>2 DEF PatchStatus, Statuses
  <2>3. budget' \in Budgets
    BY <1>2, BudgetType DEF PatchStatus, Asks
  <2>4. QED
    BY <1>2, <2>1, <2>2, <2>3 DEF PatchStatus, Numbered
<1>3. ASSUME NEW m \in Modes, PatchMode(t, m) PROVE TypeInv'
  BY <1>3, BudgetType DEF PatchMode, Asks, Numbered
<1>4. ASSUME NEW s \in Statuses, Archived(t)
      PROVE  [record EXCEPT ![t].final = s]
               \in [Tasks -> {NoRecord} \cup [attempt : 0 .. MaxAttempts, final : Statuses]]
  <2>1. record[t] \in [attempt : 0 .. MaxAttempts, final : Statuses]
    BY <1>4 DEF Archived
  <2>2. [record[t] EXCEPT !.final = s] \in [attempt : 0 .. MaxAttempts, final : Statuses]
    BY <2>1
  <2>3. [record EXCEPT ![t].final = s] = [record EXCEPT ![t] = [record[t] EXCEPT !.final = s]]
    OBVIOUS
  <2>4. QED
    BY <2>2, <2>3
<1>5. CASE RejectTask(t)
  <2>1. history' \in [Tasks -> Histories]
    BY <1>5, AskedType DEF RejectTask
  <2>2. status' \in [Tasks -> Statuses]
    BY <1>5 DEF RejectTask, Statuses
  <2>3. budget' \in Budgets
    BY <1>5, BudgetType DEF RejectTask, Asks
  <2>4. record' \in [Tasks -> {NoRecord} \cup [attempt : 0 .. MaxAttempts, final : Statuses]]
    BY <1>4, <1>5 DEF RejectTask, Statuses
  <2>5. QED
    BY <1>5, <2>1, <2>2, <2>3, <2>4 DEF RejectTask, Numbered
<1>6. CASE ApproveReads(t)
  BY <1>6, BudgetType DEF ApproveReads, Asks, Numbered
<1>7. CASE ApproveWrites(t)
  BY <1>7, HistoryType DEF ApproveWrites, Statuses, Numbered
<1>8. ASSUME Recorded(t)
      PROVE  record' \in [Tasks -> {NoRecord} \cup [attempt : 0 .. MaxAttempts, final : Statuses]]
  <2>1. [attempt |-> attempt[t].n, final |-> status[t]]
          \in [attempt : 0 .. MaxAttempts, final : Statuses]
    BY DEF AttemptRows
  <2>2. QED
    BY <1>8, <2>1 DEF Recorded
<1>9. CASE EvaluateTask(t)
  BY <1>8, <1>9, BudgetType DEF EvaluateTask, Asks, Numbered
<1>10. CASE BackfillBuilds(t)
  BY <1>8, <1>10, BudgetType DEF BackfillBuilds, Numbered
<1>11. CASE BackfillReconciles(t)
  BY <1>4, <1>11 DEF BackfillReconciles, Numbered
<1>12. QED
  BY <1>1, <1>2, <1>3, <1>5, <1>6, <1>7, <1>9, <1>10, <1>11 DEF UserStep

LEMMA TypeStep == TypeInv /\ [Next]_vars => TypeInv'
<1> SUFFICES ASSUME TypeInv, [Next]_vars PROVE TypeInv'
  OBVIOUS
<1>1. CASE UNCHANGED vars
  BY <1>1 DEF vars, taskVars, sideVars, TypeInv, WorkflowTypeOK, Numbered
<1>2. CASE BackfillSelects
  BY <1>2 DEF BackfillSelects, Missing, taskVars, TypeInv, WorkflowTypeOK, Numbered
<1>3. CASE Crash
  BY <1>3, BudgetType
  DEF Crash, Idle, Places, taskVars, TypeInv, WorkflowTypeOK, Numbered
<1>4. QED
  BY <1>1, <1>2, <1>3, EngineTypes, AttemptTypes, WorkflowTypes, UserTypes DEF Next

\* Every variable keeps its type; in particular retries never exceed their limit
\* and no record holds a status that is not one (task.status, quality_records).
THEOREM WorkflowTypeCorrect == Spec => []WorkflowTypeOK
<1>1. TypeInv => WorkflowTypeOK
  BY DEF TypeInv
<1>2. QED
  BY TypeInit, TypeStep, <1>1, PTL DEF Spec

-----------------------------------------------------------------------------
(* Records belong to the newest attempt.                                   *)

\* Only two things could break it: a new attempt behind a record, and a record
\* made for another attempt.  No other step changes a number or a source.
LEMMA PinStep == TypeInv /\ RecordPinsAttempt /\ [Next]_vars => RecordPinsAttempt'
<1> SUFFICES ASSUME TypeInv, RecordPinsAttempt, [Next]_vars PROVE RecordPinsAttempt'
  OBVIOUS
<1> USE DEF taskVars, sideVars
<1>1. attempt \in [Tasks -> AttemptRows]
  BY DEF TypeInv, WorkflowTypeOK
<1>2. record \in [Tasks -> {NoRecord} \cup [attempt : 0 .. MaxAttempts, final : Statuses]]
  BY DEF TypeInv, WorkflowTypeOK
\* The numbers of the attempts and the sources of the records stay.
<1>3. ASSUME \A u \in Tasks : attempt'[u].n = attempt[u].n,
             \A u \in Tasks : record'[u] # NoRecord =>
               \/ record[u] # NoRecord /\ record'[u].attempt = record[u].attempt
               \/ record'[u].attempt = attempt[u].n
      PROVE  RecordPinsAttempt'
  BY <1>3 DEF RecordPinsAttempt, Archived
<1>4. ASSUME UNCHANGED attempt PROVE \A u \in Tasks : attempt'[u].n = attempt[u].n
  BY <1>4
<1>5. ASSUME NEW t \in Tasks, NEW f,
             attempt' = [attempt EXCEPT ![t].flow = f]
      PROVE  \A u \in Tasks : attempt'[u].n = attempt[u].n
  BY <1>1, <1>5 DEF AttemptRows
<1>6. ASSUME NEW t \in Tasks, LostAndSettled(t)
      PROVE  \A u \in Tasks : attempt'[u].n = attempt[u].n
  BY <1>1, <1>6 DEF LostAndSettled, AttemptRows
<1>7. ASSUME UNCHANGED record, \A u \in Tasks : attempt'[u].n = attempt[u].n
      PROVE  RecordPinsAttempt'
  BY <1>3, <1>7
<1>8. ASSUME NEW t \in Tasks, NEW st, Archive(t, st) PROVE RecordPinsAttempt'
  <2>1. \A u \in Tasks : attempt'[u].n = attempt[u].n
    BY <1>5, <1>8 DEF Archive
  <2>2. \A u \in Tasks : record'[u] = record[u] \/ record'[u].attempt = attempt[u].n
    BY <1>2, <1>8 DEF Archive
  <2>3. QED
    BY <1>3, <2>1, <2>2
<1>9. ASSUME NEW t \in Tasks, NEW s, Archived(t), UNCHANGED attempt,
             record' = [record EXCEPT ![t].final = s]
      PROVE  RecordPinsAttempt'
  <2>1. record[t] \in [attempt : 0 .. MaxAttempts, final : Statuses]
    BY <1>2, <1>9 DEF Archived
  <2>2. \A u \in Tasks : record'[u] = record[u] \/ (u = t /\ record'[u].attempt = record[u].attempt)
    BY <1>2, <1>9, <2>1
  <2>3. QED
    BY <1>3, <1>9, <2>2 DEF Archived
<1>10. ASSUME NEW t \in Tasks, Recorded(t), UNCHANGED attempt PROVE RecordPinsAttempt'
  <2>1. \A u \in Tasks : record'[u] = record[u] \/ record'[u].attempt = attempt[u].n
    BY <1>2, <1>10 DEF Recorded
  <2>2. QED
    BY <1>3, <1>10, <2>1
<1>11. ASSUME NEW e \in Engines, NEW t \in Tasks, Launch(e, t) PROVE RecordPinsAttempt'
  <2>1. CASE CreateAttempt(e, t)
    <3>1. \A u \in Tasks \ {t} : attempt'[u] = attempt[u]
      BY <1>1, <2>1 DEF CreateAttempt
    <3>2. UNCHANGED record /\ record[t] = NoRecord
      BY <2>1 DEF CreateAttempt, Archived
    <3>3. QED
      BY <3>1, <3>2 DEF RecordPinsAttempt, Archived
  <2>2. CASE RestoreArchived(e, t) \/ NoCapacity(e, t) \/ LaunchFails(e, t)
    BY <1>7, <2>2 DEF RestoreArchived, NoCapacity, LaunchFails
  <2>3. QED
    BY <1>11, <2>1, <2>2 DEF Launch
<1>12. ASSUME NEW e \in Engines, NEW t \in Tasks, EngineStep(e, t) PROVE RecordPinsAttempt'
  <2>1. CASE TakeDirect(e, t) \/ Spawn(e, t)
    BY <1>11, <2>1 DEF TakeDirect, Spawn
  <2>2. CASE StartFails(e, t)
    BY <1>4, <1>6, <1>7, <2>2 DEF StartFails
  <2>3. CASE UNCHANGED <<attempt, record>>
    BY <1>7, <2>3
  <2>4. QED
    BY <1>12, <2>1, <2>2, <2>3
    DEF EngineStep, TakeOrchestrated, TemplateMissing, Decompose, SelectTemplate, DecisionFails,
        Requeue, Started, FailTask, RollUpAfter, Reap
<1>13. ASSUME NEW t \in Tasks, AttemptEnds(t) PROVE RecordPinsAttempt'
  <2>1. CASE Lose(t)
    BY <1>6, <1>7, <2>1 DEF Lose
  <2>2. ASSUME NEW outcome \in Ended, AttemptReports(t, outcome) PROVE RecordPinsAttempt'
    <3>1. \A u \in Tasks : attempt'[u].n = attempt[u].n
      BY <1>1, <2>2 DEF AttemptReports, AttemptRows
    <3>2. QED
      BY <1>7, <2>2, <3>1 DEF AttemptReports
  <2>3. QED
    BY <1>13, <2>1, <2>2 DEF AttemptEnds
<1>14. ASSUME NEW t \in Tasks, NEW valid \in BOOLEAN, Settle(t, valid) PROVE RecordPinsAttempt'
  BY <1>5, <1>7, <1>14 DEF Settle
<1>15. ASSUME NEW t \in Tasks, WorkflowStep(t) PROVE RecordPinsAttempt'
  <2>1. CASE RetryFailed(t)
    BY <1>5, <1>7, <2>1 DEF RetryFailed, Retried
  <2>2. CASE ClaimReview(t)
    BY <1>5, <1>7, <2>2 DEF ClaimReview
  <2>3. CASE RecoverReview(t) \/ ArchiveNow(t)
    BY <1>8, <2>3 DEF RecoverReview, ArchiveNow
  <2>4. ASSUME NEW n \in Numbers, NEW verdict \in Verdicts, ReviewAnswers(t, n, verdict)
        PROVE  RecordPinsAttempt'
    BY <1>5, <1>7, <2>4 DEF ReviewAnswers, Reviewed, Retried
  <2>5. ASSUME NEW n \in Numbers, ReviewSuperseded(t, n) PROVE RecordPinsAttempt'
    BY <1>4, <1>5, <1>7, <2>5 DEF ReviewSuperseded
  <2>6. ASSUME NEW n \in Numbers, FinishReview(t, n) PROVE RecordPinsAttempt'
    BY <1>4, <1>7, <1>8, <2>6 DEF FinishReview
  <2>7. QED
    BY <1>15, <2>1, <2>2, <2>3, <2>4, <2>5, <2>6 DEF WorkflowStep, ReviewStep
<1>16. ASSUME NEW t \in Tasks, UserStep(t) PROVE RecordPinsAttempt'
  <2>1. CASE RejectTask(t)
    BY <1>4, <1>7, <1>9, <2>1 DEF RejectTask
  <2>2. CASE EvaluateTask(t)
    BY <1>10, <2>2 DEF EvaluateTask
  <2>3. CASE UNCHANGED <<attempt, record>>
    BY <1>7, <2>3
  <2>4. QED
    BY <1>16, <2>1, <2>2, <2>3
    DEF UserStep, StartTask, PatchStatus, PatchMode, ApproveReads, ApproveWrites
<1>17. ASSUME NEW t \in Tasks, BackfillBuilds(t) \/ BackfillReconciles(t)
       PROVE  RecordPinsAttempt'
  BY <1>4, <1>7, <1>9, <1>10, <1>17 DEF BackfillBuilds, BackfillReconciles
<1>18. CASE UNCHANGED <<attempt, record>>
  BY <1>7, <1>18
<1>19. QED
  BY <1>12, <1>13, <1>14, <1>15, <1>16, <1>17, <1>18
  DEF Next, TimesOut, BackfillSelects, Crash, vars

\* A record always describes the newest attempt: nothing is executed behind an
\* archived result and no result is archived under another attempt
\* (_spawn_sdk_task, launch_attempt, build_quality_record).
THEOREM RecordPinned == Spec => []RecordPinsAttempt
<1>1. Init => RecordPinsAttempt
  BY DEF Init, RecordPinsAttempt, Archived
<1>2. QED
  BY TypeInit, TypeStep, <1>1, PinStep, PTL DEF Spec

-----------------------------------------------------------------------------
(* An attempt is reviewed once.                                            *)

Early == {"none", "pending"} \* stages before the review is claimed

\* The model is paid when an attempt leaves the early stages, to which it never
\* returns; a running attempt has not settled; a reviewer's answer that may still
\* be applied belongs to an attempt past the early stages, or to an older one.
ReviewInv ==
  /\ \A t \in Tasks :
       /\ history[t].paid \in {0, 1}
       /\ attempt[t].flow \in Early => history[t].paid = 0
       /\ Running(t) => attempt[t].flow = "none"
  /\ \A t \in Tasks, n \in Numbers :
       <<t, n>> \in reviews \cup archiving =>
         /\ n <= attempt[t].n
         /\ n = attempt[t].n => attempt[t].flow \notin Early

LEMMA ReviewStepKept == TypeInv /\ ReviewInv /\ [Next]_vars => ReviewInv'
<1> SUFFICES ASSUME TypeInv, ReviewInv, [Next]_vars PROVE ReviewInv'
  OBVIOUS
<1> USE DEF taskVars, sideVars
<1>1. /\ attempt \in [Tasks -> AttemptRows]
      /\ history \in [Tasks -> Histories]
      /\ reviews \cup archiving \subseteq Tasks \X Numbers
  BY DEF TypeInv, WorkflowTypeOK
\* Neither attempts nor payments change, and no reviewer is added.
<1>2. ASSUME UNCHANGED attempt, \A t \in Tasks : history'[t].paid = history[t].paid,
             reviews' \cup archiving' \subseteq reviews \cup archiving
      PROVE  ReviewInv'
  BY <1>2 DEF ReviewInv, Running
<1>3. ASSUME UNCHANGED <<attempt, history, reviews, archiving>> PROVE ReviewInv'
  BY <1>2, <1>3
<1>4. ASSUME UNCHANGED <<attempt, reviews, archiving>>, NEW t \in Tasks,
             AskAgain(t) \/ UNCHANGED history
      PROVE  ReviewInv'
  <2>1. \A u \in Tasks : history'[u].paid = history[u].paid
    BY <1>1, <1>4 DEF AskAgain, Histories
  <2>2. QED
    BY <1>2, <1>4, <2>1
\* An attempt that does not run moves to a stage past the early ones.
<1>5. ASSUME NEW t \in Tasks, NEW f, f \notin Early, ~Running(t),
             attempt' = [attempt EXCEPT ![t].flow = f], UNCHANGED history,
             reviews' \cup archiving' \subseteq reviews \cup archiving \cup {Current(t)}
      PROVE  ReviewInv'
  <2>1. /\ \A u \in Tasks : attempt'[u].n = attempt[u].n /\ attempt'[u].state = attempt[u].state
        /\ \A u \in Tasks \ {t} : attempt'[u] = attempt[u]
        /\ attempt'[t].flow = f
    BY <1>1, <1>5 DEF AttemptRows
  <2>2. attempt[t].n \in Int
    BY <1>1 DEF AttemptRows
  <2>3. ASSUME NEW u \in Tasks, NEW n \in Numbers, <<u, n>> \in reviews' \cup archiving'
        PROVE  n <= attempt'[u].n /\ (n = attempt'[u].n => attempt'[u].flow \notin Early)
    BY <1>5, <2>1, <2>2, <2>3 DEF ReviewInv, Current
  <2>4. QED
    BY <1>5, <2>1, <2>3 DEF ReviewInv, Running
<1>6. ASSUME NEW t \in Tasks, NEW st, Archive(t, st), ~Running(t), UNCHANGED history,
             reviews' \cup archiving' \subseteq reviews \cup archiving
      PROVE  ReviewInv'
  BY <1>5, <1>6 DEF Archive, Early
\* A running attempt ends, settled at once or not.
<1>7. ASSUME NEW t \in Tasks, Running(t), UNCHANGED <<history, reviews, archiving>>,
             \/ LostAndSettled(t)
             \/ \E outcome \in Ended : attempt' = [attempt EXCEPT ![t].state = outcome]
      PROVE  ReviewInv'
  <2>1. attempt[t].flow = "none"
    BY <1>7 DEF ReviewInv
  <2>2. /\ \A u \in Tasks : attempt'[u].n = attempt[u].n
        /\ \A u \in Tasks \ {t} : attempt'[u] = attempt[u]
        /\ attempt'[t].state \in Ended /\ attempt'[t].flow \in Early
    BY <1>1, <1>7, <2>1 DEF LostAndSettled, AttemptRows, Ended, Early
  <2>3. ~Running(t)'
    BY <2>2 DEF Running, Ended
  <2>4. QED
    BY <1>7, <2>1, <2>2, <2>3 DEF ReviewInv, Running, Early
<1>8. ASSUME NEW e \in Engines, NEW t \in Tasks, Launch(e, t) PROVE ReviewInv'
  <2>1. CASE CreateAttempt(e, t)
    <3>1. /\ \A u \in Tasks \ {t} : attempt'[u] = attempt[u] /\ history'[u] = history[u]
          /\ attempt'[t].n = attempt[t].n + 1
          /\ attempt'[t].flow = "none" /\ history'[t].paid = 0
      BY <1>1, <2>1 DEF CreateAttempt, NewAttempt, AttemptRows, Histories
    <3>2. attempt[t].n \in Int /\ Numbers \subseteq Int
      BY <1>1 DEF AttemptRows, Numbers
    <3>3. UNCHANGED <<reviews, archiving>>
      BY <2>1 DEF CreateAttempt
    <3>4. ASSUME NEW n \in Numbers, <<t, n>> \in reviews \cup archiving
          PROVE  n <= attempt[t].n
      BY <3>4 DEF ReviewInv
    <3>5. ASSUME NEW n \in Numbers, <<t, n>> \in reviews \cup archiving
          PROVE  n <= attempt'[t].n /\ n # attempt'[t].n
      BY <3>1, <3>2, <3>4, <3>5
    <3>6. QED
      BY <3>1, <3>3, <3>5 DEF ReviewInv, Running, Early
  <2>2. CASE RestoreArchived(e, t) \/ NoCapacity(e, t) \/ LaunchFails(e, t)
    BY <1>3, <2>2 DEF RestoreArchived, NoCapacity, LaunchFails
  <2>3. QED
    BY <1>8, <2>1, <2>2 DEF Launch
<1>9. ASSUME NEW e \in Engines, NEW t \in Tasks, EngineStep(e, t) PROVE ReviewInv'
  <2>1. CASE TakeDirect(e, t) \/ Spawn(e, t)
    BY <1>8, <2>1 DEF TakeDirect, Spawn
  <2>2. CASE StartFails(e, t)
    BY <1>3, <1>7, <2>2 DEF StartFails
  <2>3. CASE UNCHANGED <<attempt, history, reviews, archiving>>
    BY <1>3, <2>3
  <2>4. QED
    BY <1>9, <2>1, <2>2, <2>3
    DEF EngineStep, TakeOrchestrated, TemplateMissing, Decompose, SelectTemplate, DecisionFails,
        Requeue, Started, FailTask, RollUpAfter, Reap
<1>10. ASSUME NEW t \in Tasks, AttemptEnds(t) PROVE ReviewInv'
  BY <1>7, <1>10 DEF AttemptEnds, Lose, AttemptReports
<1>11. ASSUME NEW t \in Tasks, NEW valid \in BOOLEAN, Settle(t, valid) PROVE ReviewInv'
  <2>1. attempt[t].flow = "none" /\ attempt[t].state # "active"
    BY <1>11 DEF Settle, Unprojected, Ended
  <2>2. /\ \A u \in Tasks : attempt'[u].n = attempt[u].n /\ attempt'[u].state = attempt[u].state
        /\ \A u \in Tasks \ {t} : attempt'[u] = attempt[u]
        /\ attempt'[t].flow = "pending"
    BY <1>1, <1>11 DEF Settle, AttemptRows
  <2>3. QED
    BY <1>11, <2>1, <2>2 DEF Settle, ReviewInv, Running, Early
<1>12. ASSUME NEW t \in Tasks, WorkflowStep(t) PROVE ReviewInv'
  <2>1. ASSUME attempt[t].flow # "none" PROVE ~Running(t)
    BY <2>1 DEF ReviewInv
  <2>2. CASE RetryFailed(t)
    <3>1. ~Running(t) /\ attempt' = [attempt EXCEPT ![t].flow = "retry"]
      BY <2>1, <2>2 DEF RetryFailed, Retried
    <3>2. UNCHANGED <<history, reviews, archiving>> /\ "retry" \notin Early
      BY <2>2 DEF RetryFailed, Early
    <3>3. QED
      BY <1>5, <3>1, <3>2
  <2>3. CASE ClaimReview(t)
    <3>1. attempt[t].flow = "pending" /\ history[t].paid = 0 /\ ~Running(t)
      BY <2>1, <2>3 DEF ClaimReview, ReviewInv, Early
    <3>2. /\ \A u \in Tasks : attempt'[u].n = attempt[u].n /\ attempt'[u].state = attempt[u].state
          /\ \A u \in Tasks \ {t} : attempt'[u] = attempt[u]
          /\ attempt'[t].flow = "review_running"
          /\ \A u \in Tasks \ {t} : history'[u] = history[u]
          /\ history'[t].paid = 1
      <4>1. attempt' = [attempt EXCEPT ![t].flow = "review_running"]
        BY <2>3 DEF ClaimReview
      <4>2. history' = [history EXCEPT ![t].paid = @ + 1]
        BY <2>3 DEF ClaimReview
      <4>3. QED
        BY <1>1, <3>1, <4>1, <4>2 DEF AttemptRows, Histories
    <3>3. attempt[t].n \in Int
      BY <1>1 DEF AttemptRows
    <3>4. ASSUME NEW u \in Tasks, NEW n \in Numbers, <<u, n>> \in reviews' \cup archiving'
          PROVE  n <= attempt'[u].n /\ (n = attempt'[u].n => attempt'[u].flow \notin Early)
      BY <2>3, <3>2, <3>3, <3>4 DEF ClaimReview, ReviewInv, Current, Early
    <3>5. QED
      BY <3>1, <3>2, <3>4 DEF ReviewInv, Running, Early
  <2>4. CASE RecoverReview(t)
    BY <1>6, <2>1, <2>4 DEF RecoverReview
  <2>5. CASE ArchiveNow(t)
    BY <1>6, <2>1, <2>5 DEF ArchiveNow
  <2>6. ASSUME NEW n \in Numbers, <<t, n>> \in reviews \cup archiving, Current(t) = <<t, n>>
        PROVE  ~Running(t)
    BY <2>1, <2>6 DEF ReviewInv, Current, Early
  <2>7. ASSUME NEW n \in Numbers, NEW verdict \in Verdicts, ReviewAnswers(t, n, verdict)
        PROVE  ReviewInv'
    <3>1. ~Running(t)
      BY <2>6, <2>7 DEF ReviewAnswers
    <3>2. PICK f \in {"reviewed", "retry"} : attempt' = [attempt EXCEPT ![t].flow = f]
      BY <2>7 DEF ReviewAnswers, Reviewed, Retried
    <3>3. /\ reviews' \cup archiving' \subseteq reviews \cup archiving \cup {Current(t)}
          /\ UNCHANGED history
      BY <2>7 DEF ReviewAnswers, Reviewed
    <3>4. QED
      BY <1>5, <3>1, <3>2, <3>3 DEF Early
  <2>8. ASSUME NEW n \in Numbers, ReviewSuperseded(t, n) PROVE ReviewInv'
    <3>1. reviews' \cup archiving' \subseteq reviews \cup archiving /\ UNCHANGED history
      BY <2>8 DEF ReviewSuperseded
    <3>2. CASE UNCHANGED attempt
      BY <1>2, <3>1, <3>2
    <3>3. CASE Current(t) = <<t, n>> /\ attempt' = [attempt EXCEPT ![t].flow = "superseded"]
      <4>1. ~Running(t)
        BY <2>6, <2>8, <3>3 DEF ReviewSuperseded
      <4>2. "superseded" \notin Early
        BY DEF Early
      <4>3. QED
        BY <1>5, <3>1, <3>3, <4>1, <4>2
    <3>4. QED
      BY <2>8, <3>2, <3>3 DEF ReviewSuperseded
  <2>9. ASSUME NEW n \in Numbers, FinishReview(t, n) PROVE ReviewInv'
    <3>1. reviews' \cup archiving' \subseteq reviews \cup archiving /\ UNCHANGED history
      BY <2>9 DEF FinishReview
    <3>2. CASE Current(t) = <<t, n>> /\ Archive(t, status)
      <4>1. ~Running(t)
        BY <2>6, <2>9, <3>2 DEF FinishReview
      <4>2. QED
        BY <1>6, <3>1, <3>2, <4>1
    <3>3. CASE UNCHANGED attempt
      BY <1>2, <3>1, <3>3
    <3>4. QED
      BY <2>9, <3>2, <3>3 DEF FinishReview
  <2>10. QED
    BY <1>12, <2>2, <2>3, <2>4, <2>5, <2>7, <2>8, <2>9 DEF WorkflowStep, ReviewStep
<1>13. ASSUME NEW t \in Tasks, UserStep(t) PROVE ReviewInv'
  <2>1. CASE ApproveWrites(t)
    <3>1. \A u \in Tasks : history'[u].paid = history[u].paid
      BY <1>1, <2>1 DEF ApproveWrites, Histories
    <3>2. QED
      BY <1>2, <2>1, <3>1 DEF ApproveWrites
  <2>2. CASE /\ UNCHANGED <<attempt, reviews, archiving>>
             /\ AskAgain(t) \/ UNCHANGED history
    BY <1>4, <2>2
  <2>3. QED
    BY <1>13, <2>1, <2>2
    DEF UserStep, StartTask, PatchStatus, PatchMode, RejectTask, ApproveReads, EvaluateTask
<1>14. ASSUME NEW t \in Tasks, BackfillBuilds(t) \/ BackfillReconciles(t) PROVE ReviewInv'
  BY <1>3, <1>14 DEF BackfillBuilds, BackfillReconciles
<1>15. CASE Crash
  BY <1>2, <1>15 DEF Crash
<1>16. CASE UNCHANGED <<attempt, history, reviews, archiving>>
  BY <1>3, <1>16
<1>17. QED
  BY <1>9, <1>10, <1>11, <1>12, <1>13, <1>14, <1>15, <1>16
  DEF Next, TimesOut, BackfillSelects, vars

\* The reviewing model is called at most once for an attempt, whatever crashes,
\* rollbacks, restarts and further processes do (continue_workflow).
THEOREM PaidOnce == Spec => []ReviewPaidOnce
<1>1. Init => ReviewInv
  BY DEF Init, ReviewInv, Running, NoAttempt
<1>2. ReviewInv => ReviewPaidOnce
  BY DEF ReviewInv, ReviewPaidOnce
<1>3. QED
  BY TypeInit, TypeStep, <1>1, <1>2, ReviewStepKept, PTL DEF Spec


-----------------------------------------------------------------------------
(* Rows that were worked on exist.                                         *)

\* The root, and every task that was launched, archived or selected, has a row.
RowsExist ==
  /\ status[Root] # "absent"
  /\ \A t \in Tasks : attempt[t].n # 0 \/ Archived(t) \/ t \in selected => status[t] # "absent"
  /\ \A t \in Tasks : Archived(t) => record[t].final # "absent"

\* A status once shown is never taken back, and rolling up shows an outcome.
LEMMA RolledUpShows ==
  ASSUME NEW st \in [Tasks -> Statuses], NEW t \in Tasks, NEW u \in Tasks
  PROVE  \/ RolledUp(st, t)[u] = st[u]
         \/ RolledUp(st, t)[u] \in Finished /\ u = tree[t].parent
BY DEF RolledUp, Finished

\* Every action keeps the rows of tasks that were worked on.
LEMMA ExistStep == TypeInv /\ RowsExist /\ [Next]_vars => RowsExist'
<1> SUFFICES ASSUME TypeInv, RowsExist, [Next]_vars PROVE RowsExist'
  OBVIOUS
<1> USE DEF taskVars, sideVars
<1>1. /\ attempt \in [Tasks -> AttemptRows]
      /\ status \in [Tasks -> Statuses]
      /\ record \in [Tasks -> {NoRecord} \cup [attempt : 0 .. MaxAttempts, final : Statuses]]
      /\ Root \in Tasks /\ selected \subseteq Tasks
  BY TaskAssumption DEF TypeInv, WorkflowTypeOK
\* Statuses stay or are not absent, only existing tasks get attempts and records.
<1>2. ASSUME \A u \in Tasks : status[u] # "absent" => status'[u] # "absent",
             \A u \in Tasks : attempt'[u].n # attempt[u].n => status'[u] # "absent",
             \A u \in Tasks : record'[u] # record[u] /\ Archived(u)' =>
               status'[u] # "absent" /\ record'[u].final # "absent",
             \A u \in selected' \ selected : status'[u] # "absent"
      PROVE  RowsExist'
  BY <1>1, <1>2 DEF RowsExist, Archived
<1>3. ASSUME NEW t \in Tasks, NEW s, s # "absent", Show(t, s)
      PROVE  \A u \in Tasks : status[u] # "absent" => status'[u] # "absent"
  BY <1>1, <1>3 DEF Show
<1>4. ASSUME \A u \in Tasks : status[u] # "absent" => status'[u] # "absent",
             UNCHANGED <<record, selected>>,
             \A u \in Tasks : attempt'[u].n = attempt[u].n
      PROVE  RowsExist'
  BY <1>2, <1>4
<1>5. ASSUME NEW t \in Tasks, NEW f, attempt' = [attempt EXCEPT ![t].flow = f]
      PROVE  \A u \in Tasks : attempt'[u].n = attempt[u].n
  BY <1>1, <1>5 DEF AttemptRows
<1>6. ASSUME NEW t \in Tasks, LostAndSettled(t)
      PROVE  \A u \in Tasks : attempt'[u].n = attempt[u].n
  BY <1>1, <1>6 DEF LostAndSettled, AttemptRows
<1>8. ASSUME NEW t \in Tasks, NEW st \in [Tasks -> Statuses], Archive(t, st), UNCHANGED selected,
             status[t] # "absent", st[t] # "absent", \A u \in Tasks \ {t} : st[u] = status[u]
      PROVE  RowsExist'
  <2>1. \A u \in Tasks : attempt'[u].n = attempt[u].n
    BY <1>5, <1>8 DEF Archive
  <2>2. \A u \in Tasks : status[u] # "absent" => status'[u] # "absent"
    <3>1. CASE status' = RolledUp(st, t)
      BY <1>8, <3>1, RolledUpShows DEF Finished
    <3>2. CASE UNCHANGED status
      BY <3>2
    <3>3. QED
      BY <1>8, <3>1, <3>2 DEF Archive
  <2>3. \A u \in Tasks : record'[u] # record[u] => u = t /\ record'[u].final = st[t]
    BY <1>1, <1>8 DEF Archive
  <2>4. QED
    BY <1>2, <1>8, <2>1, <2>2, <2>3
<1>9. ASSUME NEW t \in Tasks, NEW s, s # "absent", status[t] # "absent",
             \A u \in Tasks : status[u] # "absent" => status'[u] # "absent",
             UNCHANGED <<attempt, selected>>,
             record' = [record EXCEPT ![t].final = s], Archived(t)
      PROVE  RowsExist'
  <2>1. record[t] \in [attempt : 0 .. MaxAttempts, final : Statuses]
    BY <1>1, <1>9 DEF Archived
  <2>2. \A u \in Tasks : record'[u] = record[u] \/ (u = t /\ record'[u].final = s)
    BY <1>1, <1>9, <2>1
  <2>3. QED
    BY <1>2, <1>9, <2>2
<1>10. ASSUME NEW t \in Tasks, Recorded(t), UNCHANGED <<attempt, status>>,
              status[t] # "absent", selected' \subseteq selected
       PROVE  RowsExist'
  <2>1. \A u \in Tasks : record'[u] = record[u] \/ (u = t /\ record'[u].final = status[t])
    BY <1>1, <1>10 DEF Recorded
  <2>2. QED
    BY <1>2, <1>10, <2>1
<1>11. ASSUME NEW e \in Engines, NEW t \in Tasks, Launch(e, t) PROVE RowsExist'
  <2>1. CASE RestoreArchived(e, t)
    <3>1. record[t].final # "absent"
      BY <2>1 DEF RestoreArchived, RowsExist
    <3>2. QED
      BY <1>3, <1>4, <2>1, <3>1 DEF RestoreArchived
  <2>2. CASE CreateAttempt(e, t)
    <3>1. /\ \A u \in Tasks \ {t} : attempt'[u] = attempt[u]
          /\ status'[t] = "in_progress"
      BY <1>1, <2>2 DEF CreateAttempt, Show
    <3>2. \A u \in Tasks : status[u] # "absent" => status'[u] # "absent"
      BY <1>3, <2>2 DEF CreateAttempt
    <3>3. QED
      BY <1>2, <2>2, <3>1, <3>2 DEF CreateAttempt
  <2>3. CASE NoCapacity(e, t) \/ LaunchFails(e, t)
    BY <1>4, <2>3 DEF NoCapacity, LaunchFails
  <2>4. QED
    BY <1>11, <2>1, <2>2, <2>3 DEF Launch
<1>12. ASSUME NEW e \in Engines, NEW t \in Tasks, EngineStep(e, t) PROVE RowsExist'
  <2>1. CASE TakeDirect(e, t) \/ Spawn(e, t)
    BY <1>11, <2>1 DEF TakeDirect, Spawn
  <2>2. CASE StartFails(e, t)
    <3>1. CASE LostAndSettled(t)
      BY <1>3, <1>4, <1>6, <2>2, <3>1 DEF StartFails, LostAndSettled
    <3>2. CASE UNCHANGED <<status, attempt>>
      BY <1>4, <2>2, <3>2 DEF StartFails
    <3>3. QED
      BY <2>2, <3>1, <3>2 DEF StartFails
  <2>3. CASE Decompose(e, t)
    <3>1. \A u \in Tasks : status'[u] \in {"ready", "in_progress", status[u]}
      BY <2>3 DEF Decompose
    <3>2. QED
      BY <1>4, <2>3, <3>1 DEF Decompose
  <2>4. CASE RollUpAfter(e, t)
    <3>1. \A u \in Tasks : status[u] # "absent" => status'[u] # "absent"
      BY <1>1, <2>4, RolledUpShows DEF RollUpAfter, Finished
    <3>2. QED
      BY <1>4, <2>4, <3>1 DEF RollUpAfter
  <2>5. CASE \/ TakeOrchestrated(e, t) \/ TemplateMissing(e, t) \/ SelectTemplate(e, t)
             \/ DecisionFails(e, t) \/ Requeue(e, t) \/ Started(e, t) \/ FailTask(e, t)
             \/ Reap(e, t)
    BY <1>3, <1>4, <2>5
    DEF TakeOrchestrated, TemplateMissing, SelectTemplate, DecisionFails, Requeue, Started,
        FailTask, Reap
  <2>6. QED
    BY <1>12, <2>1, <2>2, <2>3, <2>4, <2>5 DEF EngineStep
<1>13. ASSUME NEW t \in Tasks, AttemptEnds(t) PROVE RowsExist'
  <2>1. CASE Lose(t)
    BY <1>3, <1>4, <1>6, <2>1 DEF Lose, LostAndSettled
  <2>2. ASSUME NEW outcome \in Ended, AttemptReports(t, outcome) PROVE RowsExist'
    <3>1. \A u \in Tasks : attempt'[u].n = attempt[u].n
      BY <1>1, <2>2 DEF AttemptReports, AttemptRows
    <3>2. QED
      BY <1>4, <2>2, <3>1 DEF AttemptReports
  <2>3. QED
    BY <1>13, <2>1, <2>2 DEF AttemptEnds
<1>14. ASSUME NEW t \in Tasks, NEW valid \in BOOLEAN, Settle(t, valid) PROVE RowsExist'
  BY <1>3, <1>4, <1>5, <1>14 DEF Settle
<1>15. ASSUME NEW t \in Tasks, attempt[t].flow # "none" \/ attempt[t].state # "none"
       PROVE  status[t] # "absent"
  <2>1. attempt[t].n # 0
    BY <1>15, AttemptNumber DEF Numbers
  <2>2. QED
    BY <2>1 DEF RowsExist
<1>16. ASSUME NEW t \in Tasks, WorkflowStep(t) PROVE RowsExist'
  <2>1. CASE RetryFailed(t)
    BY <1>3, <1>4, <1>5, <2>1 DEF RetryFailed, Retried
  <2>2. CASE ClaimReview(t)
    BY <1>3, <1>4, <1>5, <2>2 DEF ClaimReview
  <2>3. CASE RecoverReview(t)
    <3> DEFINE st == [status EXCEPT ![t] = IF @ = "review" THEN "awaiting_approval" ELSE @]
    <3>1. status[t] # "absent" /\ UNCHANGED selected /\ Archive(t, st)
      BY <1>15, <2>3 DEF RecoverReview
    <3>2. /\ st \in [Tasks -> Statuses] /\ st[t] # "absent"
          /\ \A u \in Tasks \ {t} : st[u] = status[u]
      BY <1>1, <3>1 DEF Statuses
    <3> HIDE DEF st
    <3>3. QED
      BY <1>8, <3>1, <3>2
  <2>4. CASE ArchiveNow(t)
    <3>1. status[t] # "absent"
      BY <1>15, <2>4 DEF ArchiveNow
    <3>2. QED
      BY <1>1, <1>8, <2>4, <3>1 DEF ArchiveNow
  <2>5. ASSUME NEW n \in Numbers, NEW verdict \in Verdicts, ReviewAnswers(t, n, verdict)
        PROVE  RowsExist'
    BY <1>3, <1>4, <1>5, <2>5 DEF ReviewAnswers, Reviewed, Retried
  <2>6. ASSUME NEW n \in Numbers, ReviewSuperseded(t, n) PROVE RowsExist'
    BY <1>4, <1>5, <2>6 DEF ReviewSuperseded
  <2>7. ASSUME NEW n \in Numbers, FinishReview(t, n) PROVE RowsExist'
    <3>1. CASE Current(t) = <<t, n>> /\ Archive(t, status)
      <4>1. attempt[t].n # 0
        BY <3>1, TaskAssumption DEF Current, Numbers
      <4>2. status[t] # "absent"
        BY <4>1 DEF RowsExist
      <4>3. QED
        BY <1>1, <1>8, <2>7, <3>1, <4>2 DEF FinishReview
    <3>2. CASE UNCHANGED <<status, attempt, record>>
      BY <1>4, <2>7, <3>2 DEF FinishReview
    <3>3. QED
      BY <2>7, <3>1, <3>2 DEF FinishReview
  <2>8. QED
    BY <1>16, <2>1, <2>2, <2>3, <2>4, <2>5, <2>6, <2>7 DEF WorkflowStep, ReviewStep
<1>17. ASSUME NEW t \in Tasks, UserStep(t) PROVE RowsExist'
  <2>1. CASE RejectTask(t)
    <3>1. CASE Show(t, "failed") /\ record' = [record EXCEPT ![t].final = "failed"] /\ Archived(t)
      BY <1>3, <1>9, <2>1, <3>1 DEF RejectTask
    <3>2. CASE Show(t, "ready") /\ UNCHANGED record
      BY <1>3, <1>4, <2>1, <3>2 DEF RejectTask
    <3>3. QED
      BY <2>1, <3>1, <3>2 DEF RejectTask
  <2>2. CASE EvaluateTask(t)
    BY <1>10, <2>2 DEF EvaluateTask, Exists
  <2>3. ASSUME NEW s \in PatchStatuses, PatchStatus(t, s) PROVE RowsExist'
    <3>1. s # "absent"
      BY TaskAssumption
    <3>2. QED
      BY <1>3, <1>4, <2>3, <3>1 DEF PatchStatus
  <2>4. CASE StartTask(t) \/ (\E m \in Modes : PatchMode(t, m)) \/ ApproveReads(t) \/ ApproveWrites(t)
    BY <1>3, <1>4, <2>4 DEF StartTask, PatchMode, ApproveReads, ApproveWrites
  <2>5. QED
    BY <1>17, <2>1, <2>2, <2>3, <2>4 DEF UserStep
<1>18. ASSUME NEW t \in Tasks, BackfillBuilds(t) PROVE RowsExist'
  <2>1. CASE Recorded(t)
    <3>1. status[t] # "absent"
      BY <1>18 DEF BackfillBuilds, RowsExist
    <3>2. QED
      BY <1>10, <1>18, <2>1, <3>1 DEF BackfillBuilds
  <2>2. CASE UNCHANGED record
    BY <1>2, <1>18, <2>2 DEF BackfillBuilds
  <2>3. QED
    BY <1>18, <2>1, <2>2 DEF BackfillBuilds
<1>19. ASSUME NEW t \in Tasks, BackfillReconciles(t) PROVE RowsExist'
  BY <1>9, <1>19 DEF BackfillReconciles, Finished
<1>20. CASE BackfillSelects
  BY <1>2, <1>20 DEF BackfillSelects, Missing, Finished
<1>21. CASE Crash \/ UNCHANGED vars
  BY <1>4, <1>21 DEF Crash, vars
<1>22. ASSUME NEW e \in Engines, NEW t \in Tasks, TimesOut(e, t) PROVE RowsExist'
  BY <1>4, <1>22 DEF TimesOut
<1>23. QED
  BY <1>12, <1>13, <1>14, <1>16, <1>17, <1>18, <1>19, <1>20, <1>21, <1>22 DEF Next

-----------------------------------------------------------------------------
(* Every execution was asked for.                                          *)

\* One process runs the loop.
OneLoop == \A e, f \in Engines : e = f

\* Where an engine may be with a task it has not launched and may still make ready.
Held == {"decide", "spawn", "requeue"}

\* A launch of t would be asked for, or does not happen because it is archived.
Covered(t) == Archived(t) \/ attempt[t].n <= retries[t] + history[t].asked

\* A task is covered as long as somebody may launch it: it is ready, or an engine
\* holds it.  Launching it takes both away.
AskedInv ==
  /\ AttemptsAskedFor
  /\ \A t \in Tasks : status[t] = "ready" => Covered(t)
  /\ \A e \in Engines, t \in Tasks, p \in Held : engine[e] = At(p, t) => Covered(t)

\* One loop launches a task only while its launch is covered.
LEMMA AskedStep ==
  ASSUME OneLoop, TypeInv, RowsExist, AskedInv, [Next]_vars
  PROVE  AskedInv'
<1> USE DEF taskVars, sideVars
<1>1. /\ attempt \in [Tasks -> AttemptRows]
      /\ status \in [Tasks -> Statuses]
      /\ retries \in [Tasks -> Nat]
      /\ history \in [Tasks -> Histories]
      /\ record \in [Tasks -> {NoRecord} \cup [attempt : 0 .. MaxAttempts, final : Statuses]]
      /\ engine \in [Engines -> [pc : Places, task : Tasks \cup {NoTask}]]
      /\ NoTask \notin Tasks
  BY TaskAssumption DEF TypeInv, WorkflowTypeOK
<1>2. \A u \in Tasks : attempt[u].n \in Nat /\ history[u].asked \in Nat /\ retries[u] \in Nat
  BY <1>1 DEF AttemptRows, Histories
\* No attempt is created; what becomes ready or is newly held is covered.
<1> DEFINE Kept == /\ \A u \in Tasks : attempt'[u].n = attempt[u].n /\ retries'[u] \in Nat
                                       /\ history'[u].asked \in Nat
                   /\ \A u \in Tasks : retries'[u] >= retries[u]
                                       /\ history'[u].asked >= history[u].asked
                   /\ \A u \in Tasks : Archived(u) => Archived(u)'
           NewReady == \A u \in Tasks : status'[u] = "ready" => status[u] = "ready" \/ Covered(u)'
           NewHeld == \A e \in Engines, u \in Tasks, p \in Held :
                        engine'[e] = At(p, u) =>
                          (\E q \in Held : engine[e] = At(q, u)) \/ Covered(u)'
<1>3. ASSUME Kept, NewReady, NewHeld PROVE AskedInv'
  <2>1. ASSUME NEW u \in Tasks, Covered(u) PROVE Covered(u)'
    BY <1>2, <1>3, <2>1 DEF Covered
  <2>2. AttemptsAskedFor'
    BY <1>2, <1>3 DEF AskedInv, AttemptsAskedFor
  <2>3. \A u \in Tasks : status'[u] = "ready" => Covered(u)'
    BY <1>3, <2>1 DEF AskedInv
  <2>4. \A e \in Engines, u \in Tasks, p \in Held : engine'[e] = At(p, u) => Covered(u)'
    BY <1>3, <2>1 DEF AskedInv
  <2>5. QED
    BY <2>2, <2>3, <2>4 DEF AskedInv
<1>4. ASSUME \A u \in Tasks : attempt'[u].n = attempt[u].n, UNCHANGED <<retries, record>>,
             UNCHANGED history \/ \E t \in Tasks : AskAgain(t)
      PROVE  Kept
  <2>1. ASSUME NEW t \in Tasks, AskAgain(t), NEW u \in Tasks
        PROVE  history'[u].asked \in Nat /\ history'[u].asked >= history[u].asked
    <3>1. history'[t].asked = history[t].asked + 1
      BY <1>1, <2>1 DEF AskAgain, Histories
    <3>2. u # t => history'[u] = history[u]
      BY <1>1, <2>1 DEF AskAgain
    <3>3. QED
      BY <1>2, <3>1, <3>2
  <2>2. QED
    BY <1>2, <1>4, <2>1 DEF Archived
<1>5. ASSUME UNCHANGED <<attempt, retries, record, history>>
      PROVE  Kept
  BY <1>4, <1>5
<1>6. ASSUME NEW t \in Tasks, NEW s, s # "ready" \/ Covered(t)', Show(t, s)
      PROVE  NewReady
  BY <1>1, <1>6 DEF Show
<1>7. ASSUME NEW t \in Tasks, NEW f, attempt' = [attempt EXCEPT ![t].flow = f]
      PROVE  \A u \in Tasks : attempt'[u].n = attempt[u].n
  BY <1>1, <1>7 DEF AttemptRows
<1>8. ASSUME NEW t \in Tasks, LostAndSettled(t)
      PROVE  (\A u \in Tasks : attempt'[u].n = attempt[u].n) /\ NewReady
  BY <1>1, <1>8 DEF LostAndSettled, AttemptRows, Show
<1>9. ASSUME UNCHANGED status PROVE NewReady
  BY <1>9
<1>10. ASSUME UNCHANGED engine PROVE NewHeld
  BY <1>10
<1>11. ASSUME NEW e \in Engines, NEW r, r.pc \notin Held, engine' = [engine EXCEPT ![e] = r]
       PROVE  NewHeld
  BY <1>1, <1>11 DEF At
<1>12. Idle.pc \notin Held /\ \A p, t : At(p, t).pc = p
  BY DEF Idle, Held, At
<1> HIDE DEF NewReady, NewHeld, Kept
<1>13. ASSUME NEW e \in Engines, NEW t \in Tasks, Launch(e, t),
              \/ engine[e] = At("spawn", t)
              \/ engine[e] = Idle /\ status[t] = "ready"
       PROVE  AskedInv'
  <2>1. Covered(t)
    BY <1>13 DEF AskedInv, Held
  <2>2. CASE RestoreArchived(e, t)
    <3>1. Covered(t)'
      BY <2>2 DEF RestoreArchived, Covered, Archived
    <3>2. NewReady
      BY <1>6, <2>2, <3>1 DEF RestoreArchived
    <3>3. NewHeld
      BY <1>11, <1>12, <2>2 DEF RestoreArchived
    <3>4. QED
      BY <1>3, <1>5, <2>2, <3>2, <3>3 DEF RestoreArchived
  <2>3. CASE CreateAttempt(e, t)
    <3>1. attempt[t].n <= retries[t] + history[t].asked
      BY <2>1, <2>3 DEF CreateAttempt, Covered
    <3>2. /\ attempt'[t].n = attempt[t].n + 1 /\ status'[t] = "in_progress"
          /\ \A u \in Tasks \ {t} : attempt'[u] = attempt[u] /\ status'[u] = status[u]
          /\ UNCHANGED <<retries, record>>
          /\ \A u \in Tasks : history'[u].asked = history[u].asked
          /\ \A f \in Engines : engine'[f] = At("starting", t)
      BY <1>1, <1>2, <2>3 DEF CreateAttempt, NewAttempt, Show, Goto, Histories, OneLoop
    <3>3. \A u \in Tasks \ {t} : Covered(u) => Covered(u)'
      BY <3>2 DEF Covered, Archived
    <3>4. AttemptsAskedFor'
      BY <1>2, <3>1, <3>2 DEF AskedInv, AttemptsAskedFor
    <3>5. \A u \in Tasks : status'[u] = "ready" => Covered(u)'
      BY <3>2, <3>3 DEF AskedInv
    <3>6. \A f \in Engines, u \in Tasks, p \in Held : engine'[f] # At(p, u)
      BY <3>2 DEF At, Held
    <3>7. QED
      BY <3>4, <3>5, <3>6 DEF AskedInv
  <2>4. CASE NoCapacity(e, t)
    <3>1. Covered(t)'
      BY <2>1, <2>4 DEF NoCapacity, Covered, Archived
    <3>2. NewHeld
      BY <1>1, <2>4, <3>1 DEF NoCapacity, NewHeld, Goto, At
    <3>3. QED
      BY <1>3, <1>5, <1>9, <2>4, <3>2 DEF NoCapacity
  <2>5. CASE LaunchFails(e, t)
    <3>1. NewHeld
      BY <1>11, <1>12, <2>5 DEF LaunchFails, Goto, Held
    <3>2. QED
      BY <1>3, <1>5, <1>9, <2>5, <3>1 DEF LaunchFails
  <2>6. QED
    BY <1>13, <2>2, <2>3, <2>4, <2>5 DEF Launch
<1>14. ASSUME NEW e \in Engines, NEW t \in Tasks, EngineStep(e, t) PROVE AskedInv'
  <2>1. CASE TakeDirect(e, t) \/ Spawn(e, t)
    BY <1>13, <2>1 DEF TakeDirect, Takes, Spawn
  <2>2. CASE StartFails(e, t)
    <3>1. NewHeld
      BY <1>11, <1>12, <2>2 DEF StartFails, Goto, Held
    <3>2. NewReady
      BY <1>8, <1>9, <2>2 DEF StartFails
    <3>3. \A u \in Tasks : attempt'[u].n = attempt[u].n
      BY <1>8, <2>2 DEF StartFails
    <3>4. QED
      BY <1>3, <1>4, <2>2, <3>1, <3>2, <3>3 DEF StartFails
  <2>3. CASE Decompose(e, t)
    <3>1. \A u \in Tasks : status'[u] = "ready" => status[u] \in {"ready", "absent"}
      BY <1>1, <2>3 DEF Decompose, Exists
    <3>2. \A u \in Tasks : status[u] = "absent" => attempt[u].n = 0
      BY DEF RowsExist
    <3>3. UNCHANGED <<attempt, retries, record, history>>
      BY <2>3 DEF Decompose
    <3>4. \A u \in Tasks : status[u] = "absent" => Covered(u)'
      BY <1>2, <3>2, <3>3 DEF Covered
    <3>5. NewReady
      BY <3>1, <3>4 DEF NewReady
    <3>6. NewHeld
      BY <1>11, <1>12, <2>3 DEF Decompose
    <3>7. QED
      BY <1>3, <1>5, <3>3, <3>5, <3>6
  <2>4. CASE RollUpAfter(e, t)
    <3>1. NewReady
      BY <1>1, <2>4, RolledUpShows DEF RollUpAfter, Finished, NewReady
    <3>2. NewHeld
      BY <1>11, <1>12, <2>4 DEF RollUpAfter
    <3>3. QED
      BY <1>3, <1>5, <2>4, <3>1, <3>2 DEF RollUpAfter
  <2>5. CASE TakeOrchestrated(e, t)
    <3>1. Covered(t)'
      BY <2>5 DEF TakeOrchestrated, Takes, AskedInv, Covered, Archived
    <3>2. NewHeld
      BY <1>1, <2>5, <3>1 DEF TakeOrchestrated, NewHeld, Goto, At
    <3>3. NewReady
      BY <1>6, <2>5 DEF TakeOrchestrated
    <3>4. QED
      BY <1>3, <1>5, <2>5, <3>2, <3>3 DEF TakeOrchestrated
  <2>6. CASE SelectTemplate(e, t)
    <3>1. NewHeld
      BY <1>1, <2>6 DEF SelectTemplate, NewHeld, Goto, At, Held
    <3>2. QED
      BY <1>3, <1>5, <1>9, <2>6, <3>1 DEF SelectTemplate
  <2>7. CASE Requeue(e, t)
    <3>1. Covered(t)'
      BY <2>7 DEF Requeue, AskedInv, Held, Covered, Archived
    <3>2. NewReady /\ NewHeld
      BY <1>6, <1>11, <1>12, <2>7, <3>1 DEF Requeue
    <3>3. QED
      BY <1>3, <1>5, <2>7, <3>2 DEF Requeue
  <2>8. CASE TemplateMissing(e, t) \/ DecisionFails(e, t) \/ FailTask(e, t) \/ Reap(e, t)
    <3>1. NewReady /\ NewHeld
      BY <1>6, <1>11, <1>12, <2>8
      DEF TemplateMissing, DecisionFails, FailTask, Reap, Goto, Held
    <3>2. QED
      BY <1>3, <1>5, <2>8, <3>1 DEF TemplateMissing, DecisionFails, FailTask, Reap
  <2>9. CASE Started(e, t)
    BY <1>3, <1>5, <1>9, <1>11, <1>12, <2>9 DEF Started
  <2>10. QED
    BY <1>14, <2>1, <2>2, <2>3, <2>4, <2>5, <2>6, <2>7, <2>8, <2>9 DEF EngineStep
<1>15. ASSUME NEW t \in Tasks, AttemptEnds(t) PROVE AskedInv'
  <2>1. CASE Lose(t)
    BY <1>3, <1>4, <1>8, <1>10, <2>1 DEF Lose
  <2>2. ASSUME NEW outcome \in Ended, AttemptReports(t, outcome) PROVE AskedInv'
    <3>1. \A u \in Tasks : attempt'[u].n = attempt[u].n
      BY <1>1, <2>2 DEF AttemptReports, AttemptRows
    <3>2. QED
      BY <1>3, <1>4, <1>9, <1>10, <2>2, <3>1 DEF AttemptReports
  <2>3. QED
    BY <1>15, <2>1, <2>2 DEF AttemptEnds
<1>16. ASSUME NEW t \in Tasks, NEW valid \in BOOLEAN, Settle(t, valid) PROVE AskedInv'
  BY <1>3, <1>4, <1>6, <1>7, <1>10, <1>16 DEF Settle
\* A retry is counted.
<1>17. ASSUME NEW t \in Tasks, Retried(t), UNCHANGED <<record, engine, history>>
       PROVE  AskedInv'
  <2>1. /\ \A u \in Tasks : attempt'[u].n = attempt[u].n
        /\ retries' = [retries EXCEPT ![t] = @ + 1] /\ Show(t, "ready")
    BY <1>7, <1>17 DEF Retried
  <2>2. attempt[t].n <= 1 + retries[t] + history[t].asked
    BY DEF AskedInv, AttemptsAskedFor
  <2>3. Covered(t)'
    BY <1>1, <1>2, <1>17, <2>1, <2>2 DEF Covered
  <2>4. Kept
    BY <1>1, <1>2, <1>17, <2>1 DEF Kept, Archived
  <2>5. QED
    BY <1>3, <1>6, <1>10, <1>17, <2>1, <2>3, <2>4
<1>18. ASSUME NEW t \in Tasks, NEW st \in [Tasks -> Statuses], Archive(t, st),
              UNCHANGED <<retries, history, engine>>,
              \A u \in Tasks : st[u] = "ready" => status[u] = "ready"
       PROVE  AskedInv'
  <2>1. \A u \in Tasks : attempt'[u].n = attempt[u].n
    BY <1>7, <1>18 DEF Archive
  <2>2. NewReady
    <3>1. CASE status' = RolledUp(st, t)
      BY <1>18, <3>1, RolledUpShows DEF Finished, NewReady
    <3>2. CASE UNCHANGED status
      BY <1>9, <3>2
    <3>3. QED
      BY <1>18, <3>1, <3>2 DEF Archive
  <2>3. \A u \in Tasks : Archived(u) => Archived(u)'
    <3>1. [attempt |-> attempt[t].n, final |-> st[t]] # NoRecord
      BY <1>2 DEF NoRecord
    <3>2. CASE record' = [record EXCEPT ![t] = [attempt |-> attempt[t].n, final |-> st[t]]]
      BY <1>1, <3>1, <3>2 DEF Archived
    <3>3. CASE UNCHANGED record
      BY <3>3 DEF Archived
    <3>4. QED
      BY <1>18, <3>2, <3>3 DEF Archive
  <2>4. Kept
    BY <1>2, <1>18, <2>1, <2>3 DEF Kept
  <2>5. QED
    BY <1>3, <1>10, <1>18, <2>2, <2>4
<1>19. ASSUME NEW t \in Tasks, WorkflowStep(t) PROVE AskedInv'
  <2>1. CASE RetryFailed(t)
    BY <1>17, <2>1 DEF RetryFailed
  <2>2. CASE ClaimReview(t)
    <3>1. \A u \in Tasks : attempt'[u].n = attempt[u].n
      BY <1>7, <2>2 DEF ClaimReview
    <3>2. NewReady
      BY <1>6, <2>2 DEF ClaimReview
    <3>3. Kept
      BY <1>1, <1>2, <2>2, <3>1 DEF ClaimReview, Kept, Archived, Histories
    <3>4. QED
      BY <1>3, <1>10, <2>2, <3>2, <3>3 DEF ClaimReview
  <2>3. CASE RecoverReview(t)
    <3> DEFINE st == [status EXCEPT ![t] = IF @ = "review" THEN "awaiting_approval" ELSE @]
    <3>1. Archive(t, st) /\ UNCHANGED <<retries, history, engine>>
      BY <2>3 DEF RecoverReview
    <3>2. st \in [Tasks -> Statuses] /\ \A u \in Tasks : st[u] = "ready" => status[u] = "ready"
      BY <1>1 DEF Statuses
    <3> HIDE DEF st
    <3>3. QED
      BY <1>18, <3>1, <3>2
  <2>4. CASE ArchiveNow(t)
    BY <1>1, <1>18, <2>4 DEF ArchiveNow
  <2>5. ASSUME NEW n \in Numbers, NEW verdict \in Verdicts, ReviewAnswers(t, n, verdict)
        PROVE  AskedInv'
    <3>1. CASE Retried(t)
      BY <1>17, <2>5, <3>1 DEF ReviewAnswers
    <3>2. ASSUME NEW s \in {"awaiting_approval", "failed"}, Reviewed(t, s) PROVE AskedInv'
      <4>1. NewReady
        BY <1>6, <3>2 DEF Reviewed
      <4>2. \A u \in Tasks : attempt'[u].n = attempt[u].n
        BY <1>7, <3>2 DEF Reviewed
      <4>3. QED
        BY <1>3, <1>4, <1>10, <2>5, <3>2, <4>1, <4>2 DEF ReviewAnswers, Reviewed
    <3>3. QED
      BY <2>5, <3>1, <3>2 DEF ReviewAnswers
  <2>6. ASSUME NEW n \in Numbers, ReviewSuperseded(t, n) PROVE AskedInv'
    BY <1>3, <1>4, <1>7, <1>9, <1>10, <2>6 DEF ReviewSuperseded
  <2>7. ASSUME NEW n \in Numbers, FinishReview(t, n) PROVE AskedInv'
    <3>1. CASE Archive(t, status)
      BY <1>1, <1>18, <2>7, <3>1 DEF FinishReview
    <3>2. CASE UNCHANGED <<status, attempt, record, budget>>
      BY <1>3, <1>5, <1>9, <1>10, <2>7, <3>2 DEF FinishReview
    <3>3. QED
      BY <2>7, <3>1, <3>2 DEF FinishReview
  <2>8. QED
    BY <1>19, <2>1, <2>2, <2>3, <2>4, <2>5, <2>6, <2>7 DEF WorkflowStep, ReviewStep
\* A request that makes a task ready is counted.
<1>20. ASSUME NEW t \in Tasks, NEW s, Show(t, s), s = "ready" => AskAgain(t),
              AskAgain(t) \/ UNCHANGED history,
              UNCHANGED <<retries, attempt, record, engine>>
       PROVE  AskedInv'
  <2>1. s = "ready" => Covered(t)'
    <3>1. attempt[t].n <= 1 + retries[t] + history[t].asked
      BY DEF AskedInv, AttemptsAskedFor
    <3>2. QED
      BY <1>1, <1>2, <1>20, <3>1 DEF Covered, AskAgain, Histories
  <2>2. NewReady
    BY <1>6, <1>20, <2>1
  <2>3. QED
    BY <1>3, <1>4, <1>10, <1>20, <2>2
<1>21. ASSUME NEW t \in Tasks, UNCHANGED <<attempt, retries, history, engine>>, NewReady,
              \/ Recorded(t)
              \/ Archived(t) /\ \E s \in Statuses : record' = [record EXCEPT ![t].final = s]
       PROVE  AskedInv'
  <2>1. \A u \in Tasks : Archived(u) => Archived(u)'
    <3>1. CASE Recorded(t)
      <4>1. [attempt |-> attempt[t].n, final |-> status[t]] # NoRecord
        BY <1>2 DEF NoRecord
      <4>2. QED
        BY <1>1, <3>1, <4>1 DEF Recorded, Archived
    <3>2. ASSUME Archived(t), NEW s \in Statuses, record' = [record EXCEPT ![t].final = s]
          PROVE  \A u \in Tasks : Archived(u) => Archived(u)'
      <4>1. record[t] \in [attempt : 0 .. MaxAttempts, final : Statuses]
        BY <1>1, <3>2 DEF Archived
      <4>2. record'[t].attempt = record[t].attempt /\ record[t].attempt \in 0 .. MaxAttempts
        BY <1>1, <3>2, <4>1
      <4>3. record'[t] # NoRecord
        BY <4>2 DEF NoRecord
      <4>4. QED
        BY <1>1, <3>2, <4>3 DEF Archived
    <3>3. QED
      BY <1>21, <3>1, <3>2
  <2>2. Kept
    BY <1>2, <1>21, <2>1 DEF Kept
  <2>3. QED
    BY <1>3, <1>10, <1>21, <2>2
<1>22. ASSUME NEW t \in Tasks, UserStep(t) PROVE AskedInv'
  <2>1. CASE StartTask(t)
    BY <1>20, <2>1 DEF StartTask
  <2>2. ASSUME NEW s \in PatchStatuses, PatchStatus(t, s) PROVE AskedInv'
    BY <1>20, <2>2 DEF PatchStatus
  <2>3. CASE RejectTask(t)
    <3>1. CASE Show(t, "ready") /\ AskAgain(t) /\ UNCHANGED record
      BY <1>20, <2>3, <3>1 DEF RejectTask
    <3>2. CASE /\ Archived(t) /\ Show(t, "failed") /\ UNCHANGED history
               /\ record' = [record EXCEPT ![t].final = "failed"]
      <4>1. NewReady
        BY <1>6, <3>2
      <4>2. "failed" \in Statuses
        BY DEF Statuses
      <4>3. QED
        BY <1>21, <2>3, <3>2, <4>1, <4>2 DEF RejectTask
    <3>3. QED
      BY <2>3, <3>1, <3>2 DEF RejectTask
  <2>4. CASE EvaluateTask(t)
    BY <1>9, <1>21, <2>4 DEF EvaluateTask
  <2>5. CASE ApproveWrites(t)
    <3>1. Kept
      BY <1>1, <1>2, <2>5 DEF ApproveWrites, Kept, Archived, Histories
    <3>2. NewReady
      BY <1>6, <2>5 DEF ApproveWrites
    <3>3. QED
      BY <1>3, <1>10, <2>5, <3>1, <3>2 DEF ApproveWrites
  <2>6. CASE (\E m \in Modes : PatchMode(t, m)) \/ ApproveReads(t)
    BY <1>3, <1>5, <1>9, <1>10, <2>6 DEF PatchMode, ApproveReads
  <2>7. QED
    BY <1>22, <2>1, <2>2, <2>3, <2>4, <2>5, <2>6 DEF UserStep
<1>23. ASSUME NEW t \in Tasks, BackfillBuilds(t) \/ BackfillReconciles(t) PROVE AskedInv'
  BY <1>1, <1>3, <1>5, <1>9, <1>10, <1>21, <1>23 DEF BackfillBuilds, BackfillReconciles
<1>24. CASE Crash
  <2>1. NewHeld
    BY <1>24 DEF Crash, NewHeld, Idle, At, Held
  <2>2. QED
    BY <1>3, <1>5, <1>9, <1>24, <2>1 DEF Crash
<1>25. CASE BackfillSelects \/ UNCHANGED vars
  BY <1>3, <1>5, <1>9, <1>10, <1>25 DEF BackfillSelects, vars
<1>26. ASSUME NEW e \in Engines, NEW t \in Tasks, TimesOut(e, t) PROVE AskedInv'
  <2>1. NewHeld
    BY <1>11, <1>12, <1>26 DEF TimesOut, Goto, Held
  <2>2. QED
    BY <1>3, <1>5, <1>9, <1>26, <2>1 DEF TimesOut
<1>27. QED
  BY <1>14, <1>15, <1>16, <1>19, <1>22, <1>23, <1>24, <1>25, <1>26 DEF Next

\* One loop launches nothing that was not asked for, whatever users, reviews, crashes and
\* backfills do beside it (launch_attempt, settle_task, continue_workflow).
THEOREM ExecutionsAskedFor ==
  ASSUME OneLoop
  PROVE  Spec => []AttemptsAskedFor
<1>1. Init => TypeInv /\ RowsExist /\ AskedInv
  <2>1. Init => RowsExist
    BY TaskAssumption DEF Init, RowsExist, Archived, NoAttempt
  <2>2. Init => AskedInv
    BY DEF Init, AskedInv, AttemptsAskedFor, Covered, NoAttempt, Idle, At, Held
  <2>3. QED
    BY <2>1, <2>2, TypeInit
<1>2. TypeInv /\ RowsExist /\ AskedInv /\ [Next]_vars => (TypeInv /\ RowsExist /\ AskedInv)'
  BY TypeStep, ExistStep, AskedStep
<1>3. AskedInv => AttemptsAskedFor
  BY DEF AskedInv
<1>4. QED
  BY <1>1, <1>2, <1>3, PTL DEF Spec

-----------------------------------------------------------------------------
(* Parents.                                                                *)

\* Nobody makes a task ready again but its retry.
Unasked == UserOps \cap {"start", "patch", "reject"} = {}

\* A task that may be launched: not decomposed, and launched before only as a whole.
Fresh(t) == Children(t) = {} /\ (t \in pinned \/ attempt[t].n = 0)

\* A decomposed task is never launched, and a launched one never decomposed: without
\* requests only a reviewed attempt makes its task ready again, and that has a template.
FamilyInv ==
  /\ \A t \in Tasks : status[t] = "ready" => Fresh(t)
  /\ \A e \in Engines, t \in Tasks, p \in Held :
       engine[e] = At(p, t) =>
         /\ Fresh(t) /\ status[t] # "absent"
         /\ p = "decide" => attempt[t].n = 0
         /\ p = "spawn" => t \in pinned
  /\ \A t \in Tasks \ pinned : attempt[t].n # 0 => attempt[t].mode = "direct"
  /\ \A p \in Tasks : Children(p) # {} => attempt[p].n = 0 /\ status[p] # "absent"
  /\ \A t \in Tasks : Current(t) \in reviews => attempt[t].mode = "orchestrated"

\* Every action of one loop without requests keeps parents and launched tasks apart.
LEMMA FamilyStep ==
  ASSUME OneLoop, Unasked, TypeInv, RowsExist, ReviewInv, FamilyInv, [Next]_vars
  PROVE  FamilyInv'
<1> USE DEF taskVars, sideVars
<1>1. /\ attempt \in [Tasks -> AttemptRows]
      /\ status \in [Tasks -> Statuses]
      /\ tree \in [Tasks -> [parent : Tasks \cup {NoTask}, deps : SUBSET Tasks]]
      /\ engine \in [Engines -> [pc : Places, task : Tasks \cup {NoTask}]]
      /\ NoTask \notin Tasks
  BY TaskAssumption DEF TypeInv, WorkflowTypeOK
<1>2. \A u \in Tasks : attempt[u].n \in Nat
  BY <1>1 DEF AttemptRows
\* Families, templates and numbers stay; what becomes ready or is newly held is fresh.
<1> DEFINE SameNumbers == \A u \in Tasks : attempt'[u].n = attempt[u].n /\ attempt'[u].mode = attempt[u].mode
           NewReady == \A u \in Tasks :
                         /\ status'[u] = "ready" => status[u] = "ready" \/ Fresh(u)
                         /\ status'[u] = "absent" => status[u] = "absent"
           NewHeld == \A e \in Engines, u \in Tasks, p \in Held :
                        engine'[e] = At(p, u) =>
                          \/ engine[e] = At(p, u)
                          \/ /\ Fresh(u) /\ status[u] # "absent"
                             /\ p = "decide" => attempt[u].n = 0
                             /\ p = "spawn" => u \in pinned
<1>3. ASSUME UNCHANGED <<tree, pinned>>, reviews' \subseteq reviews, SameNumbers, NewReady, NewHeld
      PROVE  FamilyInv'
  <2>1. \A u \in Tasks : Children(u)' = Children(u)
    BY <1>3 DEF Children
  <2>2. \A u \in Tasks : Fresh(u)' <=> Fresh(u)
    BY <1>3, <2>1 DEF Fresh
  <2>3. \A u \in Tasks : Current(u)' = Current(u)
    BY <1>3 DEF Current
  <2>4. (\A t \in Tasks : status[t] = "ready" => Fresh(t))'
    BY <1>3, <2>2 DEF FamilyInv
  <2>5. (\A e \in Engines, t \in Tasks, p \in Held :
           engine[e] = At(p, t) =>
             /\ Fresh(t) /\ status[t] # "absent"
             /\ p = "decide" => attempt[t].n = 0
             /\ p = "spawn" => t \in pinned)'
    BY <1>3, <2>2 DEF FamilyInv, At
  <2>6. (\A t \in Tasks \ pinned : attempt[t].n # 0 => attempt[t].mode = "direct")'
    BY <1>3 DEF FamilyInv
  <2>7. (\A p \in Tasks : Children(p) # {} => attempt[p].n = 0 /\ status[p] # "absent")'
    BY <1>3, <2>1 DEF FamilyInv
  <2>8. (\A t \in Tasks : Current(t) \in reviews => attempt[t].mode = "orchestrated")'
    BY <1>3, <2>3 DEF FamilyInv
  <2>9. QED
    BY <2>4, <2>5, <2>6, <2>7, <2>8 DEF FamilyInv
<1>4. ASSUME UNCHANGED attempt PROVE SameNumbers
  BY <1>4
<1>5. ASSUME NEW t \in Tasks, NEW f, attempt' = [attempt EXCEPT ![t].flow = f]
      PROVE  SameNumbers
  BY <1>1, <1>5 DEF AttemptRows
<1>6. ASSUME NEW t \in Tasks, NEW s, s # "absent", s # "ready" \/ Fresh(t), Show(t, s)
      PROVE  NewReady
  BY <1>1, <1>6 DEF Show
<1>7. ASSUME NEW t \in Tasks, LostAndSettled(t)
      PROVE  SameNumbers /\ NewReady
  BY <1>1, <1>7 DEF LostAndSettled, AttemptRows, Show
<1>8. ASSUME UNCHANGED status PROVE NewReady
  BY <1>8
<1>9. ASSUME UNCHANGED engine PROVE NewHeld
  BY <1>9
<1>10. ASSUME NEW e \in Engines, NEW r, r.pc \notin Held, engine' = [engine EXCEPT ![e] = r]
       PROVE  NewHeld
  BY <1>1, <1>10 DEF At
<1>11. ASSUME NEW e \in Engines, NEW t \in Tasks, NEW p \in Held, Goto(e, p, t), Fresh(t), status[t] # "absent",
              p = "decide" => attempt[t].n = 0,
              p = "spawn" => t \in pinned
       PROVE  NewHeld
  BY <1>1, <1>11 DEF At, Goto
<1>12. Idle.pc \notin Held /\ \A p, t : At(p, t).pc = p
  BY DEF Idle, Held, At
<1> HIDE DEF NewReady, NewHeld, SameNumbers
<1>13. ASSUME NEW e \in Engines, NEW t \in Tasks, Launch(e, t), Fresh(t), status[t] # "absent",
              t \in pinned \/ mode[t] = "direct"
       PROVE  FamilyInv'
  <2>1. CASE RestoreArchived(e, t)
    <3>1. NewReady
      BY <1>6, <1>13, <2>1 DEF RestoreArchived, RowsExist
    <3>2. NewHeld
      BY <1>10, <1>12, <2>1 DEF RestoreArchived
    <3>3. QED
      BY <1>3, <1>4, <2>1, <3>1, <3>2 DEF RestoreArchived
  <2>2. CASE CreateAttempt(e, t)
    <3>1. /\ attempt'[t].n = attempt[t].n + 1 /\ attempt'[t].mode = mode[t]
          /\ status'[t] = "in_progress"
          /\ \A u \in Tasks \ {t} : attempt'[u] = attempt[u] /\ status'[u] = status[u]
          /\ UNCHANGED <<tree, pinned, reviews>>
          /\ \A f \in Engines : engine'[f] = At("starting", t)
      BY <1>1, <2>2 DEF CreateAttempt, NewAttempt, Show, Goto, OneLoop
    <3>2. \A u \in Tasks : Children(u)' = Children(u)
      BY <3>1 DEF Children
    <3>3. \A u \in Tasks \ {t} : Fresh(u)' <=> Fresh(u)
      BY <3>1, <3>2 DEF Fresh
    <3>4. (\A u \in Tasks : status[u] = "ready" => Fresh(u))'
      BY <3>1, <3>3 DEF FamilyInv
    <3>5. \A f \in Engines, u \in Tasks, p \in Held : engine'[f] # At(p, u)
      BY <3>1 DEF At, Held
    <3>6. (\A u \in Tasks \ pinned : attempt[u].n # 0 => attempt[u].mode = "direct")'
      BY <1>13, <3>1 DEF FamilyInv
    <3>7. Children(t) = {}
      BY <1>13 DEF Fresh
    <3>8. (\A p \in Tasks : Children(p) # {} => attempt[p].n = 0 /\ status[p] # "absent")'
      BY <3>1, <3>2, <3>7 DEF FamilyInv
    <3>9. Current(t)' \notin reviews
      <4>1. ASSUME <<t, attempt[t].n + 1>> \in reviews PROVE FALSE
        <5>1. attempt[t].n + 1 \in Numbers
          BY <4>1 DEF TypeInv, WorkflowTypeOK
        <5>2. attempt[t].n + 1 <= attempt[t].n
          BY <4>1, <5>1 DEF ReviewInv
        <5>3. QED
          BY <1>2, <5>2
      <4>2. QED
        BY <3>1, <4>1 DEF Current
    <3>10. (\A u \in Tasks : Current(u) \in reviews => attempt[u].mode = "orchestrated")'
      <4>1. \A u \in Tasks \ {t} : Current(u)' = Current(u)
        BY <3>1 DEF Current
      <4>2. QED
        BY <3>1, <3>9, <4>1 DEF FamilyInv
    <3>11. QED
      BY <3>4, <3>5, <3>6, <3>8, <3>10 DEF FamilyInv
  <2>3. CASE NoCapacity(e, t)
    <3>1. NewHeld
      BY <1>11, <1>13, <2>3 DEF NoCapacity, Held
    <3>2. QED
      BY <1>3, <1>4, <1>8, <2>3, <3>1 DEF NoCapacity
  <2>4. CASE LaunchFails(e, t)
    <3>1. NewHeld
      BY <1>10, <1>12, <2>4 DEF LaunchFails, Goto, Held
    <3>2. QED
      BY <1>3, <1>4, <1>8, <2>4, <3>1 DEF LaunchFails
  <2>5. QED
    BY <1>13, <2>1, <2>2, <2>3, <2>4 DEF Launch
<1>14. ASSUME NEW e \in Engines, NEW t \in Tasks, EngineStep(e, t) PROVE FamilyInv'
  <2>1. CASE TakeDirect(e, t)
    BY <1>13, <2>1 DEF TakeDirect, Takes, FamilyInv
  <2>2. CASE Spawn(e, t)
    <3>1. Fresh(t) /\ t \in pinned /\ status[t] # "absent"
      BY <2>2 DEF Spawn, FamilyInv, Held
    <3>2. QED
      BY <1>13, <2>2, <3>1 DEF Spawn
  <2>3. CASE StartFails(e, t)
    <3>1. NewHeld
      BY <1>10, <1>12, <2>3 DEF StartFails, Goto, Held
    <3>2. NewReady /\ SameNumbers
      BY <1>4, <1>7, <1>8, <2>3 DEF StartFails
    <3>3. QED
      BY <1>3, <2>3, <3>1, <3>2 DEF StartFails
  <2>4. CASE Decompose(e, t)
    <3>1. PICK kids \in (SUBSET {k \in Tasks : ~Exists(k)}) \ {{}} :
            \E deps \in [kids -> SUBSET kids] :
              /\ \A k \in kids : \A d \in deps[k] : d < k
              /\ tree' = [k \in Tasks |-> IF k \in kids THEN [parent |-> t, deps |-> deps[k]]
                                                        ELSE tree[k]]
              /\ status' = [k \in Tasks |-> IF k \in kids THEN "ready"
                                            ELSE IF k = t THEN "in_progress" ELSE status[k]]
              /\ mode' = [k \in Tasks |-> IF k \in kids THEN mode[t] ELSE mode[k]]
      BY <2>4, Zenon DEF Decompose
    <3>2. PICK deps \in [kids -> SUBSET kids] :
            tree' = [k \in Tasks |-> IF k \in kids THEN [parent |-> t, deps |-> deps[k]]
                                                   ELSE tree[k]]
      BY <3>1
    <3>3. /\ \A k \in kids : k \in Tasks /\ status[k] = "absent" /\ attempt[k].n = 0
          /\ \A k \in kids : Children(k) = {}
      BY <3>1 DEF Exists, RowsExist, FamilyInv
    <3>4. attempt[t].n = 0 /\ UNCHANGED <<attempt, pinned, reviews>>
      BY <2>4 DEF Decompose, FamilyInv, Held
    <3>5. \A u \in Tasks : u # t => Children(u)' \subseteq Children(u)
      BY <3>2 DEF Children
    <3>6. \A u \in Tasks : u # t /\ Fresh(u) => Fresh(u)'
      BY <3>4, <3>5 DEF Fresh
    <3>7. \A k \in kids : Fresh(k)
      BY <3>3 DEF Fresh
    <3>8. (\A u \in Tasks : status[u] = "ready" => Fresh(u))'
      <4> SUFFICES ASSUME NEW u \in Tasks, status'[u] = "ready" PROVE Fresh(u)'
        OBVIOUS
      <4>1. u \in kids \/ (u # t /\ status[u] = "ready")
        BY <3>1
      <4>2. Fresh(u)
        BY <3>7, <4>1 DEF FamilyInv
      <4>3. u # t
        <5>1. status[t] # "absent"
          BY <2>4 DEF Decompose, FamilyInv, Held
        <5>2. QED
          BY <3>3, <4>1, <5>1
      <4>4. QED
        BY <3>6, <4>2, <4>3
    <3>9. \A f \in Engines, u \in Tasks, p \in Held : engine'[f] # At(p, u)
      BY <1>1, <1>12, <2>4 DEF Decompose, OneLoop, At, Held
    <3>10. (\A u \in Tasks \ pinned : attempt[u].n # 0 => attempt[u].mode = "direct")'
      BY <3>4 DEF FamilyInv
    <3>11. (\A p \in Tasks : Children(p) # {} => attempt[p].n = 0 /\ status[p] # "absent")'
      BY <3>1, <3>4, <3>5 DEF FamilyInv
    <3>12. (\A u \in Tasks : Current(u) \in reviews => attempt[u].mode = "orchestrated")'
      BY <3>4 DEF FamilyInv, Current
    <3>13. QED
      BY <3>8, <3>9, <3>10, <3>11, <3>12 DEF FamilyInv
  <2>5. CASE RollUpAfter(e, t)
    <3>1. NewReady
      BY <1>1, <2>5, RolledUpShows DEF RollUpAfter, Finished, NewReady
    <3>2. NewHeld
      BY <1>10, <1>12, <2>5 DEF RollUpAfter
    <3>3. QED
      BY <1>3, <1>4, <2>5, <3>1, <3>2 DEF RollUpAfter
  <2>6. CASE TakeOrchestrated(e, t)
    <3>1. Fresh(t)
      BY <2>6 DEF TakeOrchestrated, Takes, FamilyInv
    <3>2. NewHeld
      <4>1. status[t] # "absent"
        BY <2>6 DEF TakeOrchestrated, Takes
      <4>2. CASE t \in pinned
        BY <1>11, <2>6, <3>1, <4>1, <4>2 DEF TakeOrchestrated, Held
      <4>3. CASE t \notin pinned
        <5>1. attempt[t].n = 0 /\ Goto(e, "decide", t)
          BY <2>6, <3>1, <4>3 DEF TakeOrchestrated, Fresh
        <5>2. QED
          BY <1>11, <3>1, <4>1, <5>1 DEF Held
      <4>4. QED
        BY <4>2, <4>3
    <3>3. NewReady
      BY <1>6, <2>6 DEF TakeOrchestrated
    <3>4. QED
      BY <1>3, <1>4, <2>6, <3>2, <3>3 DEF TakeOrchestrated
  <2>7. CASE SelectTemplate(e, t)
    <3>1. /\ UNCHANGED <<tree, attempt, status, reviews>> /\ pinned' = pinned \cup {t}
          /\ \A f \in Engines : engine'[f] = At("spawn", t)
      BY <1>1, <2>7 DEF SelectTemplate, Goto, OneLoop
    <3>2. \A u \in Tasks : Children(u)' = Children(u) /\ Current(u)' = Current(u)
      BY <3>1 DEF Children, Current
    <3>3. \A u \in Tasks : Fresh(u) => Fresh(u)'
      BY <3>1, <3>2 DEF Fresh
    <3>4. Fresh(t) /\ status[t] # "absent"
      BY <2>7 DEF SelectTemplate, FamilyInv, Held
    <3>5. \A f \in Engines, u \in Tasks, p \in Held :
            engine'[f] = At(p, u) => u = t /\ p = "spawn"
      BY <3>1 DEF At
    <3>6. (\A f \in Engines, u \in Tasks, p \in Held :
             engine[f] = At(p, u) =>
               /\ Fresh(u) /\ status[u] # "absent"
               /\ p = "decide" => attempt[u].n = 0
               /\ p = "spawn" => u \in pinned)'
      BY <3>1, <3>3, <3>4, <3>5
    <3>7. (\A u \in Tasks : status[u] = "ready" => Fresh(u))'
      BY <3>1, <3>3 DEF FamilyInv
    <3>8. QED
      BY <3>1, <3>2, <3>6, <3>7 DEF FamilyInv
  <2>8. CASE Requeue(e, t)
    <3>1. Fresh(t)
      BY <2>8 DEF Requeue, FamilyInv, Held
    <3>2. NewReady /\ NewHeld
      BY <1>6, <1>10, <1>12, <2>8, <3>1 DEF Requeue
    <3>3. QED
      BY <1>3, <1>4, <2>8, <3>2 DEF Requeue
  <2>9. CASE TemplateMissing(e, t) \/ DecisionFails(e, t) \/ FailTask(e, t) \/ Reap(e, t)
    <3>1. NewReady /\ NewHeld
      BY <1>6, <1>10, <1>12, <2>9
      DEF TemplateMissing, DecisionFails, FailTask, Reap, Goto, Held
    <3>2. QED
      BY <1>3, <1>4, <2>9, <3>1 DEF TemplateMissing, DecisionFails, FailTask, Reap
  <2>10. CASE Started(e, t)
    BY <1>3, <1>4, <1>8, <1>10, <1>12, <2>10 DEF Started
  <2>11. QED
    BY <1>14, <2>1, <2>2, <2>3, <2>4, <2>5, <2>6, <2>7, <2>8, <2>9, <2>10 DEF EngineStep
<1>15. ASSUME NEW t \in Tasks, AttemptEnds(t) PROVE FamilyInv'
  <2>1. CASE Lose(t)
    BY <1>3, <1>7, <1>9, <2>1 DEF Lose
  <2>2. ASSUME NEW outcome \in Ended, AttemptReports(t, outcome) PROVE FamilyInv'
    <3>1. SameNumbers
      BY <1>1, <2>2 DEF AttemptReports, AttemptRows, SameNumbers
    <3>2. QED
      BY <1>3, <1>8, <1>9, <2>2, <3>1 DEF AttemptReports
  <2>3. QED
    BY <1>15, <2>1, <2>2 DEF AttemptEnds
<1>16. ASSUME NEW t \in Tasks, NEW valid \in BOOLEAN, Settle(t, valid) PROVE FamilyInv'
  BY <1>3, <1>5, <1>6, <1>9, <1>16 DEF Settle
\* Only a reviewed attempt is retried.
<1>17. ASSUME NEW t \in Tasks, Retried(t), UNCHANGED <<tree, pinned, engine>>,
              reviews' \subseteq reviews, attempt[t].n # 0, attempt[t].mode = "orchestrated"
       PROVE  FamilyInv'
  <2>1. SameNumbers /\ Show(t, "ready")
    BY <1>5, <1>17 DEF Retried
  <2>2. Fresh(t)
    BY <1>17 DEF FamilyInv, Fresh
  <2>3. QED
    BY <1>3, <1>6, <1>9, <1>17, <2>1, <2>2
<1>18. ASSUME NEW t \in Tasks, NEW st \in [Tasks -> Statuses], Archive(t, st),
              UNCHANGED <<tree, pinned, engine>>, reviews' \subseteq reviews,
              \A u \in Tasks : st[u] \in {"ready", "absent"} => status[u] = st[u]
       PROVE  FamilyInv'
  <2>1. SameNumbers
    BY <1>5, <1>18 DEF Archive
  <2>2. NewReady
    <3>1. CASE status' = RolledUp(st, t)
      BY <1>18, <3>1, RolledUpShows DEF Finished, NewReady
    <3>2. CASE UNCHANGED status
      BY <1>8, <3>2
    <3>3. QED
      BY <1>18, <3>1, <3>2 DEF Archive
  <2>3. QED
    BY <1>3, <1>9, <1>18, <2>1, <2>2
<1>19. ASSUME NEW t \in Tasks, WorkflowStep(t) PROVE FamilyInv'
  <2>1. CASE RetryFailed(t)
    <3>1. attempt[t].n # 0
      BY <2>1, AttemptNumber DEF RetryFailed, Numbers
    <3>2. QED
      BY <1>17, <2>1, <3>1 DEF RetryFailed, RetryDue
  <2>2. CASE ClaimReview(t)
    <3>1. SameNumbers
      BY <1>5, <2>2 DEF ClaimReview
    <3>2. NewReady /\ NewHeld
      BY <1>6, <1>9, <2>2 DEF ClaimReview
    <3>3. /\ \A u \in Tasks : Current(u)' = Current(u)
          /\ reviews' = reviews \cup {Current(t)} /\ UNCHANGED <<tree, pinned>>
          /\ attempt[t].mode = "orchestrated"
      BY <2>2, <3>1 DEF ClaimReview, ReviewDue, Current, SameNumbers
    <3>4. (\A u \in Tasks : Current(u) \in reviews => attempt[u].mode = "orchestrated")'
      <4>1. \A u \in Tasks : Current(u) = Current(t) => u = t
        BY DEF Current
      <4>2. QED
        BY <3>1, <3>3, <4>1 DEF FamilyInv, SameNumbers
    <3>5. \A u \in Tasks : Children(u)' = Children(u)
      BY <3>3 DEF Children
    <3>6. \A u \in Tasks : Fresh(u)' <=> Fresh(u)
      BY <3>1, <3>3, <3>5 DEF Fresh, SameNumbers
    <3>7. (\A u \in Tasks : status[u] = "ready" => Fresh(u))'
      BY <3>2, <3>6 DEF FamilyInv, NewReady
    <3>8. (\A e \in Engines, u \in Tasks, p \in Held :
             engine[e] = At(p, u) =>
               /\ Fresh(u) /\ status[u] # "absent"
               /\ p = "decide" => attempt[u].n = 0
               /\ p = "spawn" => u \in pinned)'
      BY <2>2, <3>1, <3>2, <3>3, <3>6 DEF FamilyInv, At, ClaimReview, SameNumbers, NewReady
    <3>9. (\A u \in Tasks \ pinned : attempt[u].n # 0 => attempt[u].mode = "direct")'
      BY <3>1, <3>3 DEF FamilyInv, SameNumbers
    <3>10. (\A p \in Tasks : Children(p) # {} => attempt[p].n = 0 /\ status[p] # "absent")'
      BY <3>1, <3>2, <3>5 DEF FamilyInv, SameNumbers, NewReady
    <3>11. QED
      BY <3>4, <3>7, <3>8, <3>9, <3>10 DEF FamilyInv
  <2>3. CASE RecoverReview(t)
    <3> DEFINE st == [status EXCEPT ![t] = IF @ = "review" THEN "awaiting_approval" ELSE @]
    <3>1. Archive(t, st) /\ UNCHANGED <<tree, pinned, engine, reviews>>
      BY <2>3 DEF RecoverReview
    <3>2. /\ st \in [Tasks -> Statuses]
          /\ \A u \in Tasks : st[u] \in {"ready", "absent"} => status[u] = st[u]
      BY <1>1 DEF Statuses
    <3> HIDE DEF st
    <3>3. QED
      BY <1>18, <3>1, <3>2
  <2>4. CASE ArchiveNow(t)
    BY <1>1, <1>18, <2>4 DEF ArchiveNow
  <2>5. ASSUME NEW n \in Numbers, NEW verdict \in Verdicts, ReviewAnswers(t, n, verdict)
        PROVE  FamilyInv'
    <3>1. CASE Retried(t)
      <4>1. Current(t) \in reviews /\ attempt[t].n # 0
        BY <2>5, TaskAssumption DEF ReviewAnswers, Current, Numbers
      <4>2. attempt[t].mode = "orchestrated"
        BY <4>1 DEF FamilyInv
      <4>3. QED
        BY <1>17, <2>5, <3>1, <4>1, <4>2 DEF ReviewAnswers
    <3>2. ASSUME NEW s \in {"awaiting_approval", "failed"}, Reviewed(t, s) PROVE FamilyInv'
      <4>1. NewReady
        BY <1>6, <3>2 DEF Reviewed
      <4>2. SameNumbers
        BY <1>5, <3>2 DEF Reviewed
      <4>3. QED
        BY <1>3, <1>9, <2>5, <3>2, <4>1, <4>2 DEF ReviewAnswers
    <3>3. QED
      BY <2>5, <3>1, <3>2 DEF ReviewAnswers
  <2>6. ASSUME NEW n \in Numbers, ReviewSuperseded(t, n) PROVE FamilyInv'
    BY <1>3, <1>4, <1>5, <1>8, <1>9, <2>6 DEF ReviewSuperseded
  <2>7. ASSUME NEW n \in Numbers, FinishReview(t, n) PROVE FamilyInv'
    <3>1. CASE Archive(t, status)
      BY <1>1, <1>18, <2>7, <3>1 DEF FinishReview
    <3>2. CASE UNCHANGED <<status, attempt, record, budget>>
      BY <1>3, <1>4, <1>8, <1>9, <2>7, <3>2 DEF FinishReview
    <3>3. QED
      BY <2>7, <3>1, <3>2 DEF FinishReview
  <2>8. QED
    BY <1>19, <2>1, <2>2, <2>3, <2>4, <2>5, <2>6, <2>7 DEF WorkflowStep, ReviewStep
<1>20. ASSUME UNCHANGED <<status, tree, pinned, attempt, engine, reviews>> PROVE FamilyInv'
  BY <1>3, <1>4, <1>8, <1>9, <1>20
<1>21. ASSUME NEW t \in Tasks, UserStep(t) PROVE FamilyInv'
  <2>1. ~StartTask(t) /\ ~RejectTask(t) /\ ~\E s \in PatchStatuses : PatchStatus(t, s)
    BY DEF Unasked, StartTask, RejectTask, PatchStatus, Asks
  <2>2. CASE ApproveWrites(t)
    <3>1. NewReady
      BY <1>6, <2>2 DEF ApproveWrites
    <3>2. QED
      BY <1>3, <1>4, <1>9, <2>2, <3>1 DEF ApproveWrites
  <2>3. CASE (\E m \in Modes : PatchMode(t, m)) \/ ApproveReads(t) \/ EvaluateTask(t)
    BY <1>20, <2>3 DEF PatchMode, ApproveReads, EvaluateTask
  <2>4. QED
    BY <1>21, <2>1, <2>2, <2>3 DEF UserStep
<1>22. ASSUME NEW t \in Tasks, BackfillBuilds(t) \/ BackfillReconciles(t) PROVE FamilyInv'
  BY <1>20, <1>22 DEF BackfillBuilds, BackfillReconciles
<1>23. CASE Crash
  <2>1. NewHeld
    BY <1>23 DEF Crash, NewHeld, Idle, At, Held
  <2>2. QED
    BY <1>3, <1>4, <1>8, <1>23, <2>1 DEF Crash
<1>24. CASE BackfillSelects \/ UNCHANGED vars
  BY <1>20, <1>24 DEF BackfillSelects, vars
<1>25. ASSUME NEW e \in Engines, NEW t \in Tasks, TimesOut(e, t) PROVE FamilyInv'
  <2>1. NewHeld
    BY <1>10, <1>12, <1>25 DEF TimesOut, Goto, Held
  <2>2. QED
    BY <1>3, <1>4, <1>8, <1>25, <2>1 DEF TimesOut
<1>26. QED
  BY <1>14, <1>15, <1>16, <1>19, <1>21, <1>22, <1>23, <1>24, <1>25 DEF Next

\* Where parents are proved to rest: one task, or one loop and no requests.
Steady == Tasks = {Root} \/ (OneLoop /\ Unasked)

ParentsInv ==
  /\ Tasks = {Root} => \A p \in Tasks : Children(p) = {}
  /\ Tasks # {Root} => FamilyInv

\* A parent has never been launched.
LEMMA ParentsRest ==
  ASSUME ParentsInv, NEW p \in Tasks, Children(p) # {}
  PROVE  attempt[p].n = 0
BY DEF ParentsInv, FamilyInv

\* At first nothing is decomposed.
LEMMA ParentsInit == Init => ParentsInv
<1> SUFFICES ASSUME Init PROVE ParentsInv
  OBVIOUS
<1>1. \A p \in Tasks : Children(p) = {}
  BY TaskAssumption DEF Init, Children
<1>2. FamilyInv
  BY <1>1 DEF Init, FamilyInv, Fresh, NoAttempt, Idle, At, Held
<1>3. QED
  BY <1>1, <1>2 DEF ParentsInv

\* Only a decomposition changes the tree.
LEMMA TreeStays ==
  ASSUME [Next]_vars, \A e \in Engines, t \in Tasks : ~Decompose(e, t)
  PROVE  UNCHANGED tree
<1> USE DEF taskVars
<1>1. ASSUME NEW e \in Engines, NEW t \in Tasks, Launch(e, t) PROVE UNCHANGED tree
  BY <1>1 DEF Launch, RestoreArchived, CreateAttempt, NoCapacity, LaunchFails
<1>2. ASSUME NEW e \in Engines, NEW t \in Tasks, EngineStep(e, t) \/ TimesOut(e, t)
      PROVE  UNCHANGED tree
  BY <1>1, <1>2
  DEF EngineStep, TimesOut, TakeDirect, TakeOrchestrated, TemplateMissing, SelectTemplate,
      DecisionFails, Spawn, Requeue, Started, StartFails, FailTask, RollUpAfter, Reap
<1>3. ASSUME NEW t \in Tasks, AttemptEnds(t) PROVE UNCHANGED tree
  BY <1>3 DEF AttemptEnds, AttemptReports, Lose
<1>4. ASSUME NEW t \in Tasks, WorkflowStep(t) PROVE UNCHANGED tree
  BY <1>4
  DEF WorkflowStep, RetryFailed, ClaimReview, RecoverReview, ArchiveNow, ReviewStep,
      ReviewAnswers, ReviewSuperseded, FinishReview
<1>5. ASSUME NEW t \in Tasks, UserStep(t) PROVE UNCHANGED tree
  BY <1>5
  DEF UserStep, StartTask, PatchStatus, PatchMode, RejectTask, ApproveReads, ApproveWrites,
      EvaluateTask
<1>6. ASSUME NEW t \in Tasks, NEW valid \in BOOLEAN, Settle(t, valid) PROVE UNCHANGED tree
  BY <1>6 DEF Settle
<1>7. ASSUME NEW t \in Tasks, BackfillBuilds(t) \/ BackfillReconciles(t) PROVE UNCHANGED tree
  BY <1>7 DEF BackfillBuilds, BackfillReconciles
<1>8. CASE BackfillSelects \/ Crash \/ UNCHANGED vars
  BY <1>8 DEF BackfillSelects, Crash, vars
<1>9. QED
  BY <1>2, <1>3, <1>4, <1>5, <1>6, <1>7, <1>8 DEF Next

\* Every action keeps parents at rest.
LEMMA ParentsStep ==
  ASSUME Steady, TypeInv, RowsExist, ReviewInv, ParentsInv, [Next]_vars
  PROVE  ParentsInv'
<1>1. ASSUME Tasks = {Root} PROVE (\A p \in Tasks : Children(p) = {})'
  <2>1. ASSUME NEW e \in Engines, NEW t \in Tasks, Decompose(e, t) PROVE FALSE
    BY <1>1, <2>1 DEF Decompose, Exists, RowsExist
  <2>2. UNCHANGED tree
    BY <2>1, TreeStays
  <2>3. QED
    BY <1>1, <2>2 DEF ParentsInv, Children
<1>2. ASSUME Tasks # {Root} PROVE FamilyInv'
  BY <1>2, FamilyStep DEF Steady, ParentsInv
<1>3. QED
  BY <1>1, <1>2 DEF ParentsInv

-----------------------------------------------------------------------------
(* Nothing runs behind the status of its task.                             *)

\* What an engine has in hand besides a task that is starting.
Pending == Places \ {"idle", "starting"}

\* The status of a running task is its launch's, and what an engine has in hand
\* does not run, so that it may write what it likes.
ShownInv ==
  /\ approving = {}
  /\ AttemptShown
  /\ \A t \in Tasks : Running(t) => ~Archived(t)
  /\ \A e \in Engines, t \in Tasks, p \in Pending : engine[e] = At(p, t) => ~Running(t)

\* Only approve requests change what they have read.
LEMMA ApprovalsStay ==
  ASSUME [Next]_vars, \A t \in Tasks : ~ApproveReads(t) /\ ~ApproveWrites(t)
  PROVE  UNCHANGED approving
<1> USE DEF sideVars
<1>1. ASSUME NEW e \in Engines, NEW t \in Tasks, Launch(e, t) PROVE UNCHANGED approving
  BY <1>1 DEF Launch, RestoreArchived, CreateAttempt, NoCapacity, LaunchFails
<1>2. ASSUME NEW e \in Engines, NEW t \in Tasks, EngineStep(e, t) \/ TimesOut(e, t)
      PROVE  UNCHANGED approving
  BY <1>1, <1>2
  DEF EngineStep, TimesOut, TakeDirect, TakeOrchestrated, TemplateMissing, Decompose,
      SelectTemplate, DecisionFails, Spawn, Requeue, Started, StartFails, FailTask, RollUpAfter,
      Reap
<1>3. ASSUME NEW t \in Tasks, AttemptEnds(t) PROVE UNCHANGED approving
  BY <1>3 DEF AttemptEnds, AttemptReports, Lose
<1>4. ASSUME NEW t \in Tasks, WorkflowStep(t) PROVE UNCHANGED approving
  BY <1>4
  DEF WorkflowStep, RetryFailed, ClaimReview, RecoverReview, ArchiveNow, ReviewStep,
      ReviewAnswers, ReviewSuperseded, FinishReview
<1>5. ASSUME NEW t \in Tasks, UserStep(t) PROVE UNCHANGED approving
  BY <1>5 DEF UserStep, StartTask, PatchStatus, PatchMode, RejectTask, EvaluateTask
<1>6. ASSUME NEW t \in Tasks, NEW valid \in BOOLEAN, Settle(t, valid) PROVE UNCHANGED approving
  BY <1>6 DEF Settle
<1>7. ASSUME NEW t \in Tasks, BackfillBuilds(t) \/ BackfillReconciles(t)
      PROVE  UNCHANGED approving
  BY <1>7 DEF BackfillBuilds, BackfillReconciles
<1>8. CASE BackfillSelects \/ Crash \/ UNCHANGED vars
  BY <1>8 DEF BackfillSelects, Crash, vars
<1>9. QED
  BY <1>2, <1>3, <1>4, <1>5, <1>6, <1>7, <1>8 DEF Next

\* Every action of one loop shows what runs, and hands over only what does not run.
LEMMA ShownStep ==
  ASSUME OneLoop, "approve" \notin UserOps, TypeInv, ReviewInv, ParentsInv, ShownInv, [Next]_vars
  PROVE  ShownInv'
<1> USE DEF taskVars, sideVars
<1>1. /\ attempt \in [Tasks -> AttemptRows]
      /\ status \in [Tasks -> Statuses]
      /\ record \in [Tasks -> {NoRecord} \cup [attempt : 0 .. MaxAttempts, final : Statuses]]
      /\ engine \in [Engines -> [pc : Places, task : Tasks \cup {NoTask}]]
      /\ NoTask \notin Tasks
  BY TaskAssumption DEF TypeInv, WorkflowTypeOK
\* Nothing starts to run; no status, record or engine touches what goes on running.
<1> DEFINE NoStart == \A u \in Tasks : Running(u)' => Running(u)
           Hands == \A u \in Tasks : status'[u] = status[u] \/ ~Running(u)'
           Records == \A u \in Tasks : Archived(u)' => Archived(u) \/ ~Running(u)'
           NewBusy == \A e \in Engines, u \in Tasks, p \in Pending :
                        engine'[e] = At(p, u) =>
                          (\E q \in Pending : engine[e] = At(q, u)) \/ ~Running(u)'
<1>2. ASSUME approving' = {}, NoStart, Hands, Records, NewBusy PROVE ShownInv'
  <2>1. AttemptShown'
    BY <1>2 DEF ShownInv, AttemptShown
  <2>2. (\A t \in Tasks : Running(t) => ~Archived(t))'
    BY <1>2 DEF ShownInv
  <2>3. (\A e \in Engines, t \in Tasks, p \in Pending : engine[e] = At(p, t) => ~Running(t))'
    BY <1>2 DEF ShownInv, At
  <2>4. QED
    BY <1>2, <2>1, <2>2, <2>3 DEF ShownInv
<1>3. ASSUME UNCHANGED attempt PROVE NoStart
  BY <1>3 DEF Running
<1>4. ASSUME NEW t \in Tasks, NEW f, attempt' = [attempt EXCEPT ![t].flow = f]
      PROVE  NoStart /\ (~Running(t) => ~Running(t)')
  BY <1>1, <1>4 DEF AttemptRows, Running
<1>5. ASSUME NEW t \in Tasks, NEW s, ~Running(t)', Show(t, s)
      PROVE  Hands
  BY <1>1, <1>5 DEF Show
<1>6. ASSUME NEW t \in Tasks, LostAndSettled(t)
      PROVE  NoStart /\ Hands
  BY <1>1, <1>6 DEF LostAndSettled, AttemptRows, Show, Running
<1>7. ASSUME UNCHANGED status PROVE Hands
  BY <1>7
<1>8. ASSUME UNCHANGED engine PROVE NewBusy
  BY <1>8
<1>9. ASSUME NEW e \in Engines, NEW r, r.pc \notin Pending, engine' = [engine EXCEPT ![e] = r]
      PROVE  NewBusy
  BY <1>1, <1>9 DEF At
<1>10. ASSUME NEW e \in Engines, NEW t \in Tasks, NEW p, Goto(e, p, t), ~Running(t)'
       PROVE  NewBusy
  BY <1>1, <1>10 DEF At, Goto
<1>11. Idle.pc \notin Pending
  BY DEF Idle, Pending
<1>12. ASSUME UNCHANGED record PROVE Records
  BY <1>12 DEF Archived
\* Rolling up writes a parent, which has no attempt.
<1>13. ASSUME NEW st \in [Tasks -> Statuses], NEW t \in Tasks, status' = RolledUp(st, t),
              NoStart, \A u \in Tasks : st[u] = status[u] \/ ~Running(u)'
       PROVE  Hands
  <2>1. ASSUME NEW u \in Tasks, RolledUp(st, t)[u] # st[u] PROVE ~Running(u)
    <3>1. u = tree[t].parent
      BY <2>1, RolledUpShows
    <3>2. Children(u) # {}
      BY <3>1 DEF Children
    <3>3. attempt[u].n = 0
      BY <3>2, ParentsRest
    <3>4. QED
      BY <3>3, AttemptNumber, TaskAssumption DEF Running, Numbers
  <2>2. QED
    BY <1>13, <2>1
<1> HIDE DEF NoStart, Hands, Records, NewBusy
<1>14. approving' = {}
  <2>1. \A t \in Tasks : ~ApproveReads(t)
    BY DEF ApproveReads, Asks
  <2>2. \A t \in Tasks : ~ApproveWrites(t)
    BY DEF ApproveWrites, ShownInv
  <2>3. UNCHANGED approving
    BY <2>1, <2>2, ApprovalsStay
  <2>4. QED
    BY <2>3 DEF ShownInv
<1>15. ASSUME NEW e \in Engines, NEW t \in Tasks, Launch(e, t), ~Running(t)
       PROVE  ShownInv'
  <2>1. CASE CreateAttempt(e, t)
    <3>1. /\ status'[t] = "in_progress" /\ ~Archived(t)
          /\ \A u \in Tasks \ {t} : attempt'[u] = attempt[u] /\ status'[u] = status[u]
          /\ UNCHANGED record
          /\ \A f \in Engines : engine'[f] = At("starting", t)
      BY <1>1, <2>1 DEF CreateAttempt, Show, Goto, OneLoop
    <3>2. \A u \in Tasks \ {t} : Running(u)' <=> Running(u)
      BY <3>1 DEF Running
    <3>3. AttemptShown'
      BY <3>1, <3>2 DEF ShownInv, AttemptShown
    <3>4. (\A u \in Tasks : Running(u) => ~Archived(u))'
      BY <3>1, <3>2 DEF ShownInv, Archived
    <3>5. \A f \in Engines, u \in Tasks, p \in Pending : engine'[f] # At(p, u)
      BY <3>1 DEF At, Pending
    <3>6. QED
      BY <1>14, <3>3, <3>4, <3>5 DEF ShownInv
  <2>2. ASSUME UNCHANGED <<attempt, record>> PROVE NoStart /\ Records /\ ~Running(t)'
    BY <1>3, <1>12, <1>15, <2>2 DEF Running
  <2>3. CASE RestoreArchived(e, t)
    <3>1. NoStart /\ Records /\ ~Running(t)'
      BY <2>2, <2>3 DEF RestoreArchived
    <3>2. Hands /\ NewBusy
      BY <1>5, <1>9, <1>11, <2>3, <3>1 DEF RestoreArchived
    <3>3. QED
      BY <1>2, <1>14, <3>1, <3>2
  <2>4. CASE NoCapacity(e, t) \/ LaunchFails(e, t)
    <3>1. NoStart /\ Records /\ ~Running(t)' /\ UNCHANGED status
      BY <2>2, <2>4 DEF NoCapacity, LaunchFails
    <3>2. Hands /\ NewBusy
      BY <1>7, <1>10, <2>4, <3>1 DEF NoCapacity, LaunchFails
    <3>3. QED
      BY <1>2, <1>14, <3>1, <3>2
  <2>5. QED
    BY <1>15, <2>1, <2>3, <2>4 DEF Launch
\* A step that keeps attempts and records.
<1>16. ASSUME UNCHANGED <<attempt, record>>, Hands, NewBusy PROVE ShownInv'
  BY <1>2, <1>3, <1>12, <1>14, <1>16
<1>17. ASSUME NEW e \in Engines, NEW t \in Tasks, EngineStep(e, t) PROVE ShownInv'
  <2>1. ASSUME status[t] = "ready" PROVE ~Running(t)
    BY <2>1 DEF ShownInv, AttemptShown
  <2>2. ASSUME NEW p \in Pending, engine[e] = At(p, t) PROVE ~Running(t)
    BY <2>2 DEF ShownInv
  <2>3. {"decide", "spawn", "requeue", "failing", "unwinding", "rollup", "reaping"} \subseteq Pending
    BY DEF Pending, Places
  <2>4. CASE TakeDirect(e, t)
    BY <1>15, <2>1, <2>4 DEF TakeDirect, Takes
  <2>5. CASE Spawn(e, t)
    BY <1>15, <2>2, <2>3, <2>5 DEF Spawn
  <2>6. CASE StartFails(e, t)
    <3>1. CASE Running(t) /\ LostAndSettled(t)
      <4>1. ~Running(t)' /\ NoStart /\ Hands
        <5>1. attempt'[t].state = "stopped"
          BY <1>1, <3>1 DEF LostAndSettled, AttemptRows
        <5>2. QED
          BY <1>6, <3>1, <5>1 DEF Running
      <4>2. NewBusy /\ Records
        BY <1>10, <1>12, <2>6, <4>1 DEF StartFails
      <4>3. QED
        BY <1>2, <1>14, <4>1, <4>2
    <3>2. CASE ~Running(t) /\ UNCHANGED <<budget, status, attempt>>
      <4>1. ~Running(t)' /\ Hands
        BY <1>7, <3>2 DEF Running
      <4>2. NewBusy
        BY <1>10, <2>6, <4>1 DEF StartFails
      <4>3. QED
        BY <1>16, <2>6, <3>2, <4>1, <4>2 DEF StartFails
    <3>3. QED
      BY <2>6, <3>1, <3>2 DEF StartFails
  <2>7. CASE Decompose(e, t)
    <3>1. \A u \in Tasks : status'[u] # status[u] => u = t \/ status[u] = "absent"
      BY <1>1, <2>7 DEF Decompose, Exists
    <3>2. UNCHANGED <<attempt, record>> /\ ~Running(t)
      BY <2>2, <2>3, <2>7 DEF Decompose
    <3>3. \A u \in Tasks : status[u] = "absent" => ~Running(u)
      BY DEF ShownInv, AttemptShown
    <3>4. Hands
      BY <3>1, <3>2, <3>3 DEF Hands, Running
    <3>5. NewBusy
      BY <1>9, <1>11, <2>7 DEF Decompose
    <3>6. QED
      BY <1>16, <3>2, <3>4, <3>5
  <2>8. CASE RollUpAfter(e, t)
    <3>1. Hands
      BY <1>1, <1>3, <1>13, <2>8 DEF RollUpAfter
    <3>2. NewBusy
      BY <1>9, <1>11, <2>8 DEF RollUpAfter
    <3>3. QED
      BY <1>16, <2>8, <3>1, <3>2 DEF RollUpAfter
  <2>9. ASSUME UNCHANGED <<attempt, record>>, NEW s, Show(t, s), ~Running(t), NEW p, Goto(e, p, t)
        PROVE  ShownInv'
    <3>1. ~Running(t)'
      BY <2>9 DEF Running
    <3>2. Hands /\ NewBusy
      BY <1>5, <1>10, <2>9, <3>1
    <3>3. QED
      BY <1>16, <2>9, <3>2
  <2>10. CASE TakeOrchestrated(e, t)
    BY <2>1, <2>9, <2>10 DEF TakeOrchestrated, Takes
  <2>11. CASE TemplateMissing(e, t)
    BY <2>1, <2>9, <2>11 DEF TemplateMissing, Takes
  <2>12. CASE DecisionFails(e, t) \/ FailTask(e, t) \/ Reap(e, t)
    BY <2>2, <2>3, <2>9, <2>12 DEF DecisionFails, FailTask, Reap
  <2>13. CASE SelectTemplate(e, t)
    <3>1. ~Running(t) /\ UNCHANGED <<attempt, record, status>>
      BY <2>2, <2>3, <2>13 DEF SelectTemplate
    <3>2. ~Running(t)'
      BY <3>1 DEF Running
    <3>3. NewBusy
      BY <1>10, <2>13, <3>2 DEF SelectTemplate
    <3>4. QED
      BY <1>7, <1>16, <3>1, <3>3
  <2>14. CASE Requeue(e, t)
    <3>1. ~Running(t) /\ UNCHANGED <<attempt, record>>
      BY <2>2, <2>3, <2>14 DEF Requeue
    <3>2. ~Running(t)'
      BY <3>1 DEF Running
    <3>3. Hands /\ NewBusy
      BY <1>5, <1>9, <1>11, <2>14, <3>2 DEF Requeue
    <3>4. QED
      BY <1>16, <3>1, <3>3
  <2>15. CASE Started(e, t)
    BY <1>7, <1>9, <1>11, <1>16, <2>15 DEF Started
  <2>16. QED
    BY <1>17, <2>4, <2>5, <2>6, <2>7, <2>8, <2>10, <2>11, <2>12, <2>13, <2>14, <2>15
    DEF EngineStep
<1>18. ASSUME NEW t \in Tasks, AttemptEnds(t) PROVE ShownInv'
  <2>1. CASE Lose(t)
    BY <1>2, <1>6, <1>8, <1>12, <1>14, <2>1 DEF Lose
  <2>2. ASSUME NEW outcome \in Ended, AttemptReports(t, outcome) PROVE ShownInv'
    <3>1. NoStart
      BY <1>1, <2>2 DEF AttemptReports, AttemptRows, Running, NoStart
    <3>2. QED
      BY <1>2, <1>7, <1>8, <1>12, <1>14, <2>2, <3>1 DEF AttemptReports
  <2>3. QED
    BY <1>18, <2>1, <2>2 DEF AttemptEnds
\* The workflow of an attempt that does not run moves on.
<1>19. ASSUME NEW t \in Tasks, ~Running(t), UNCHANGED <<record, engine>>, NEW s, Show(t, s),
              NEW f, attempt' = [attempt EXCEPT ![t].flow = f]
       PROVE  ShownInv'
  <2>1. NoStart /\ ~Running(t)'
    BY <1>4, <1>19
  <2>2. Hands
    BY <1>5, <1>19, <2>1
  <2>3. QED
    BY <1>2, <1>8, <1>12, <1>14, <1>19, <2>1, <2>2
<1>20. ASSUME NEW t \in Tasks, NEW valid \in BOOLEAN, Settle(t, valid) PROVE ShownInv'
  <2>1. ~Running(t)
    BY <1>20 DEF Settle, Unprojected, Running, Ended
  <2>2. QED
    BY <1>19, <1>20, <2>1 DEF Settle
<1>21. ASSUME NEW t \in Tasks, ~Running(t), NEW st \in [Tasks -> Statuses], Archive(t, st),
              UNCHANGED engine, \A u \in Tasks \ {t} : st[u] = status[u]
       PROVE  ShownInv'
  <2>1. NoStart /\ ~Running(t)'
    BY <1>4, <1>21 DEF Archive
  <2>2. Hands
    <3>1. CASE status' = RolledUp(st, t)
      BY <1>13, <1>21, <2>1, <3>1
    <3>2. CASE UNCHANGED status
      BY <1>7, <3>2
    <3>3. QED
      BY <1>21, <3>1, <3>2 DEF Archive
  <2>3. Records
    <3>1. \A u \in Tasks \ {t} : record'[u] = record[u]
      BY <1>1, <1>21 DEF Archive
    <3>2. QED
      BY <2>1, <3>1 DEF Records, Archived
  <2>4. QED
    BY <1>2, <1>8, <1>14, <1>21, <2>1, <2>2, <2>3
<1>22. ASSUME NEW t \in Tasks, WorkflowStep(t) PROVE ShownInv'
  <2>1. ASSUME attempt[t].flow # "none" PROVE ~Running(t)
    BY <2>1 DEF ReviewInv
  <2>2. ASSUME NEW n \in Numbers, <<t, n>> \in reviews \cup archiving, Current(t) = <<t, n>>
        PROVE  ~Running(t)
    BY <2>1, <2>2 DEF ReviewInv, Current, Early
  <2>3. CASE RetryFailed(t)
    BY <1>19, <2>1, <2>3 DEF RetryFailed, Retried
  <2>4. CASE ClaimReview(t)
    BY <1>19, <2>1, <2>4 DEF ClaimReview
  <2>5. CASE RecoverReview(t)
    <3> DEFINE st == [status EXCEPT ![t] = IF @ = "review" THEN "awaiting_approval" ELSE @]
    <3>1. Archive(t, st) /\ UNCHANGED engine /\ ~Running(t)
      BY <2>1, <2>5 DEF RecoverReview
    <3>2. st \in [Tasks -> Statuses] /\ \A u \in Tasks \ {t} : st[u] = status[u]
      BY <1>1 DEF Statuses
    <3> HIDE DEF st
    <3>3. QED
      BY <1>21, <3>1, <3>2
  <2>6. CASE ArchiveNow(t)
    BY <1>1, <1>21, <2>1, <2>6 DEF ArchiveNow
  <2>7. ASSUME NEW n \in Numbers, NEW verdict \in Verdicts, ReviewAnswers(t, n, verdict)
        PROVE  ShownInv'
    <3>1. ~Running(t)
      BY <2>2, <2>7 DEF ReviewAnswers
    <3>2. QED
      BY <1>19, <2>7, <3>1 DEF ReviewAnswers, Reviewed, Retried
  <2>8. ASSUME NEW n \in Numbers, ReviewSuperseded(t, n) PROVE ShownInv'
    <3>1. NoStart
      BY <1>3, <1>4, <2>8 DEF ReviewSuperseded
    <3>2. QED
      BY <1>2, <1>7, <1>8, <1>12, <1>14, <2>8, <3>1 DEF ReviewSuperseded
  <2>9. ASSUME NEW n \in Numbers, FinishReview(t, n) PROVE ShownInv'
    <3>1. CASE Current(t) = <<t, n>> /\ Archive(t, status)
      <4>1. ~Running(t)
        BY <2>2, <2>9, <3>1 DEF FinishReview
      <4>2. QED
        BY <1>1, <1>21, <2>9, <3>1, <4>1 DEF FinishReview
    <3>2. CASE UNCHANGED <<status, attempt, record, budget>>
      BY <1>7, <1>8, <1>16, <2>9, <3>2 DEF FinishReview
    <3>3. QED
      BY <2>9, <3>1, <3>2 DEF FinishReview
  <2>10. QED
    BY <1>22, <2>3, <2>4, <2>5, <2>6, <2>7, <2>8, <2>9 DEF WorkflowStep, ReviewStep
<1>23. ASSUME NEW t \in Tasks, ~Running(t), NEW s, Show(t, s), UNCHANGED <<attempt, engine>>,
              \A u \in Tasks \ {t} : record'[u] = record[u]
       PROVE  ShownInv'
  <2>1. ~Running(t)'
    BY <1>23 DEF Running
  <2>2. Records
    BY <1>23, <2>1 DEF Records, Archived
  <2>3. QED
    BY <1>2, <1>3, <1>5, <1>8, <1>14, <1>23, <2>1, <2>2
<1>24. ASSUME NEW t \in Tasks, UNCHANGED <<status, attempt, engine>>,
              \/ Recorded(t)
              \/ UNCHANGED record
              \/ Archived(t) /\ \E s \in Statuses : record' = [record EXCEPT ![t].final = s]
       PROVE  ShownInv'
  <2>1. CASE ~Running(t)
    <3>1. Show(t, status[t])
      BY <1>1, <1>24 DEF Show
    <3>2. \A u \in Tasks \ {t} : record'[u] = record[u]
      BY <1>1, <1>24 DEF Recorded
    <3>3. QED
      BY <1>23, <1>24, <2>1, <3>1, <3>2
  <2>2. CASE Running(t)
    <3>1. UNCHANGED record
      BY <1>24, <2>2 DEF Recorded, ShownInv
    <3>2. QED
      BY <1>7, <1>8, <1>16, <1>24, <3>1
  <2>3. QED
    BY <2>1, <2>2
<1>25. ASSUME NEW t \in Tasks, UserStep(t) PROVE ShownInv'
  <2>1. CASE StartTask(t)
    BY <1>23, <2>1 DEF StartTask
  <2>2. ASSUME NEW s \in PatchStatuses, PatchStatus(t, s) PROVE ShownInv'
    BY <1>23, <2>2 DEF PatchStatus
  <2>3. CASE RejectTask(t)
    <3>1. ~Running(t)
      BY <2>3 DEF RejectTask, ShownInv, AttemptShown
    <3>2. \A u \in Tasks \ {t} : record'[u] = record[u]
      BY <1>1, <2>3 DEF RejectTask
    <3>3. QED
      BY <1>23, <2>3, <3>1, <3>2 DEF RejectTask
  <2>4. CASE EvaluateTask(t)
    BY <1>24, <2>4 DEF EvaluateTask
  <2>4a. ASSUME NEW m \in Modes, PatchMode(t, m) PROVE ShownInv'
    BY <1>24, <2>4a DEF PatchMode
  <2>5. ~ApproveReads(t) /\ ~ApproveWrites(t)
    BY DEF ApproveReads, ApproveWrites, Asks, ShownInv
  <2>6. QED
    BY <1>25, <2>1, <2>2, <2>3, <2>4, <2>4a, <2>5 DEF UserStep
<1>26. ASSUME NEW t \in Tasks, BackfillBuilds(t) PROVE ShownInv'
  BY <1>24, <1>26 DEF BackfillBuilds
<1>27. ASSUME NEW t \in Tasks, BackfillReconciles(t) PROVE ShownInv'
  <2>1. status[t] \in Statuses /\ Archived(t) /\ UNCHANGED <<status, attempt, engine>>
        /\ record' = [record EXCEPT ![t].final = status[t]]
    BY <1>1, <1>27 DEF BackfillReconciles
  <2>2. QED
    BY <1>24, <2>1
<1>28. CASE Crash
  <2>1. NewBusy
    BY <1>11, <1>28 DEF Crash, NewBusy, Idle, At
  <2>2. QED
    BY <1>7, <1>16, <1>28, <2>1 DEF Crash
<1>29. CASE BackfillSelects \/ UNCHANGED vars
  BY <1>7, <1>8, <1>16, <1>29 DEF BackfillSelects, vars
<1>30. ASSUME NEW e \in Engines, NEW t \in Tasks, TimesOut(e, t) PROVE ShownInv'
  <2>1. ~Running(t) /\ UNCHANGED <<status, attempt, record>>
    BY <1>30, AttemptNumber, TaskAssumption DEF TimesOut, Running, Numbers
  <2>2. ~Running(t)'
    BY <2>1 DEF Running
  <2>3. NewBusy
    BY <1>10, <1>30, <2>2 DEF TimesOut
  <2>4. QED
    BY <1>7, <1>16, <2>1, <2>3
<1>31. QED
  BY <1>17, <1>18, <1>20, <1>22, <1>25, <1>26, <1>27, <1>28, <1>29, <1>30 DEF Next

\* No execution runs behind the back of the user: while an attempt runs its task says
\* in_progress, and every execution after the first was asked for by a counted retry or
\* by a user (_spawn_sdk_task, launch_attempt, continue_workflow).  Proved of one loop,
\* without the approval that takes no lock, for one task or without the requests that
\* start a parent again.
THEOREM NothingHidden ==
  ASSUME OneLoop, "approve" \notin UserOps, Steady
  PROVE  Spec => []NoHiddenExecution
<1> DEFINE All == TypeInv /\ RowsExist /\ ReviewInv /\ ParentsInv /\ AskedInv /\ ShownInv
<1>1. Init => All
  <2> SUFFICES ASSUME Init PROVE All
    OBVIOUS
  <2>1. TypeInv /\ ParentsInv
    BY TypeInit, ParentsInit
  <2>2. RowsExist
    BY TaskAssumption DEF Init, RowsExist, Archived, NoAttempt
  <2>3. ReviewInv
    BY DEF Init, ReviewInv, Running, NoAttempt
  <2>4. AskedInv
    BY DEF Init, AskedInv, AttemptsAskedFor, Covered, NoAttempt, Idle, At, Held
  <2>5. ShownInv
    BY DEF Init, ShownInv, AttemptShown, Running, NoAttempt
  <2>6. QED
    BY <2>1, <2>2, <2>3, <2>4, <2>5
<1>2. All /\ [Next]_vars => All'
  BY TypeStep, ExistStep, ReviewStepKept, ParentsStep, AskedStep, ShownStep
<1>3. All => NoHiddenExecution
  BY DEF AskedInv, ShownInv, NoHiddenExecution
<1>4. QED
  BY <1>1, <1>2, <1>3, PTL DEF Spec

-----------------------------------------------------------------------------
(* The owner decides.                                                      *)

\* What an archived done would be restored as was approved, too.
OwnerInv ==
  /\ selected = {}
  /\ OwnerDecides
  /\ \A t \in Tasks :
       Archived(t) /\ record[t].final = "done" /\ attempt[t].mode = "orchestrated" =>
         history[t].approved

\* Only the backfill changes what it has selected.
LEMMA SelectionStays ==
  ASSUME [Next]_vars, ~BackfillSelects, \A t \in Tasks : ~BackfillBuilds(t)
  PROVE  UNCHANGED selected
<1> USE DEF sideVars
<1>1. ASSUME NEW e \in Engines, NEW t \in Tasks, Launch(e, t) PROVE UNCHANGED selected
  BY <1>1 DEF Launch, RestoreArchived, CreateAttempt, NoCapacity, LaunchFails
<1>2. ASSUME NEW e \in Engines, NEW t \in Tasks, EngineStep(e, t) \/ TimesOut(e, t)
      PROVE  UNCHANGED selected
  BY <1>1, <1>2
  DEF EngineStep, TimesOut, TakeDirect, TakeOrchestrated, TemplateMissing, Decompose,
      SelectTemplate, DecisionFails, Spawn, Requeue, Started, StartFails, FailTask, RollUpAfter,
      Reap
<1>3. ASSUME NEW t \in Tasks, AttemptEnds(t) PROVE UNCHANGED selected
  BY <1>3 DEF AttemptEnds, AttemptReports, Lose
<1>4. ASSUME NEW t \in Tasks, WorkflowStep(t) PROVE UNCHANGED selected
  BY <1>4
  DEF WorkflowStep, RetryFailed, ClaimReview, RecoverReview, ArchiveNow, ReviewStep,
      ReviewAnswers, ReviewSuperseded, FinishReview
<1>5. ASSUME NEW t \in Tasks, UserStep(t) PROVE UNCHANGED selected
  BY <1>5 DEF UserStep, StartTask, PatchStatus, PatchMode, RejectTask, ApproveReads, ApproveWrites,
      EvaluateTask
<1>6. ASSUME NEW t \in Tasks, NEW valid \in BOOLEAN, Settle(t, valid) PROVE UNCHANGED selected
  BY <1>6 DEF Settle
<1>7. ASSUME NEW t \in Tasks, BackfillReconciles(t)
      PROVE  UNCHANGED selected
  BY <1>7 DEF BackfillReconciles
<1>8. CASE Crash \/ UNCHANGED vars
  BY <1>8 DEF Crash, vars
<1>9. QED
  BY <1>2, <1>3, <1>4, <1>5, <1>6, <1>7, <1>8 DEF Next

\* Every action but a status write or a backfill leaves the decision to the owner.
LEMMA OwnerStep ==
  ASSUME UserOps \cap {"patch", "evaluate", "backfill"} = {},
         TypeInv, ReviewInv, ParentsInv, OwnerInv, [Next]_vars
  PROVE  OwnerInv'
<1> USE DEF taskVars, sideVars
<1>1. /\ attempt \in [Tasks -> AttemptRows]
      /\ status \in [Tasks -> Statuses]
      /\ record \in [Tasks -> {NoRecord} \cup [attempt : 0 .. MaxAttempts, final : Statuses]]
      /\ history \in [Tasks -> Histories]
  BY TaskAssumption DEF TypeInv, WorkflowTypeOK
\* No attempt is created; nothing is shown, or archived, as done that was not.
<1> DEFINE SameModes == \A u \in Tasks : attempt'[u].mode = attempt[u].mode
           Approvals == \A u \in Tasks : history[u].approved => history'[u].approved
           Shows == \A u \in Tasks :
                      status'[u] = "done" /\ attempt[u].mode = "orchestrated" =>
                        \/ status[u] = "done" /\ (attempt[u].flow = "pending" => attempt'[u].flow = "pending")
                        \/ history'[u].approved
                        \/ attempt'[u].flow = "pending"
           Records == \A u \in Tasks :
                        Archived(u)' /\ record'[u].final = "done" /\ attempt[u].mode = "orchestrated" =>
                          \/ Archived(u) /\ record[u].final = "done"
                          \/ history[u].approved
<1>2. ASSUME selected' = {}, SameModes, Approvals, Shows, Records PROVE OwnerInv'
  <2>1. OwnerDecides'
    BY <1>2 DEF OwnerInv, OwnerDecides
  <2>2. QED
    BY <1>2, <2>1 DEF OwnerInv
<1>3. ASSUME UNCHANGED attempt PROVE SameModes
  BY <1>3
<1>4. ASSUME NEW t \in Tasks, NEW f, attempt' = [attempt EXCEPT ![t].flow = f]
      PROVE  /\ SameModes
             /\ attempt'[t].flow = f
             /\ \A u \in Tasks \ {t} : attempt'[u] = attempt[u]
  BY <1>1, <1>4 DEF AttemptRows
<1>5. ASSUME NEW t \in Tasks, NEW s, s # "done", Show(t, s),
             \A u \in Tasks \ {t} : attempt'[u] = attempt[u]
      PROVE  Shows
  BY <1>1, <1>5 DEF Show
<1>6. ASSUME UNCHANGED <<attempt, status>> PROVE Shows
  BY <1>6
<1>7. ASSUME UNCHANGED record PROVE Records
  BY <1>7 DEF Archived
<1>8. ASSUME UNCHANGED history \/ \E t \in Tasks : AskAgain(t) PROVE Approvals
  BY <1>1, <1>8 DEF AskAgain, Histories
<1>9. ASSUME NEW t \in Tasks, LostAndSettled(t) PROVE SameModes /\ Shows
  <2>1. SameModes /\ \A u \in Tasks \ {t} : attempt'[u] = attempt[u]
    BY <1>1, <1>9 DEF LostAndSettled, AttemptRows
  <2>2. QED
    BY <1>5, <1>9, <2>1 DEF LostAndSettled
\* A parent, which rolling up may show as done, has not been launched.
<1>10. ASSUME NEW st \in [Tasks -> Statuses], NEW t \in Tasks, NEW u \in Tasks,
              RolledUp(st, t)[u] # st[u]
       PROVE  attempt[u].mode # "orchestrated"
  <2>1. u = tree[t].parent
    BY <1>10, RolledUpShows
  <2>2. Children(u) # {}
    BY <2>1 DEF Children
  <2>3. attempt[u].n = 0
    BY <2>2, ParentsRest
  <2>4. QED
    BY <2>3 DEF TypeInv, Numbered, NoAttempt
<1>11. selected' = {}
  <2>1. ASSUME NEW t \in Tasks PROVE ~BackfillBuilds(t)
    BY DEF BackfillBuilds, OwnerInv
  <2>2. ~BackfillSelects
    BY DEF BackfillSelects
  <2>3. QED
    BY <2>1, <2>2, SelectionStays DEF OwnerInv
<1> HIDE DEF SameModes, Approvals, Shows, Records
\* A step that keeps attempts, records and history.
<1>12. ASSUME UNCHANGED <<attempt, record, history>>, Shows PROVE OwnerInv'
  BY <1>2, <1>3, <1>7, <1>8, <1>11, <1>12
<1>13. ASSUME NEW t \in Tasks, NEW s, s # "done", Show(t, s), UNCHANGED <<attempt, record>>,
              UNCHANGED history \/ AskAgain(t)
       PROVE  OwnerInv'
  BY <1>2, <1>3, <1>5, <1>7, <1>8, <1>11, <1>13
<1>14. ASSUME NEW e \in Engines, NEW t \in Tasks, Launch(e, t) PROVE OwnerInv'
  <2>1. CASE RestoreArchived(e, t)
    <3>1. /\ \A u \in Tasks \ {t} : status'[u] = status[u]
          /\ status'[t] = record[t].final /\ Archived(t) /\ UNCHANGED <<attempt, record, history>>
      BY <1>1, <2>1 DEF RestoreArchived, Show
    <3>2. Shows
      BY <3>1 DEF Shows, OwnerInv
    <3>3. QED
      BY <1>12, <3>1, <3>2
  <2>2. CASE CreateAttempt(e, t)
    <3>1. /\ \A u \in Tasks \ {t} : attempt'[u] = attempt[u] /\ status'[u] = status[u]
          /\ status'[t] = "in_progress" /\ UNCHANGED record /\ ~Archived(t)
          /\ \A u \in Tasks : history'[u].approved = history[u].approved
      BY <1>1, <2>2 DEF CreateAttempt, Show, Histories
    <3>2. OwnerDecides'
      BY <3>1 DEF OwnerInv, OwnerDecides
    <3>3. QED
      BY <1>11, <3>1, <3>2 DEF OwnerInv, Archived
  <2>3. CASE NoCapacity(e, t) \/ LaunchFails(e, t)
    BY <1>6, <1>12, <2>3 DEF NoCapacity, LaunchFails
  <2>4. QED
    BY <1>14, <2>1, <2>2, <2>3 DEF Launch
<1>15. ASSUME NEW e \in Engines, NEW t \in Tasks, EngineStep(e, t) \/ TimesOut(e, t)
       PROVE  OwnerInv'
  <2>1. CASE TakeDirect(e, t) \/ Spawn(e, t)
    BY <1>14, <2>1 DEF TakeDirect, Spawn
  <2>2. CASE StartFails(e, t)
    <3>1. SameModes /\ Shows
      BY <1>3, <1>6, <1>9, <2>2 DEF StartFails
    <3>2. QED
      BY <1>2, <1>7, <1>8, <1>11, <2>2, <3>1 DEF StartFails
  <2>3. CASE Decompose(e, t)
    <3>1. \A u \in Tasks : status'[u] = "done" => status[u] = "done"
      BY <1>1, <2>3 DEF Decompose
    <3>2. UNCHANGED <<attempt, record, history>>
      BY <2>3 DEF Decompose
    <3>3. QED
      BY <1>12, <3>1, <3>2 DEF Shows
  <2>4. CASE RollUpAfter(e, t)
    <3>1. Shows
      BY <1>1, <1>10, <2>4 DEF RollUpAfter, Shows
    <3>2. QED
      BY <1>12, <2>4, <3>1 DEF RollUpAfter
  <2>5. CASE \/ TakeOrchestrated(e, t) \/ TemplateMissing(e, t) \/ DecisionFails(e, t)
             \/ Requeue(e, t) \/ FailTask(e, t) \/ Reap(e, t)
    BY <1>13, <2>5
    DEF TakeOrchestrated, TemplateMissing, DecisionFails, Requeue, FailTask, Reap
  <2>6. CASE SelectTemplate(e, t) \/ Started(e, t) \/ TimesOut(e, t)
    BY <1>6, <1>12, <2>6 DEF SelectTemplate, Started, TimesOut
  <2>7. QED
    BY <1>15, <2>1, <2>2, <2>3, <2>4, <2>5, <2>6 DEF EngineStep
<1>16. ASSUME NEW t \in Tasks, AttemptEnds(t) PROVE OwnerInv'
  <2>1. CASE Lose(t)
    BY <1>2, <1>7, <1>8, <1>9, <1>11, <2>1 DEF Lose
  <2>2. ASSUME NEW outcome \in Ended, AttemptReports(t, outcome) PROVE OwnerInv'
    <3>1. SameModes /\ \A u \in Tasks : attempt'[u].flow = attempt[u].flow
      BY <1>1, <2>2 DEF AttemptReports, AttemptRows, SameModes
    <3>2. Shows
      BY <2>2, <3>1 DEF Shows, AttemptReports
    <3>3. QED
      BY <1>2, <1>7, <1>8, <1>11, <2>2, <3>1, <3>2 DEF AttemptReports
  <2>3. QED
    BY <1>16, <2>1, <2>2 DEF AttemptEnds
<1>17. ASSUME NEW t \in Tasks, NEW valid \in BOOLEAN, Settle(t, valid) PROVE OwnerInv'
  <2>1. /\ SameModes /\ attempt'[t].flow = "pending"
        /\ \A u \in Tasks \ {t} : attempt'[u] = attempt[u] /\ status'[u] = status[u]
    BY <1>1, <1>4, <1>17 DEF Settle, Show
  <2>2. Shows
    BY <2>1 DEF Shows
  <2>3. QED
    BY <1>2, <1>7, <1>8, <1>11, <1>17, <2>1, <2>2 DEF Settle
<1>18. ASSUME NEW t \in Tasks, NEW s, s # "done", Show(t, s), NEW f,
              attempt' = [attempt EXCEPT ![t].flow = f],
              UNCHANGED record, Approvals
       PROVE  OwnerInv'
  BY <1>2, <1>4, <1>5, <1>7, <1>11, <1>18
\* What is archived as done is approved, if it had a reviewer.
<1>19. ASSUME NEW t \in Tasks, NEW st \in [Tasks -> Statuses], Archive(t, st),
              UNCHANGED history, \A u \in Tasks : st[u] = "done" => status[u] = "done",
              status[t] = "done" /\ attempt[t].mode = "orchestrated" => history[t].approved
       PROVE  OwnerInv'
  <2>1. SameModes /\ \A u \in Tasks \ {t} : attempt'[u] = attempt[u]
    BY <1>4, <1>19 DEF Archive
  <2>2. Shows
    <3>1. CASE status' = RolledUp(st, t)
      <4>1. ASSUME NEW u \in Tasks, status'[u] = "done", attempt[u].mode = "orchestrated"
            PROVE  status[u] = "done"
        BY <1>10, <1>19, <3>1, <4>1
      <4>2. QED
        BY <1>19, <2>1, <4>1 DEF Shows
    <3>2. CASE UNCHANGED status
      BY <1>19, <2>1, <3>2 DEF Shows
    <3>3. QED
      BY <1>19, <3>1, <3>2 DEF Archive
  <2>3. Records
    <3>1. \A u \in Tasks : record'[u] = record[u] \/ (u = t /\ record'[u].final = st[t])
      BY <1>1, <1>19 DEF Archive
    <3>2. QED
      BY <1>19, <3>1 DEF Records, Archived
  <2>4. QED
    BY <1>2, <1>8, <1>11, <1>19, <2>1, <2>2, <2>3
<1>20. ASSUME NEW t \in Tasks, WorkflowStep(t) PROVE OwnerInv'
  <2>1. ASSUME attempt[t].flow # "pending", status[t] = "done", attempt[t].mode = "orchestrated"
        PROVE  history[t].approved
    BY <2>1 DEF OwnerInv, OwnerDecides
  <2>2. ASSUME NEW n \in Numbers, <<t, n>> \in reviews \cup archiving, Current(t) = <<t, n>>
        PROVE  attempt[t].flow # "pending"
    BY <2>2 DEF ReviewInv, Current, Early
  <2>3. CASE RetryFailed(t)
    <3>1. Approvals
      BY <1>8, <2>3 DEF RetryFailed
    <3>2. QED
      BY <1>18, <2>3, <3>1 DEF RetryFailed, Retried
  <2>4. CASE ClaimReview(t)
    <3>1. Approvals
      BY <1>1, <2>4 DEF ClaimReview, Approvals, Histories
    <3>2. QED
      BY <1>18, <2>4, <3>1 DEF ClaimReview
  <2>5. CASE RecoverReview(t)
    <3> DEFINE st == [status EXCEPT ![t] = IF @ = "review" THEN "awaiting_approval" ELSE @]
    <3>1. Archive(t, st) /\ UNCHANGED history /\ attempt[t].flow # "pending"
      BY <2>5 DEF RecoverReview
    <3>2. st \in [Tasks -> Statuses] /\ \A u \in Tasks : st[u] = "done" => status[u] = "done"
      BY <1>1 DEF Statuses
    <3> HIDE DEF st
    <3>3. QED
      BY <1>19, <2>1, <3>1, <3>2
  <2>6. CASE ArchiveNow(t)
    <3>1. Archive(t, status) /\ UNCHANGED history
      BY <2>6 DEF ArchiveNow
    <3>2. status[t] = "done" /\ attempt[t].mode = "orchestrated" => history[t].approved
      BY <2>1, <2>6 DEF ArchiveNow, ReviewDue
    <3>3. QED
      BY <1>1, <1>19, <3>1, <3>2
  <2>7. ASSUME NEW n \in Numbers, NEW verdict \in Verdicts, ReviewAnswers(t, n, verdict)
        PROVE  OwnerInv'
    <3>1. Approvals
      BY <1>8, <2>7 DEF ReviewAnswers
    <3>2. QED
      BY <1>18, <2>7, <3>1 DEF ReviewAnswers, Reviewed, Retried
  <2>8. ASSUME NEW n \in Numbers, ReviewSuperseded(t, n) PROVE OwnerInv'
    <3>1. CASE UNCHANGED attempt
      BY <1>6, <1>12, <2>8, <3>1 DEF ReviewSuperseded
    <3>2. CASE /\ Current(t) = <<t, n>>
               /\ attempt' = [attempt EXCEPT ![t].flow = "superseded"]
      <4>1. attempt[t].flow # "pending"
        BY <2>2, <2>8, <3>2 DEF ReviewSuperseded
      <4>2. Shows
        BY <1>4, <2>8, <3>2, <4>1 DEF ReviewSuperseded, Shows
      <4>3. QED
        BY <1>2, <1>4, <1>7, <1>8, <1>11, <2>8, <3>2, <4>2 DEF ReviewSuperseded
    <3>3. QED
      BY <2>8, <3>1, <3>2 DEF ReviewSuperseded
  <2>9. ASSUME NEW n \in Numbers, FinishReview(t, n) PROVE OwnerInv'
    <3>1. CASE Current(t) = <<t, n>> /\ Archive(t, status)
      <4>1. attempt[t].flow # "pending"
        BY <2>2, <2>9, <3>1 DEF FinishReview
      <4>2. QED
        BY <1>1, <1>19, <2>1, <2>9, <3>1, <4>1 DEF FinishReview
    <3>2. CASE UNCHANGED <<status, attempt, record, budget>>
      BY <1>6, <1>12, <2>9, <3>2 DEF FinishReview
    <3>3. QED
      BY <2>9, <3>1, <3>2 DEF FinishReview
  <2>10. QED
    BY <1>20, <2>3, <2>4, <2>5, <2>6, <2>7, <2>8, <2>9 DEF WorkflowStep, ReviewStep
<1>21. ASSUME NEW t \in Tasks, UserStep(t) PROVE OwnerInv'
  <2>1. CASE StartTask(t)
    BY <1>13, <2>1 DEF StartTask
  <2>2. CASE RejectTask(t)
    <3>1. CASE Show(t, "ready") /\ AskAgain(t) /\ UNCHANGED record
      BY <1>13, <2>2, <3>1 DEF RejectTask
    <3>2. CASE /\ Archived(t) /\ Show(t, "failed") /\ UNCHANGED history
               /\ record' = [record EXCEPT ![t].final = "failed"]
      <4>1. record[t] \in [attempt : 0 .. MaxAttempts, final : Statuses]
        BY <1>1, <3>2 DEF Archived
      <4>2. \A u \in Tasks : record'[u] = record[u] \/ (u = t /\ record'[u].final = "failed")
        BY <1>1, <3>2, <4>1
      <4>3. Records
        BY <4>2 DEF Records, Archived
      <4>4. Shows
        BY <1>5, <2>2, <3>2 DEF RejectTask
      <4>5. QED
        BY <1>2, <1>3, <1>8, <1>11, <2>2, <3>2, <4>3, <4>4 DEF RejectTask
    <3>3. QED
      BY <2>2, <3>1, <3>2 DEF RejectTask
  <2>3. CASE ApproveWrites(t)
    <3>1. Approvals /\ history'[t].approved
      BY <1>1, <2>3 DEF ApproveWrites, Approvals, Histories
    <3>2. Shows
      BY <1>1, <2>3, <3>1 DEF ApproveWrites, Show, Shows
    <3>3. QED
      BY <1>2, <1>3, <1>7, <1>11, <2>3, <3>1, <3>2 DEF ApproveWrites
  <2>4. CASE ApproveReads(t)
    BY <1>6, <1>12, <2>4 DEF ApproveReads
  <2>5. ASSUME NEW m \in Modes, PatchMode(t, m) PROVE OwnerInv'
    BY <1>6, <1>12, <2>5 DEF PatchMode
  <2>6. ~EvaluateTask(t) /\ ~\E s \in PatchStatuses : PatchStatus(t, s)
    BY DEF EvaluateTask, PatchStatus, Asks
  <2>7. QED
    BY <1>21, <2>1, <2>2, <2>3, <2>4, <2>5, <2>6 DEF UserStep
<1>22. ASSUME NEW t \in Tasks PROVE ~BackfillBuilds(t) /\ ~BackfillReconciles(t)
  BY DEF BackfillBuilds, BackfillReconciles, OwnerInv
<1>23. ~BackfillSelects
  BY DEF BackfillSelects
<1>24. CASE Crash \/ UNCHANGED vars
  BY <1>6, <1>12, <1>24 DEF Crash, vars
<1>25. QED
  BY <1>15, <1>16, <1>17, <1>20, <1>21, <1>22, <1>23, <1>24 DEF Next

\* With the reviewer in charge only the owner's approval ends a task as done: no review,
\* retry, archive or restored result does it (continue_workflow, approve_task).  Proved
\* without the requests that write a status or build a record, and with parents at rest.
THEOREM OwnerHasTheLastWord ==
  ASSUME UserOps \cap {"patch", "evaluate", "backfill"} = {}, Steady
  PROVE  Spec => []OwnerDecides
<1> DEFINE All == TypeInv /\ RowsExist /\ ReviewInv /\ ParentsInv /\ OwnerInv
<1>1. Init => All
  <2> SUFFICES ASSUME Init PROVE All
    OBVIOUS
  <2>1. TypeInv /\ ParentsInv
    BY TypeInit, ParentsInit
  <2>2. RowsExist
    BY TaskAssumption DEF Init, RowsExist, Archived, NoAttempt
  <2>3. ReviewInv
    BY DEF Init, ReviewInv, Running, NoAttempt
  <2>4. OwnerInv
    BY DEF Init, OwnerInv, OwnerDecides, Archived, NoAttempt
  <2>5. QED
    BY <2>1, <2>2, <2>3, <2>4
<1>2. All /\ [Next]_vars => All'
  BY TypeStep, ExistStep, ReviewStepKept, ParentsStep, OwnerStep
<1>3. All => OwnerDecides
  BY DEF OwnerInv
<1>4. QED
  BY <1>1, <1>2, <1>3, PTL DEF Spec

-----------------------------------------------------------------------------
(* Families.                                                               *)

\* No reviewer is in charge, and nobody but the scheduler's backfill asks for anything.
Unreviewed == Modes = {"benchmark"} /\ UserOps \subseteq {"backfill"}

\* A task nobody worked on yet.
New == {"absent", "ready", "decomposing"}

\* Where an engine holds a task whose status says so.
Holding == {"decide", "spawn", "requeue", "failing"}

\* What the status of a task says of its attempt, of its children and of its
\* dependencies: before its launch it has neither, then it has one of the two.
TaskPlace(t) ==
  /\ mode[t] = "benchmark" /\ attempt[t].mode # "orchestrated"
  /\ status[t] \in New \cup {"in_progress"} \cup Finished
  /\ attempt[t].flow \in {"none", "pending", "archive_pending", "archived"}
  /\ Running(t) => attempt[t].flow = "none"
  /\ status[t] \in New => attempt[t].n = 0 /\ Children(t) = {}
  /\ status[t] = "in_progress" /\ attempt[t].n = 0 => Children(t) # {}
  /\ attempt[t].n # 0 => Children(t) = {} /\ (status[t] = "in_progress" <=> attempt[t].flow = "none")
  /\ status[t] \notin {"absent", "ready"} => DependenciesDone(t)
  /\ Archived(t) \/ t \in selected => status[t] \in Finished

\* Children are leaves with a row, and depend on children.
TreePlace(t) ==
  /\ status[t] = "absent" => tree[t] = [parent |-> NoTask, deps |-> {}]
  /\ tree[t].parent # NoTask => Children(t) = {}
  /\ \A d \in tree[t].deps : tree[d].parent # NoTask

\* What the place of an engine says of the task it is at.
EnginePlace(e, t) ==
  /\ \A p \in Holding : engine[e] = At(p, t) => status[t] = "decomposing"
  /\ engine[e] = At("starting", t) => attempt[t].n # 0 /\ (Running(t) \/ status[t] = "failed")
  /\ engine[e] = At("unwinding", t) => attempt[t].n # 0 /\ status[t] = "failed"
  /\ engine[e] = At("rollup", t) => status[t] \in Finished
  /\ engine[e] = At("reaping", t) => Children(t) # {}

HeldOnce ==
  \A e, f \in Engines, t \in Tasks, p, q \in Holding :
    engine[e] = At(p, t) /\ engine[f] = At(q, t) => e = f

HouseInv ==
  /\ reviews = {} /\ archiving = {} /\ approving = {}
  /\ \A t \in Tasks : TaskPlace(t)
  /\ \A t \in Tasks : TreePlace(t)
  /\ \A e \in Engines, t \in Tasks : EnginePlace(e, t)
  /\ HeldOnce
  /\ ParentDoneTruly
  /\ MaxCrashes = 0 => ParentNotForgotten

\* The ways in which the row of a task may change in one step of such a system.
Moves(t) ==
  \/ /\ attempt'[t] = attempt[t]
     /\ \/ status'[t] = status[t]
        \/ status[t] = "ready" /\ status'[t] = "decomposing" /\ DependenciesDone(t)
        \/ status[t] = "decomposing" /\ status'[t] = "ready"
        \/ /\ status[t] \in {"ready", "decomposing"} /\ DependenciesDone(t)
           /\ status'[t] = "failed"
        \/ Children(t) # {} /\ status'[t] = "failed"
        \/ /\ Children(t) # {} /\ \A c \in Children(t) : status[c] = "done"
           /\ status'[t] = "done"
  \/ /\ status[t] = "decomposing" /\ status'[t] = "in_progress"
     /\ attempt'[t].n # 0 /\ attempt'[t].mode = "benchmark"
     /\ attempt'[t].state = "active" /\ attempt'[t].flow = "none"
  \/ /\ attempt[t].n # 0 /\ attempt'[t].n = attempt[t].n /\ attempt'[t].mode = attempt[t].mode
     /\ \/ /\ Running(t) /\ attempt'[t].state # "active"
           /\ status'[t] = status[t] /\ attempt'[t].flow = attempt[t].flow
        \/ /\ status[t] = "in_progress" /\ status'[t] \in Finished
           /\ attempt'[t].state # "active" /\ attempt'[t].flow = "pending"
        \/ /\ attempt[t].flow \in {"pending", "archive_pending"}
           /\ status'[t] = status[t] /\ attempt'[t].state = attempt[t].state
           /\ attempt'[t].flow \in {"archive_pending", "archived"}

\* Nothing happens to a finished child but its archiving.
LEMMA ChildRests ==
  ASSUME HouseInv, NEW d \in Tasks, tree[d].parent # NoTask, status[d] = "done", Moves(d)
  PROVE  status'[d] = "done"
<1>1. TaskPlace(d) /\ TreePlace(d)
  BY DEF HouseInv
<1>2. QED
  BY <1>1 DEF TaskPlace, TreePlace, Moves, Running, Finished, New

\* What is finished stays finished.
LEMMA FinishedRests ==
  ASSUME HouseInv, NEW t \in Tasks, status[t] \in Finished, Moves(t)
  PROVE  status'[t] \in Finished
<1>1. TaskPlace(t)
  BY DEF HouseInv
<1>2. QED
  BY <1>1 DEF TaskPlace, Moves, Running, Finished, New

\* Moves keep what the status says.
LEMMA TaskKept ==
  ASSUME TypeInv, HouseInv, tree' = tree, mode' = mode, \A t \in Tasks : Moves(t),
         \A t \in Tasks :
           Archived(t)' \/ t \in selected' => Archived(t) \/ t \in selected \/ status[t] \in Finished
  PROVE  \A t \in Tasks : TaskPlace(t)'
<1>1. SUFFICES ASSUME NEW t \in Tasks
               PROVE  TaskPlace(t)'
  OBVIOUS
<1>2. TaskPlace(t) /\ TreePlace(t) /\ Moves(t) /\ Children(t)' = Children(t)
  BY DEF HouseInv, Children
<1>3. \A d \in tree[t].deps : d \in Tasks
  BY DEF TypeInv, WorkflowTypeOK
<1>4. DependenciesDone(t) => DependenciesDone(t)'
  BY <1>2, <1>3, ChildRests DEF DependenciesDone, TreePlace
<1>5. Archived(t)' \/ t \in selected' => status'[t] \in Finished
  BY <1>2, FinishedRests DEF TaskPlace
<1>6. attempt[t].n = 0 => attempt[t].flow = "none" /\ attempt[t].state = "none"
  BY DEF TypeInv, Numbered, NoAttempt
<1>7. mode'[t] = "benchmark" /\ attempt'[t].mode # "orchestrated"
  BY <1>2 DEF TaskPlace, Moves
<1>8. /\ status'[t] \in New \cup {"in_progress"} \cup Finished
      /\ attempt'[t].flow \in {"none", "pending", "archive_pending", "archived"}
  BY <1>2 DEF TaskPlace, Moves, New, Finished
<1>9. Running(t)' => attempt'[t].flow = "none"
  BY <1>2, <1>6 DEF TaskPlace, Moves, Running
<1>10. status'[t] \in New => attempt'[t].n = 0 /\ Children(t)' = {}
  BY <1>2 DEF TaskPlace, Moves, New, Finished, Running
<1>11. status'[t] = "in_progress" /\ attempt'[t].n = 0 => Children(t)' # {}
  BY <1>2 DEF TaskPlace, Moves, Finished, Running
<1>12. attempt'[t].n # 0 =>
         Children(t)' = {} /\ (status'[t] = "in_progress" <=> attempt'[t].flow = "none")
  BY <1>2, <1>6 DEF TaskPlace, Moves, New, Finished, Running
<1>13. status'[t] \notin {"absent", "ready"} => DependenciesDone(t)'
  <2>1. status'[t] \notin {"absent", "ready"} => DependenciesDone(t)
    BY <1>2 DEF TaskPlace, Moves, New, Finished, Running
  <2>2. QED
    BY <2>1, <1>4
<1>14. QED
  BY <1>5, <1>7, <1>8, <1>9, <1>10, <1>11, <1>12, <1>13 DEF TaskPlace, Running

\* Moves keep the shape of the tree.
LEMMA TreeKept ==
  ASSUME TypeInv, HouseInv, tree' = tree, \A t \in Tasks : Moves(t)
  PROVE  \A t \in Tasks : TreePlace(t)'
<1>1. SUFFICES ASSUME NEW t \in Tasks
               PROVE  TreePlace(t)'
  OBVIOUS
<1>2. TaskPlace(t) /\ TreePlace(t) /\ Moves(t) /\ Children(t)' = Children(t)
  BY DEF HouseInv, Children
<1>3. status'[t] = "absent" => status[t] = "absent"
  BY <1>2 DEF Moves, Finished
<1>4. QED
  BY <1>2, <1>3 DEF TreePlace

\* A parent that is done stays so with its children.
LEMMA ParentsKept ==
  ASSUME TypeInv, HouseInv, tree' = tree, \A t \in Tasks : Moves(t)
  PROVE  ParentDoneTruly'
<1>1. SUFFICES ASSUME NEW p \in Tasks, status'[p] = "done", Children(p) # {},
                      NEW c \in Children(p)
               PROVE  status'[c] = "done"
  BY DEF ParentDoneTruly, Children
<1>2. c \in Tasks /\ tree[c].parent # NoTask /\ Moves(c) /\ Moves(p) /\ TaskPlace(p)
  BY TaskAssumption DEF Children, HouseInv
<1>3. attempt[p].n = 0 /\ status[p] \notin New
  BY <1>1, <1>2 DEF TaskPlace
<1>4. status[c] = "done"
  BY <1>1, <1>2, <1>3 DEF Moves, HouseInv, ParentDoneTruly, New
<1>5. QED
  BY <1>2, <1>4, ChildRests

\* Somebody will roll up the parent of t when t is done with.
Awaited(t) ==
  \/ \E e \in Engines : engine[e] = At("rollup", t)
  \/ attempt[t].flow \in Stages \ (Complete \cup {"none"})

\* A task that ends is awaited, and is given up only after its parent was rolled up.
LEMMA NotForgottenKept ==
  ASSUME TypeInv, HouseInv, tree' = tree, \A t \in Tasks : Moves(t), ParentNotForgotten,
         \A t \in Tasks : status[t] \notin Finished /\ status'[t] \in Finished => Awaited(t)',
         \A p \in Tasks : \A c \in Children(p) :
           /\ Awaited(c) /\ ~Awaited(c)'
           /\ \A d \in Children(p) : status[d] \in Finished
           => status'[p] \in Finished
  PROVE  ParentNotForgotten'
<1>1. SUFFICES ASSUME NEW p \in Tasks, status'[p] = "in_progress", Children(p) # {},
                      \A c \in Children(p) : status'[c] \in Finished
               PROVE  \E c \in Children(p) : Awaited(c)'
  BY DEF ParentNotForgotten, Awaited, Children
<1>2. PICK c \in Children(p) : TRUE
  BY <1>1
<1>3. Children(p) \subseteq Tasks /\ Moves(p) /\ TaskPlace(p)
  BY DEF Children, HouseInv
<1>4. CASE \E d \in Children(p) : status[d] \notin Finished
  BY <1>1, <1>3, <1>4
<1>5. CASE \A d \in Children(p) : status[d] \in Finished
  <2>1. status[p] = "in_progress"
    BY <1>1, <1>3 DEF Moves, TaskPlace, Finished, New
  <2>2. PICK d \in Children(p) : Awaited(d)
    BY <2>1, <1>1, <1>5 DEF ParentNotForgotten, Awaited
  <2>3. Awaited(d)'
    BY <2>2, <1>1, <1>3, <1>5 DEF Finished
  <2>4. QED
    BY <2>3
<1>6. QED
  BY <1>4, <1>5

\* An engine that does not move stays where its task can be.
LEMMA EngineRests ==
  ASSUME TypeInv, HouseInv, tree' = tree, \A t \in Tasks : Moves(t),
         NEW e \in Engines, engine'[e] = engine[e], NEW t \in Tasks,
         \A p \in Holding : engine[e] = At(p, t) => status'[t] = status[t],
         engine[e] = At("starting", t) /\ Running(t) => Running(t)' \/ status'[t] = "failed"
  PROVE  EnginePlace(e, t)'
<1>1. TaskPlace(t) /\ EnginePlace(e, t) /\ Moves(t) /\ Children(t)' = Children(t)
  BY DEF HouseInv, Children
<1>2. \A p \in Holding : engine'[e] = At(p, t) => status'[t] = "decomposing"
  BY <1>1 DEF EnginePlace
<1>3. engine[e] = At("starting", t) => attempt'[t].n # 0 /\ (Running(t)' \/ status'[t] = "failed")
  BY <1>1 DEF EnginePlace, Moves, TaskPlace, Running, New, Finished
<1>4. engine[e] = At("unwinding", t) => attempt'[t].n # 0 /\ status'[t] = "failed"
  BY <1>1 DEF EnginePlace, Moves, TaskPlace, Running, New, Finished
<1>5. engine[e] = At("rollup", t) => status'[t] \in Finished
  BY <1>1, FinishedRests DEF EnginePlace
<1>6. engine[e] = At("reaping", t) => Children(t)' # {}
  BY <1>1 DEF EnginePlace
<1>7. QED
  BY <1>2, <1>3, <1>4, <1>5, <1>6 DEF EnginePlace, Running

\* An engine that is idle is nowhere.
LEMMA Nowhere ==
  ASSUME NEW e \in Engines, engine'[e] = Idle, NEW t \in Tasks
  PROVE  EnginePlace(e, t)' /\ \A p \in Holding : engine'[e] # At(p, t)
BY DEF EnginePlace, Idle, At, Holding

\* An engine that comes to a task comes to no other.
LEMMA Arrived ==
  ASSUME NEW e \in Engines, NEW t \in Tasks, NEW q, engine'[e] = At(q, t),
         q \in Holding => status'[t] = "decomposing",
         q = "starting" => attempt'[t].n # 0 /\ Running(t)',
         q = "unwinding" => attempt'[t].n # 0 /\ status'[t] = "failed",
         q = "rollup" => status'[t] \in Finished,
         q = "reaping" => Children(t)' # {}
  PROVE  \A u \in Tasks : EnginePlace(e, u)'
BY DEF EnginePlace, At, Holding

\* Nothing was reviewed, so a step that leaves the tree alone keeps all of it.
LEMMA HouseKept ==
  ASSUME TypeInv, HouseInv, tree' = tree, mode' = mode, \A t \in Tasks : Moves(t),
         reviews' = {}, archiving' = {}, approving' = {},
         \A t \in Tasks :
           Archived(t)' \/ t \in selected' => Archived(t) \/ t \in selected \/ status[t] \in Finished,
         \A e \in Engines, t \in Tasks : EnginePlace(e, t)',
         HeldOnce',
         MaxCrashes = 0 => ParentNotForgotten'
  PROVE  HouseInv'
<1>1. \A t \in Tasks : TaskPlace(t)'
  BY TaskKept
<1>2. (\A t \in Tasks : TreePlace(t)') /\ ParentDoneTruly'
  BY TreeKept, ParentsKept
<1>3. QED
  BY <1>1, <1>2 DEF HouseInv

\* A step of one engine that touches one task and rolls nothing up.
LEMMA LoopKept ==
  ASSUME TypeInv, HouseInv, NEW e \in Engines, NEW t \in Tasks,
         UNCHANGED <<tree, mode, record, sideVars>>,
         \A f \in Engines \ {e} : engine'[f] = engine[f],
         \A u \in Tasks \ {t} : status'[u] = status[u] /\ attempt'[u] = attempt[u],
         Moves(t),
         \A u \in Tasks : EnginePlace(e, u)',
         \A u \in Tasks, p \in Holding : engine'[e] = At(p, u) =>
           u = t /\ (status[t] = "ready" \/ \E q \in Holding : engine[e] = At(q, t)),
         status'[t] = status[t] \/ status[t] # "decomposing"
           \/ \E q \in Holding : engine[e] = At(q, t),
         Running(t) => Running(t)' \/ status'[t] = "failed",
         attempt'[t].flow \in {attempt[t].flow, "pending"} \/ attempt[t].flow = "none",
         \A u \in Tasks : engine[e] # At("rollup", u),
         status[t] \notin Finished /\ status'[t] \in Finished =>
           engine'[e] = At("rollup", t) \/ attempt'[t].flow = "pending"
  PROVE  HouseInv'
<1>1. \A u \in Tasks : Moves(u)
  BY DEF Moves
<1>2. \A f \in Engines, u \in Tasks, p \in Holding :
        f # e /\ engine[f] = At(p, u) => status[u] = "decomposing" /\ status'[u] = status[u]
  BY DEF HouseInv, HeldOnce, EnginePlace
<1>3. \A f \in Engines, u \in Tasks : EnginePlace(f, u)'
  <2>1. SUFFICES ASSUME NEW f \in Engines, NEW u \in Tasks, f # e
                 PROVE  EnginePlace(f, u)'
    OBVIOUS
  <2>2. engine[f] = At("starting", u) /\ Running(u) => Running(u)' \/ status'[u] = "failed"
    BY DEF Running
  <2>3. QED
    BY <1>1, <1>2, <2>1, <2>2, EngineRests
<1>4. HeldOnce'
  <2>1. SUFFICES ASSUME NEW f \in Engines, NEW g \in Engines, NEW u \in Tasks,
                        NEW p \in Holding, NEW q \in Holding,
                        engine'[f] = At(p, u), engine'[g] = At(q, u), f # g
                 PROVE  FALSE
    BY DEF HeldOnce
  <2>2. CASE f # e /\ g # e
    BY <2>1, <2>2 DEF HouseInv, HeldOnce
  <2>3. CASE f = e
    <3>1. engine[g] = At(q, u) /\ status[u] = "decomposing" /\ u = t
      BY <2>1, <2>3, <1>2
    <3>2. PICK r \in Holding : engine[e] = At(r, t)
      BY <2>1, <2>3, <3>1
    <3>3. QED
      BY <2>1, <2>3, <3>1, <3>2 DEF HouseInv, HeldOnce
  <2>4. CASE g = e
    <3>1. engine[f] = At(p, u) /\ status[u] = "decomposing" /\ u = t
      BY <2>1, <2>4, <1>2
    <3>2. PICK r \in Holding : engine[e] = At(r, t)
      BY <2>1, <2>4, <3>1
    <3>3. QED
      BY <2>1, <2>4, <3>1, <3>2 DEF HouseInv, HeldOnce
  <2>5. QED
    BY <2>2, <2>3, <2>4
<1>5. MaxCrashes = 0 => ParentNotForgotten'
  <2>1. \A u \in Tasks : Awaited(u) => Awaited(u)'
    <3>1. SUFFICES ASSUME NEW u \in Tasks, Awaited(u)
                   PROVE  Awaited(u)'
      OBVIOUS
    <3>2. CASE \E f \in Engines : engine[f] = At("rollup", u)
      BY <3>2 DEF Awaited
    <3>3. CASE attempt[u].flow \in Stages \ (Complete \cup {"none"})
      BY <3>3 DEF Awaited, Complete, Stages
    <3>4. QED
      BY <3>1, <3>2, <3>3 DEF Awaited
  <2>2. \A u \in Tasks : status[u] \notin Finished /\ status'[u] \in Finished => Awaited(u)'
    BY DEF Awaited, Complete, Stages
  <2>3. \A p \in Tasks : \A c \in Children(p) : Awaited(c) => Awaited(c)'
    BY <2>1 DEF Children
  <2>4. QED
    BY <1>1, <2>2, <2>3, NotForgottenKept DEF HouseInv
<1>6. reviews' = {} /\ archiving' = {} /\ approving' = {}
  BY DEF HouseInv, sideVars
<1>7. \A u \in Tasks :
        Archived(u)' \/ u \in selected' => Archived(u) \/ u \in selected \/ status[u] \in Finished
  BY DEF Archived, sideVars
<1>8. QED
  BY <1>1, <1>3, <1>4, <1>5, <1>6, <1>7, HouseKept

\* Only a held task is launched, and only an idle engine takes one.
LEMMA LaunchKept ==
  ASSUME TypeInv, HouseInv, NEW e \in Engines, NEW t \in Tasks, Spawn(e, t)
  PROVE  HouseInv'
<1>1. TaskPlace(t) /\ EnginePlace(e, t) /\ "spawn" \in Holding /\ engine[e] = At("spawn", t)
  BY DEF HouseInv, Spawn, Holding
<1>2. status[t] = "decomposing" /\ attempt[t].n = 0 /\ ~Archived(t)
  BY <1>1 DEF EnginePlace, TaskPlace, New, Finished
<1>3. attempt[t].flow = "none" /\ attempt[t].state = "none" /\ ~Running(t)
  BY <1>2 DEF TypeInv, Numbered, NoAttempt, Running
<1>4. status \in [Tasks -> Statuses] /\ attempt \in [Tasks -> AttemptRows]
      /\ engine \in [Engines -> [pc : Places, task : Tasks \cup {NoTask}]]
  BY DEF TypeInv, WorkflowTypeOK
<1>5. \A u \in Tasks : engine[e] # At("rollup", u)
  BY <1>1 DEF At
<1>6. CASE CreateAttempt(e, t)
  <2>1. /\ status' = [status EXCEPT ![t] = "in_progress"]
        /\ attempt' = [attempt EXCEPT ![t] = NewAttempt(t)]
        /\ engine' = [engine EXCEPT ![e] = At("starting", t)]
        /\ UNCHANGED <<tree, mode, record, sideVars>>
    BY <1>6 DEF CreateAttempt, Show, Goto
  <2>2. /\ attempt'[t].n # 0 /\ attempt'[t].mode = "benchmark"
        /\ attempt'[t].state = "active" /\ attempt'[t].flow = "none"
    BY <2>1, <1>1, <1>2, <1>4 DEF NewAttempt, TaskPlace
  <2>3. status'[t] = "in_progress" /\ engine'[e] = At("starting", t)
    BY <2>1, <1>4
  <2>4. Moves(t)
    BY <2>2, <2>3, <1>2 DEF Moves
  <2>5. \A u \in Tasks : EnginePlace(e, u)'
    BY <2>2, <2>3, Arrived DEF Running, Holding
  <2>6. /\ \A u \in Tasks \ {t} : status'[u] = status[u] /\ attempt'[u] = attempt[u]
        /\ \A f \in Engines \ {e} : engine'[f] = engine[f]
    BY <2>1, <1>4
  <2>7. \A u \in Tasks, p \in Holding : engine'[e] # At(p, u)
    BY <2>3 DEF At, Holding
  <2>8. QED
    BY <2>1, <2>2, <2>3, <2>4, <2>5, <2>6, <2>7, <1>1, <1>3, <1>5, LoopKept DEF Finished
<1>7. CASE NoCapacity(e, t) \/ LaunchFails(e, t)
  <2>1. PICK q \in {"requeue", "failing"} : engine' = [engine EXCEPT ![e] = At(q, t)]
    BY <1>7 DEF NoCapacity, LaunchFails, Goto
  <2>2. UNCHANGED <<status, tree, mode, attempt, record, sideVars>>
    BY <1>7 DEF NoCapacity, LaunchFails, taskVars
  <2>3. engine'[e] = At(q, t) /\ q \in Holding
    BY <2>1, <1>4 DEF Holding
  <2>4. Moves(t)
    BY <2>2 DEF Moves
  <2>5. \A u \in Tasks : EnginePlace(e, u)'
    BY <2>1, <2>2, <2>3, <1>2, Arrived
  <2>6. \A f \in Engines \ {e} : engine'[f] = engine[f]
    BY <2>1, <1>4
  <2>7. \A u \in Tasks, p \in Holding : engine'[e] = At(p, u) => u = t
    BY <2>3 DEF At
  <2>8. QED
    BY <2>2, <2>4, <2>5, <2>6, <2>7, <1>1, <1>3, <1>5, LoopKept DEF Running
<1>8. QED
  BY <1>2, <1>6, <1>7 DEF Spawn, Launch, RestoreArchived

\* Taking a task, giving it back and giving it up.
LEMMA TakingKept ==
  ASSUME TypeInv, HouseInv, NEW e \in Engines, NEW t \in Tasks,
         \/ TakeOrchestrated(e, t) \/ TemplateMissing(e, t)
         \/ SelectTemplate(e, t) \/ DecisionFails(e, t) \/ Requeue(e, t)
  PROVE  HouseInv'
<1>1. TaskPlace(t) /\ EnginePlace(e, t)
  BY DEF HouseInv
<1>2. status \in [Tasks -> Statuses] /\ engine \in [Engines -> [pc : Places, task : Tasks \cup {NoTask}]]
  BY DEF TypeInv, WorkflowTypeOK
<1>3. \A u \in Tasks : engine[e] # At("rollup", u)
  BY DEF At, Takes, TakeOrchestrated, TemplateMissing, SelectTemplate, DecisionFails, Requeue, Idle
<1>4. UNCHANGED <<tree, mode, attempt, record, sideVars>>
  BY DEF TakeOrchestrated, TemplateMissing, SelectTemplate, DecisionFails, Requeue
<1>5. PICK s \in Statuses, x \in {Idle} \cup {At(q, t) : q \in {"spawn", "decide", "rollup"}} :
        /\ status' = [status EXCEPT ![t] = s] /\ engine' = [engine EXCEPT ![e] = x]
        /\ \/ /\ status[t] = "ready" /\ DependenciesDone(t)
              /\ s = "decomposing" /\ x \in {At("spawn", t), At("decide", t)}
           \/ /\ status[t] = "ready" /\ DependenciesDone(t) /\ s = "failed" /\ x = At("rollup", t)
           \/ engine[e] = At("decide", t) /\ s = status[t] /\ x = At("spawn", t)
           \/ engine[e] = At("decide", t) /\ s = "failed" /\ x = At("rollup", t)
           \/ engine[e] = At("requeue", t) /\ s = "ready" /\ x = Idle
  <2>1. CASE TakeOrchestrated(e, t)
    BY <2>1 DEF TakeOrchestrated, Takes, Show, Goto, Statuses
  <2>2. CASE TemplateMissing(e, t)
    BY <2>2 DEF TemplateMissing, Takes, Show, Goto, Statuses
  <2>3. CASE SelectTemplate(e, t)
    <3>1. status' = [status EXCEPT ![t] = status[t]] /\ status[t] \in Statuses
      BY <2>3, <1>2 DEF SelectTemplate
    <3>2. QED
      BY <2>3, <3>1 DEF SelectTemplate, Goto
  <2>4. CASE DecisionFails(e, t)
    BY <2>4 DEF DecisionFails, Show, Goto, Statuses
  <2>5. CASE Requeue(e, t)
    BY <2>5 DEF Requeue, Show, Statuses
  <2>6. QED
    BY <2>1, <2>2, <2>3, <2>4, <2>5
<1>6. status'[t] = s /\ engine'[e] = x
  BY <1>2, <1>5
<1>7. \A q \in Holding : engine[e] = At(q, t) => status[t] = "decomposing" /\ DependenciesDone(t)
  BY <1>1 DEF EnginePlace, TaskPlace
<1>8. Moves(t)
  BY <1>4, <1>5, <1>6, <1>7 DEF Moves, Holding
<1>9. \A u \in Tasks : EnginePlace(e, u)'
  <2>1. CASE x = Idle
    BY <2>1, <1>6, Nowhere
  <2>2. CASE x \in {At("spawn", t), At("decide", t)}
    <3>1. status'[t] = "decomposing"
      BY <2>2, <1>5, <1>6, <1>7 DEF Holding, At, Idle
    <3>2. QED
      BY <2>2, <3>1, <1>6, Arrived
  <2>3. CASE x = At("rollup", t)
    <3>1. status'[t] = "failed"
      BY <2>3, <1>5, <1>6 DEF At, Idle
    <3>2. QED
      BY <2>3, <3>1, <1>6, Arrived DEF Finished, Holding
  <2>4. QED
    BY <2>1, <2>2, <2>3
<1>10. \A u \in Tasks, p \in Holding : engine'[e] = At(p, u) =>
         u = t /\ (status[t] = "ready" \/ \E q \in Holding : engine[e] = At(q, t))
  BY <1>5, <1>6 DEF At, Idle, Holding
<1>11. status'[t] = status[t] \/ status[t] # "decomposing" \/ \E q \in Holding : engine[e] = At(q, t)
  BY <1>5, <1>6 DEF Holding
<1>12. status'[t] \in Finished => engine'[e] = At("rollup", t) \/ status[t] \in Finished
  BY <1>5, <1>6 DEF Finished
<1>13. /\ \A f \in Engines \ {e} : engine'[f] = engine[f]
       /\ \A u \in Tasks \ {t} : status'[u] = status[u] /\ attempt'[u] = attempt[u]
  BY <1>2, <1>4, <1>5
<1>14. (Running(t) => Running(t)') /\ attempt'[t].flow \in {attempt[t].flow, "pending"}
  BY <1>4 DEF Running
<1>15. QED
  BY <1>3, <1>4, <1>8, <1>9, <1>10, <1>11, <1>12, <1>13, <1>14, LoopKept

\* Starting, unwinding and giving up.
LEMMA StartingKept ==
  ASSUME TypeInv, HouseInv, NEW e \in Engines, NEW t \in Tasks,
         \/ Started(e, t) \/ StartFails(e, t) \/ FailTask(e, t)
         \/ Reap(e, t) \/ TimesOut(e, t)
  PROVE  HouseInv'
<1>1. TaskPlace(t) /\ EnginePlace(e, t)
  BY DEF HouseInv
<1>2. status \in [Tasks -> Statuses] /\ attempt \in [Tasks -> AttemptRows]
      /\ engine \in [Engines -> [pc : Places, task : Tasks \cup {NoTask}]]
  BY DEF TypeInv, WorkflowTypeOK
<1>3. \A u \in Tasks : engine[e] # At("rollup", u)
  BY DEF At, Started, StartFails, FailTask, Reap, TimesOut, Idle
<1>4. UNCHANGED <<tree, mode, record, sideVars>>
  BY DEF Started, StartFails, FailTask, Reap, TimesOut, taskVars
<1>5. CASE Started(e, t) \/ TimesOut(e, t) \/ (StartFails(e, t) /\ ~Running(t))
  <2>1. UNCHANGED <<status, attempt>>
    BY <1>5 DEF Started, TimesOut, StartFails, taskVars
  <2>2. PICK x \in {Idle, At("reaping", t), At("unwinding", t)} :
          /\ engine' = [engine EXCEPT ![e] = x]
          /\ x = At("reaping", t) => status[t] = "in_progress" /\ attempt[t].n = 0
          /\ x = At("unwinding", t) => engine[e] = At("starting", t) /\ ~Running(t)
    BY <1>5 DEF Started, TimesOut, StartFails, Goto, At, Idle
  <2>3. engine'[e] = x
    BY <2>2, <1>2
  <2>4. x = At("reaping", t) => Children(t)' # {}
    BY <2>2, <1>1, <1>4 DEF TaskPlace, Children
  <2>5. x = At("unwinding", t) => attempt'[t].n # 0 /\ status'[t] = "failed"
    BY <2>1, <2>2, <1>1 DEF EnginePlace
  <2>6. \A u \in Tasks : EnginePlace(e, u)'
    <3>1. CASE x = Idle
      BY <3>1, <2>3, Nowhere
    <3>2. CASE x = At("reaping", t)
      BY <3>2, <2>3, <2>4, Arrived DEF Holding
    <3>3. CASE x = At("unwinding", t)
      BY <3>3, <2>3, <2>5, Arrived DEF Holding
    <3>4. QED
      BY <2>2, <3>1, <3>2, <3>3
  <2>7. \A u \in Tasks, p \in Holding : engine'[e] # At(p, u)
    BY <2>2, <2>3 DEF At, Idle, Holding
  <2>8. \A f \in Engines \ {e} : engine'[f] = engine[f]
    BY <2>2, <1>2
  <2>9. Moves(t) /\ (Running(t) => Running(t)')
    BY <2>1 DEF Moves, Running
  <2>10. QED
    BY <2>1, <2>6, <2>7, <2>8, <2>9, <1>3, <1>4, LoopKept
<1>6. CASE StartFails(e, t) /\ Running(t)
  <2>1. /\ status' = [status EXCEPT ![t] = "failed"]
        /\ attempt' = [attempt EXCEPT ![t].state = "stopped", ![t].flow = "pending"]
        /\ engine' = [engine EXCEPT ![e] = At("unwinding", t)]
        /\ engine[e] = At("starting", t)
    BY <1>6 DEF StartFails, LostAndSettled, Show, Goto
  <2>2. /\ status'[t] = "failed" /\ engine'[e] = At("unwinding", t)
        /\ attempt'[t].n = attempt[t].n /\ attempt'[t].mode = attempt[t].mode
        /\ attempt'[t].state = "stopped" /\ attempt'[t].flow = "pending"
    BY <2>1, <1>2 DEF AttemptRows
  <2>3. attempt[t].n # 0 /\ status[t] = "in_progress"
    BY <2>1, <1>1, <1>6 DEF EnginePlace, TaskPlace, Running
  <2>4. Moves(t)
    BY <2>2, <2>3 DEF Moves, Finished
  <2>5. \A u \in Tasks : EnginePlace(e, u)'
    BY <2>2, <2>3, Arrived DEF Holding
  <2>6. \A u \in Tasks, p \in Holding : engine'[e] # At(p, u)
    BY <2>2 DEF At, Holding
  <2>7. /\ \A f \in Engines \ {e} : engine'[f] = engine[f]
        /\ \A u \in Tasks \ {t} : status'[u] = status[u] /\ attempt'[u] = attempt[u]
    BY <2>1, <1>2
  <2>8. QED
    BY <2>2, <2>3, <2>4, <2>5, <2>6, <2>7, <1>3, <1>4, LoopKept
<1>7. CASE FailTask(e, t) \/ Reap(e, t)
  <2>1. /\ status' = [status EXCEPT ![t] = "failed"] /\ attempt' = attempt
        /\ engine' = [engine EXCEPT ![e] = At("rollup", t)]
        /\ \/ engine[e] = At("failing", t)
           \/ engine[e] = At("unwinding", t)
           \/ engine[e] = At("reaping", t)
    BY <1>7 DEF FailTask, Reap, Show, Goto
  <2>2. status'[t] = "failed" /\ engine'[e] = At("rollup", t)
    BY <2>1, <1>2
  <2>3. Moves(t)
    BY <2>1, <2>2, <1>1 DEF Moves, EnginePlace, TaskPlace, Holding
  <2>4. \A u \in Tasks : EnginePlace(e, u)'
    BY <2>2, Arrived DEF Holding, Finished
  <2>5. \A u \in Tasks, p \in Holding : engine'[e] # At(p, u)
    BY <2>2 DEF At, Holding
  <2>6. /\ \A f \in Engines \ {e} : engine'[f] = engine[f]
        /\ \A u \in Tasks \ {t} : status'[u] = status[u] /\ attempt'[u] = attempt[u]
    BY <2>1, <1>2
  <2>7. status'[t] = status[t] \/ status[t] # "decomposing" \/ \E q \in Holding : engine[e] = At(q, t)
    <3>1. Children(t) # {} \/ status[t] = "failed" => status[t] # "decomposing"
      BY <1>1 DEF TaskPlace, New
    <3>2. QED
      BY <2>1, <3>1, <1>1 DEF EnginePlace, Holding
  <2>8. attempt'[t].flow = attempt[t].flow /\ (Running(t) => Running(t)')
    BY <2>1 DEF Running
  <2>9. QED
    BY <2>1, <2>2, <2>3, <2>4, <2>5, <2>6, <2>7, <2>8, <1>3, <1>4, LoopKept
<1>8. QED
  BY <1>5, <1>6, <1>7

\* A parent is rolled up once all its children are finished, and shows their outcome.
LEMMA RollUpMoves ==
  ASSUME TypeInv, HouseInv, NEW t \in Tasks, status' = RolledUp(status, t)
  PROVE  \A u \in Tasks :
           \/ status'[u] = status[u]
           \/ /\ u = tree[t].parent /\ t \in Children(u)
              /\ \/ status'[u] = "failed"
                 \/ status'[u] = "done" /\ \A c \in Children(u) : status[c] = "done"
<1>1. status \in [Tasks -> Statuses] /\ (t \in Children(tree[t].parent))
  BY DEF TypeInv, WorkflowTypeOK, Children
<1>2. CASE status' = status
  BY <1>2
<1>3. CASE /\ \A c \in Children(tree[t].parent) : status[c] \in Finished
           /\ status' = [status EXCEPT ![tree[t].parent] =
                IF \E c \in Children(tree[t].parent) : status[c] = "failed" THEN "failed" ELSE "done"]
  BY <1>1, <1>3 DEF Finished
<1>4. QED
  BY <1>2, <1>3 DEF RolledUp

\* A roll-up ends the parent.
LEMMA RolledUpParent ==
  ASSUME TypeInv, HouseInv, NEW t \in Tasks, status' = RolledUp(status, t),
         NEW p \in Tasks, t \in Children(p), \A c \in Children(p) : status[c] \in Finished
  PROVE  status'[p] \in Finished
<1>1. tree[t].parent = p /\ p # NoTask /\ status \in [Tasks -> Statuses]
  BY TaskAssumption DEF Children, TypeInv, WorkflowTypeOK
<1>2. QED
  BY <1>1 DEF RolledUp, Finished

\* An engine that rolls a parent up.
LEMMA RollUpKept ==
  ASSUME TypeInv, HouseInv, NEW e \in Engines, NEW t \in Tasks, RollUpAfter(e, t)
  PROVE  HouseInv'
<1>1. /\ engine[e] = At("rollup", t) /\ status' = RolledUp(status, t)
      /\ engine' = [engine EXCEPT ![e] = Idle]
      /\ UNCHANGED <<mode, tree, attempt, record, sideVars>>
  BY DEF RollUpAfter
<1>2. engine'[e] = Idle /\ \A f \in Engines \ {e} : engine'[f] = engine[f]
  BY <1>1 DEF TypeInv, WorkflowTypeOK
<1>3. \A u \in Tasks : status'[u] = status[u] \/ Children(u) # {}
  BY <1>1, RollUpMoves
<1>4. \A u \in Tasks : Moves(u)
  BY <1>1, RollUpMoves DEF Moves
<1>5. \A f \in Engines, u \in Tasks : EnginePlace(f, u)'
  <2>1. SUFFICES ASSUME NEW f \in Engines, NEW u \in Tasks, f # e
                 PROVE  EnginePlace(f, u)'
    BY <1>2, Nowhere
  <2>2. \A p \in Holding : engine[f] = At(p, u) => status'[u] = status[u]
    BY <1>3 DEF HouseInv, EnginePlace, TaskPlace, New
  <2>3. Running(u) => Running(u)'
    BY <1>1 DEF Running
  <2>4. tree' = tree /\ engine'[f] = engine[f]
    BY <1>1, <1>2, <2>1
  <2>5. QED
    BY <1>4, <2>2, <2>3, <2>4, EngineRests
<1>6. HeldOnce'
  <2>1. \A f \in Engines, u \in Tasks, p \in Holding : engine'[f] = At(p, u) => engine[f] = At(p, u)
    BY <1>2, Nowhere
  <2>2. QED
    BY <2>1 DEF HouseInv, HeldOnce
<1>7. MaxCrashes = 0 => ParentNotForgotten'
  <2>1. \A u \in Tasks : status[u] \notin Finished /\ status'[u] \in Finished => Children(u) # {}
    BY <1>3
  <2>2. ASSUME ParentNotForgotten
        PROVE  ParentNotForgotten'
    <3>1. SUFFICES ASSUME NEW p \in Tasks, status'[p] = "in_progress", Children(p) # {},
                          \A c \in Children(p) : status'[c] \in Finished
                   PROVE  \E c \in Children(p) : Awaited(c)'
      BY <1>1 DEF ParentNotForgotten, Awaited, Children
    <3>2. \A c \in Children(p) : c \in Tasks /\ status'[c] = status[c]
      BY <1>3, TaskAssumption DEF Children, HouseInv, TreePlace
    <3>3. status[p] = "in_progress"
      BY <3>1, <1>1, RollUpMoves
    <3>4. PICK c \in Children(p) : Awaited(c)
      BY <2>2, <3>1, <3>2, <3>3 DEF ParentNotForgotten, Awaited
    <3>5. c # t
      BY <1>1, <3>1, <3>2, <3>4, RolledUpParent DEF Finished
    <3>6. Awaited(c)'
      <4>1. CASE \E f \in Engines : engine[f] = At("rollup", c)
        <5>1. PICK f \in Engines : engine[f] = At("rollup", c)
          BY <4>1
        <5>2. f # e
          BY <5>1, <1>1, <3>5 DEF At
        <5>3. QED
          BY <5>1, <5>2, <1>2 DEF Awaited
      <4>2. CASE attempt[c].flow \in Stages \ (Complete \cup {"none"})
        BY <4>2, <1>1 DEF Awaited
      <4>3. QED
        BY <3>4, <4>1, <4>2 DEF Awaited
    <3>7. QED
      BY <3>6
  <2>3. QED
    BY <2>2 DEF HouseInv
<1>8. reviews' = {} /\ archiving' = {} /\ approving' = {}
  BY <1>1 DEF HouseInv, sideVars
<1>9. \A u \in Tasks :
        Archived(u)' \/ u \in selected' => Archived(u) \/ u \in selected \/ status[u] \in Finished
  BY <1>1 DEF Archived, sideVars
<1>10. QED
  BY <1>1, <1>4, <1>5, <1>6, <1>7, <1>8, <1>9, HouseKept

\* The end of an attempt, its settlement and its loss.
LEMMA EndingKept ==
  ASSUME TypeInv, HouseInv, NEW t \in Tasks,
         \/ \E outcome \in Ended : AttemptReports(t, outcome)
         \/ \E valid \in BOOLEAN : Settle(t, valid)
         \/ Lose(t)
  PROVE  HouseInv'
<1>1. TaskPlace(t) /\ UNCHANGED <<mode, tree, record, engine, sideVars>>
  BY DEF HouseInv, AttemptReports, Settle, Lose, taskVars
<1>2. status \in [Tasks -> Statuses] /\ attempt \in [Tasks -> AttemptRows]
  BY DEF TypeInv, WorkflowTypeOK
<1>3. attempt[t].n # 0 /\ status[t] = "in_progress"
      /\ \A u \in Tasks \ {t} : status'[u] = status[u] /\ attempt'[u] = attempt[u]
  <2>1. attempt[t].state # "none" /\ attempt[t].flow = "none"
    BY <1>1 DEF AttemptReports, Settle, Lose, Unprojected, Ended, Running, TaskPlace
  <2>2. attempt[t].n # 0
    BY <2>1 DEF TypeInv, Numbered, NoAttempt
  <2>3. status[t] = "in_progress"
    BY <2>1, <2>2, <1>1 DEF TaskPlace
  <2>4. ASSUME NEW u \in Tasks \ {t}
        PROVE  status'[u] = status[u] /\ attempt'[u] = attempt[u]
    BY <1>2, <2>4 DEF AttemptReports, Settle, Lose, LostAndSettled, Show, taskVars
  <2>5. QED
    BY <2>2, <2>3, <2>4
<1>4. /\ Moves(t)
      /\ status'[t] = status[t] \/ attempt'[t].flow = "pending"
      /\ attempt'[t].flow \in {attempt[t].flow, "pending"}
      /\ Running(t) =>
           Running(t)' \/ status'[t] = "failed" \/ \A e \in Engines : engine[e] # At("starting", t)
  <2>1. CASE \E outcome \in Ended : AttemptReports(t, outcome)
    <3>1. PICK outcome \in Ended : AttemptReports(t, outcome)
      BY <2>1
    <3>2. /\ Running(t) /\ ~Starting(t) /\ status' = status
          /\ attempt' = [attempt EXCEPT ![t].state = outcome]
      BY <3>1 DEF AttemptReports, taskVars
    <3>3. /\ attempt'[t].n = attempt[t].n /\ attempt'[t].mode = attempt[t].mode
          /\ attempt'[t].state = outcome /\ attempt'[t].flow = attempt[t].flow
      BY <3>2, <1>2 DEF AttemptRows
    <3>4. Moves(t)
      BY <3>2, <3>3, <1>3 DEF Moves, Ended
    <3>5. QED
      BY <3>2, <3>3, <3>4 DEF Starting
  <2>2. CASE \E valid \in BOOLEAN : Settle(t, valid)
    <3>1. PICK valid \in BOOLEAN : Settle(t, valid)
      BY <2>2
    <3>2. /\ ~Running(t) /\ attempt[t].state # "active"
          /\ status' = [status EXCEPT ![t] =
                          IF attempt[t].state = "success" /\ valid THEN "done" ELSE "failed"]
          /\ attempt' = [attempt EXCEPT ![t].flow = "pending"]
      BY <3>1 DEF Settle, Unprojected, Running, Ended, Show
    <3>3. /\ attempt'[t].n = attempt[t].n /\ attempt'[t].mode = attempt[t].mode
          /\ attempt'[t].state = attempt[t].state /\ attempt'[t].flow = "pending"
          /\ status'[t] \in {"done", "failed"}
      BY <3>2, <1>2 DEF AttemptRows
    <3>4. Moves(t)
      BY <3>2, <3>3, <1>3 DEF Moves, Finished
    <3>5. QED
      BY <3>2, <3>3, <3>4
  <2>3. CASE Lose(t)
    <3>1. /\ status' = [status EXCEPT ![t] = "failed"]
          /\ attempt' = [attempt EXCEPT ![t].state = "stopped", ![t].flow = "pending"]
      BY <2>3 DEF Lose, LostAndSettled, Show
    <3>2. /\ attempt'[t].n = attempt[t].n /\ attempt'[t].mode = attempt[t].mode
          /\ attempt'[t].state = "stopped" /\ attempt'[t].flow = "pending"
          /\ status'[t] = "failed"
      BY <3>1, <1>2 DEF AttemptRows
    <3>3. Moves(t)
      BY <3>2, <1>3 DEF Moves, Finished
    <3>4. QED
      BY <3>2, <3>3
  <2>4. QED
    BY <2>1, <2>2, <2>3
<1>5. \A u \in Tasks : Moves(u)
  BY <1>3, <1>4 DEF Moves
<1>6. \A f \in Engines, u \in Tasks : EnginePlace(f, u)'
  <2>1. SUFFICES ASSUME NEW f \in Engines, NEW u \in Tasks
                 PROVE  EnginePlace(f, u)'
    OBVIOUS
  <2>2. \A p \in Holding : engine[f] = At(p, u) => status'[u] = status[u]
    BY <1>3 DEF HouseInv, EnginePlace
  <2>3. engine[f] = At("starting", u) /\ Running(u) => Running(u)' \/ status'[u] = "failed"
    BY <1>3, <1>4 DEF Running
  <2>4. tree' = tree /\ engine'[f] = engine[f]
    BY <1>1
  <2>5. QED
    BY <1>5, <2>2, <2>3, <2>4, EngineRests
<1>7. HeldOnce'
  BY <1>1 DEF HouseInv, HeldOnce
<1>8. MaxCrashes = 0 => ParentNotForgotten'
  <2>1. \A u \in Tasks : Awaited(u) => Awaited(u)'
    BY <1>1, <1>3, <1>4 DEF Awaited, Stages, Complete
  <2>2. \A u \in Tasks : status[u] \notin Finished /\ status'[u] \in Finished => Awaited(u)'
    BY <1>3, <1>4 DEF Awaited, Complete, Stages
  <2>3. \A p \in Tasks : \A c \in Children(p) : Awaited(c) => Awaited(c)'
    BY <2>1 DEF Children
  <2>4. tree' = tree
    BY <1>1
  <2>5. QED
    BY <1>5, <2>2, <2>3, <2>4, NotForgottenKept DEF HouseInv
<1>9. reviews' = {} /\ archiving' = {} /\ approving' = {} /\ tree' = tree /\ mode' = mode
  BY <1>1 DEF HouseInv, sideVars
<1>10. \A u \in Tasks :
        Archived(u)' \/ u \in selected' => Archived(u) \/ u \in selected \/ status[u] \in Finished
  BY <1>1 DEF Archived, sideVars
<1>11. QED
  BY <1>5, <1>6, <1>7, <1>8, <1>9, <1>10, HouseKept

\* Archiving, and the roll-up that follows it.
LEMMA ArchivingKept ==
  ASSUME TypeInv, HouseInv, NEW t \in Tasks, ArchiveNow(t)
  PROVE  HouseInv'
<1>1. /\ TaskPlace(t) /\ attempt[t].flow \in {"pending", "archive_pending"}
      /\ Archive(t, status) /\ UNCHANGED <<mode, tree, engine, sideVars>>
  BY DEF HouseInv, ArchiveNow, TaskPlace
<1>2. attempt \in [Tasks -> AttemptRows]
  BY DEF TypeInv, WorkflowTypeOK
<1>3. attempt[t].n # 0 /\ status[t] \in Finished
  <2>1. attempt[t].n # 0
    BY <1>1 DEF TypeInv, Numbered, NoAttempt
  <2>2. QED
    BY <2>1, <1>1 DEF TaskPlace, New
<1>4. PICK f \in {"archived", "archive_pending"} :
        /\ attempt' = [attempt EXCEPT ![t].flow = f]
        /\ \/ status' = RolledUp(status, t)
           \/ f = "archive_pending" /\ status' = status
  BY <1>1 DEF Archive
<1>5. /\ attempt'[t].n = attempt[t].n /\ attempt'[t].mode = attempt[t].mode
      /\ attempt'[t].state = attempt[t].state /\ attempt'[t].flow = f
      /\ \A u \in Tasks \ {t} : attempt'[u] = attempt[u]
  BY <1>2, <1>4 DEF AttemptRows
<1>6. Children(t) = {} /\ \A u \in Tasks : status'[u] = status[u] \/ Children(u) # {}
  BY <1>1, <1>3, <1>4, RollUpMoves DEF TaskPlace
<1>7. \A u \in Tasks : Moves(u)
  <2>1. status'[t] = status[t]
    BY <1>6
  <2>2. Moves(t)
    BY <2>1, <1>1, <1>3, <1>5 DEF Moves
  <2>3. ASSUME NEW u \in Tasks \ {t}
        PROVE  Moves(u)
    <3>1. CASE status'[u] = status[u]
      BY <3>1, <1>5 DEF Moves
    <3>2. CASE status' = RolledUp(status, t)
      BY <3>2, <1>5, RollUpMoves DEF Moves
    <3>3. QED
      BY <3>1, <3>2, <1>4
  <2>4. QED
    BY <2>2, <2>3
<1>8. \A g \in Engines, u \in Tasks : EnginePlace(g, u)'
  <2>1. SUFFICES ASSUME NEW g \in Engines, NEW u \in Tasks
                 PROVE  EnginePlace(g, u)'
    OBVIOUS
  <2>2. \A p \in Holding : engine[g] = At(p, u) => status'[u] = status[u]
    BY <1>6 DEF HouseInv, EnginePlace, TaskPlace, New
  <2>3. Running(u) => Running(u)'
    BY <1>5 DEF Running
  <2>4. tree' = tree /\ engine'[g] = engine[g]
    BY <1>1
  <2>5. QED
    BY <1>7, <2>2, <2>3, <2>4, EngineRests
<1>9. HeldOnce'
  BY <1>1 DEF HouseInv, HeldOnce
<1>10. MaxCrashes = 0 => ParentNotForgotten'
  <2>1. ASSUME ParentNotForgotten
        PROVE  ParentNotForgotten'
    <3>1. SUFFICES ASSUME NEW p \in Tasks, status'[p] = "in_progress", Children(p) # {},
                          \A c \in Children(p) : status'[c] \in Finished
                   PROVE  \E c \in Children(p) : Awaited(c)'
      BY <1>1 DEF ParentNotForgotten, Awaited, Children
    <3>2. \A c \in Children(p) : c \in Tasks /\ status'[c] = status[c]
      BY <1>6, TaskAssumption DEF Children, HouseInv, TreePlace
    <3>3. status[p] = "in_progress"
      BY <3>1, <1>4, RollUpMoves
    <3>4. PICK c \in Children(p) : Awaited(c)
      BY <2>1, <3>1, <3>2, <3>3 DEF ParentNotForgotten, Awaited
    <3>5. CASE f = "archive_pending" \/ c # t
      BY <3>2, <3>4, <3>5, <1>1, <1>5 DEF Awaited, Stages, Complete
    <3>6. CASE f = "archived" /\ c = t
      BY <3>1, <3>2, <3>4, <3>6, <1>4, RolledUpParent DEF Finished
    <3>7. QED
      BY <3>4, <3>5, <3>6
  <2>2. QED
    BY <2>1 DEF HouseInv
<1>11. reviews' = {} /\ archiving' = {} /\ approving' = {} /\ tree' = tree /\ mode' = mode
  BY <1>1 DEF HouseInv, sideVars
<1>12. \A u \in Tasks :
        Archived(u)' \/ u \in selected' => Archived(u) \/ u \in selected \/ status[u] \in Finished
  <2>1. \A u \in Tasks \ {t} : record'[u] = record[u]
    BY <1>1 DEF Archive, TypeInv, WorkflowTypeOK
  <2>2. QED
    BY <2>1, <1>1, <1>3 DEF Archived, sideVars
<1>13. QED
  BY <1>7, <1>8, <1>9, <1>10, <1>11, <1>12, HouseKept

\* The scheduler's backfill.
LEMMA BackfillKept ==
  ASSUME TypeInv, HouseInv, NEW t \in Tasks,
         BackfillBuilds(t) \/ BackfillReconciles(t) \/ BackfillSelects
  PROVE  HouseInv'
<1>1. UNCHANGED <<status, mode, tree, attempt, engine, reviews, archiving, approving>>
  BY DEF BackfillBuilds, BackfillReconciles, BackfillSelects, taskVars, sideVars
<1>2. \A u \in Tasks :
        Archived(u)' \/ u \in selected' => Archived(u) \/ u \in selected \/ status[u] \in Finished
  <2>1. CASE BackfillBuilds(t) \/ BackfillReconciles(t)
    <3>1. selected' \subseteq selected /\ (t \in selected \/ Archived(t))
          /\ \A u \in Tasks \ {t} : record'[u] = record[u]
      BY <2>1 DEF BackfillBuilds, BackfillReconciles, Recorded, sideVars, TypeInv, WorkflowTypeOK
    <3>2. QED
      BY <3>1 DEF Archived
  <2>2. CASE BackfillSelects
    BY <2>2 DEF BackfillSelects, Missing, Archived
  <2>3. QED
    BY <2>1, <2>2
<1>3. \A u \in Tasks : Moves(u)
  BY <1>1 DEF Moves
<1>4. \A e \in Engines, u \in Tasks : EnginePlace(e, u)'
  BY <1>1 DEF HouseInv, EnginePlace, Running, Children
<1>5. HeldOnce' /\ (MaxCrashes = 0 => ParentNotForgotten')
  BY <1>1 DEF HouseInv, HeldOnce, ParentNotForgotten, Children
<1>6. reviews' = {} /\ archiving' = {} /\ approving' = {} /\ tree' = tree /\ mode' = mode
  BY <1>1 DEF HouseInv
<1>7. QED
  BY <1>2, <1>3, <1>4, <1>5, <1>6, HouseKept

\* A decomposition adds children to a task that has none, and is none.
LEMMA DecomposeKept ==
  ASSUME TypeInv, HouseInv, NEW e \in Engines, NEW t \in Tasks, Decompose(e, t)
  PROVE  HouseInv'
<1>1. PICK kids \in (SUBSET {k \in Tasks : ~Exists(k)}) \ {{}} :
        \E deps \in [kids -> SUBSET kids] :
          /\ tree' = [k \in Tasks |-> IF k \in kids THEN [parent |-> t, deps |-> deps[k]]
                                      ELSE tree[k]]
          /\ status' = [k \in Tasks |-> IF k \in kids THEN "ready"
                                        ELSE IF k = t THEN "in_progress" ELSE status[k]]
          /\ mode' = [k \in Tasks |-> IF k \in kids THEN mode[t] ELSE mode[k]]
  BY Zenon DEF Decompose
<1>2. PICK deps \in [kids -> SUBSET kids] :
        /\ tree' = [k \in Tasks |-> IF k \in kids THEN [parent |-> t, deps |-> deps[k]] ELSE tree[k]]
        /\ status' = [k \in Tasks |-> IF k \in kids THEN "ready"
                                      ELSE IF k = t THEN "in_progress" ELSE status[k]]
        /\ mode' = [k \in Tasks |-> IF k \in kids THEN mode[t] ELSE mode[k]]
  BY <1>1
<1>3. /\ engine[e] = At("decide", t) /\ tree[t].parent = NoTask
      /\ engine' = [engine EXCEPT ![e] = Idle]
      /\ UNCHANGED <<attempt, record, sideVars>>
  BY DEF Decompose
<1>4. TaskPlace(t) /\ status[t] = "decomposing" /\ attempt[t].n = 0 /\ Children(t) = {}
  BY <1>3 DEF HouseInv, EnginePlace, TaskPlace, New, Holding
<1>5. kids # {} /\ kids \subseteq Tasks /\ t \notin kids /\ t # NoTask
      /\ \A k \in kids : status[k] = "absent" /\ TaskPlace(k) /\ TreePlace(k)
  BY <1>1, <1>4, TaskAssumption DEF Exists, HouseInv
<1>6. \A k \in kids : /\ status'[k] = "ready" /\ mode'[k] = "benchmark"
                      /\ tree'[k].parent = t /\ tree'[k].deps \subseteq kids
                      /\ Children(k) = {} /\ attempt[k].n = 0 /\ tree[k].parent = NoTask
  <2>1. SUFFICES ASSUME NEW k \in kids
                 PROVE  /\ status'[k] = "ready" /\ mode'[k] = "benchmark"
                        /\ tree'[k].parent = t /\ tree'[k].deps \subseteq kids
                        /\ Children(k) = {} /\ attempt[k].n = 0 /\ tree[k].parent = NoTask
    OBVIOUS
  <2>2. k \in Tasks /\ status[k] = "absent" /\ TaskPlace(k) /\ TreePlace(k)
    BY <1>5
  <2>3. status'[k] = "ready" /\ mode'[k] = mode[t] /\ tree'[k] = [parent |-> t, deps |-> deps[k]]
    BY <1>2, <2>2
  <2>4. deps[k] \subseteq kids
    OBVIOUS
  <2>5. QED
    BY <1>4, <2>2, <2>3, <2>4 DEF TaskPlace, TreePlace, New
<1>7. status'[t] = "in_progress" /\ tree'[t] = tree[t] /\ mode'[t] = "benchmark"
  BY <1>2, <1>4, <1>5 DEF TaskPlace
<1>8. \A u \in Tasks \ (kids \cup {t}) :
        status'[u] = status[u] /\ tree'[u] = tree[u] /\ mode'[u] = mode[u]
  BY <1>2
<1>9. Children(t)' = kids
  <2>1. \A u \in Tasks : tree'[u].parent = t <=> u \in kids
    BY <1>3, <1>4, <1>5, <1>6, <1>7, <1>8 DEF Children
  <2>2. QED
    BY <2>1, <1>5 DEF Children
<1>10. \A u \in Tasks \ {t} : Children(u)' = Children(u)
  <2>1. SUFFICES ASSUME NEW u \in Tasks \ {t}
                 PROVE  \A v \in Tasks : tree'[v].parent = u <=> tree[v].parent = u
    BY DEF Children
  <2>2. u # NoTask /\ u # t
    BY TaskAssumption
  <2>3. QED
    BY <2>2, <1>3, <1>6, <1>7, <1>8
<1>11. attempt' = attempt /\ selected' = selected /\ \A u \in Tasks : Archived(u)' = Archived(u)
  BY <1>3 DEF Archived, sideVars
<1>12. \A u \in Tasks : TaskPlace(u)'
  <2>1. ASSUME NEW k \in kids
        PROVE  TaskPlace(k)'
    <3>1. k \in Tasks /\ TaskPlace(k)
      BY <1>5
    <3>2. attempt[k].state = "none" /\ ~Archived(k) /\ k \notin selected
      BY <1>5, <1>6, <3>1 DEF TypeInv, Numbered, NoAttempt, TaskPlace, Finished
    <3>3. Children(k)' = {}
      BY <1>5, <1>6, <1>10, <3>1
    <3>4. QED
      BY <1>6, <1>11, <3>1, <3>2, <3>3 DEF TaskPlace, New, Running
  <2>2. ASSUME NEW u \in Tasks, u \notin kids
        PROVE  TaskPlace(u)'
    <3>1. TaskPlace(u) /\ TreePlace(u) /\ tree'[u] = tree[u]
      BY <2>2, <1>7, <1>8 DEF HouseInv
    <3>2. \A d \in tree[u].deps : d \in Tasks /\ tree[d].parent # NoTask
      BY <3>1 DEF TreePlace, TypeInv, WorkflowTypeOK
    <3>3. \A d \in tree[u].deps : d \notin kids \cup {t}
      BY <3>2, <1>3, <1>6
    <3>4. DependenciesDone(u) => DependenciesDone(u)'
      BY <3>1, <3>2, <3>3, <1>8 DEF DependenciesDone
    <3>5. CASE u = t
      <4>1. DependenciesDone(t)
        BY <1>4 DEF TaskPlace
      <4>2. attempt[t].state = "none" /\ ~Archived(t) /\ t \notin selected
        BY <1>4 DEF TypeInv, Numbered, NoAttempt, TaskPlace, Finished
      <4>3. QED
        BY <4>1, <4>2, <3>1, <3>4, <3>5, <1>4, <1>5, <1>7, <1>9, <1>11
           DEF TaskPlace, New, Running, Finished
    <3>6. CASE u # t
      BY <3>1, <3>4, <3>6, <2>2, <1>8, <1>10, <1>11 DEF TaskPlace, Running
    <3>7. QED
      BY <3>5, <3>6
  <2>3. QED
    BY <2>1, <2>2
<1>13. \A u \in Tasks : TreePlace(u)'
  <2>1. ASSUME NEW k \in kids
        PROVE  TreePlace(k)'
    <3>1. \A d \in tree'[k].deps : tree'[d].parent # NoTask
      BY <1>5, <1>6
    <3>2. Children(k)' = {}
      BY <1>5, <1>6, <1>10
    <3>3. QED
      BY <1>6, <3>1, <3>2 DEF TreePlace
  <2>2. ASSUME NEW u \in Tasks, u \notin kids
        PROVE  TreePlace(u)'
    <3>1. TreePlace(u) /\ tree'[u] = tree[u] /\ (status'[u] = "absent" => status[u] = "absent")
      BY <2>2, <1>7, <1>8 DEF HouseInv
    <3>2. \A d \in tree[u].deps : d \in Tasks /\ tree[d].parent # NoTask
      BY <3>1 DEF TreePlace, TypeInv, WorkflowTypeOK
    <3>3. \A d \in tree[u].deps : tree'[d] = tree[d]
      BY <3>2, <1>3, <1>6, <1>8
    <3>4. tree[u].parent # NoTask => Children(u)' = {}
      BY <3>1, <1>3, <1>10 DEF TreePlace
    <3>5. QED
      BY <3>1, <3>2, <3>3, <3>4 DEF TreePlace
  <2>3. QED
    BY <2>1, <2>2
<1>14. /\ engine'[e] = Idle /\ \A f \in Engines \ {e} : engine'[f] = engine[f]
  BY <1>3 DEF TypeInv, WorkflowTypeOK
<1>15. \A f \in Engines, u \in Tasks : EnginePlace(f, u)'
  <2>1. SUFFICES ASSUME NEW f \in Engines, NEW u \in Tasks, f # e
                 PROVE  EnginePlace(f, u)'
    BY <1>14, Nowhere
  <2>2. EnginePlace(f, u) /\ engine'[f] = engine[f] /\ TaskPlace(u)
    BY <1>14, <2>1 DEF HouseInv
  <2>3. CASE u \notin kids /\ u # t
    <3>1. status'[u] = status[u] /\ Children(u)' = Children(u) /\ u \in Tasks
      BY <2>3, <1>8, <1>10
    <3>2. QED
      BY <2>2, <3>1, <1>11 DEF EnginePlace, Running
  <2>4. CASE u = t
    <3>1. \A p \in Holding : engine[f] # At(p, t)
      BY <2>1, <1>3 DEF HouseInv, HeldOnce, Holding
    <3>2. engine[f] # At("rollup", t) /\ engine[f] # At("reaping", t)
          /\ engine[f] # At("starting", t) /\ engine[f] # At("unwinding", t)
      BY <2>2, <2>4, <1>4 DEF EnginePlace, Finished
    <3>3. QED
      BY <2>2, <2>4, <3>1, <3>2 DEF EnginePlace
  <2>5. CASE u \in kids
    <3>1. status[u] = "absent" /\ attempt[u].n = 0 /\ Children(u) = {}
      BY <2>5, <1>5, <1>6
    <3>2. \A p \in Holding : engine[f] # At(p, u)
      BY <2>2, <3>1 DEF EnginePlace
    <3>3. engine[f] # At("rollup", u) /\ engine[f] # At("reaping", u)
          /\ engine[f] # At("starting", u) /\ engine[f] # At("unwinding", u)
      BY <2>2, <3>1 DEF EnginePlace, Finished
    <3>4. QED
      BY <2>2, <3>2, <3>3 DEF EnginePlace
  <2>6. QED
    BY <2>3, <2>4, <2>5
<1>16. HeldOnce'
  <2>1. \A f \in Engines, u \in Tasks, p \in Holding : engine'[f] = At(p, u) => engine[f] = At(p, u)
    BY <1>14, Nowhere
  <2>2. QED
    BY <2>1 DEF HouseInv, HeldOnce
<1>17. ParentDoneTruly'
  <2>1. SUFFICES ASSUME NEW p \in Tasks, status'[p] = "done", Children(p)' # {},
                        NEW c \in Children(p)'
                 PROVE  status'[c] = "done"
    BY DEF ParentDoneTruly
  <2>2. p # t /\ p \notin kids
    BY <2>1, <1>6, <1>7
  <2>3. status[p] = "done" /\ Children(p)' = Children(p) /\ status[c] = "done" /\ c \in Tasks
    BY <2>1, <2>2, <1>8, <1>10 DEF HouseInv, ParentDoneTruly, Children
  <2>4. QED
    BY <2>3, <1>4, <1>5, <1>8
<1>18. MaxCrashes = 0 => ParentNotForgotten'
  <2>1. ASSUME ParentNotForgotten
        PROVE  ParentNotForgotten'
    <3>1. SUFFICES ASSUME NEW p \in Tasks, status'[p] = "in_progress", Children(p)' # {},
                          \A c \in Children(p)' : status'[c] \in Finished
                   PROVE  \E c \in Children(p)' : Awaited(c)'
      BY DEF ParentNotForgotten, Awaited
    <3>2. p # t /\ p \notin kids
      BY <3>1, <1>5, <1>6, <1>9 DEF Finished
    <3>3. status[p] = "in_progress" /\ Children(p)' = Children(p)
      BY <3>1, <3>2, <1>8, <1>10
    <3>4. \A c \in Children(p) : c \in Tasks /\ c # t /\ c \notin kids
      <4>1. p # NoTask
        BY TaskAssumption
      <4>2. QED
        BY <4>1, <1>3, <1>6 DEF Children
    <3>5. PICK c \in Children(p) : Awaited(c)
      BY <2>1, <3>1, <3>3, <3>4, <1>8 DEF ParentNotForgotten, Awaited
    <3>6. Awaited(c)'
      <4>1. CASE \E f \in Engines : engine[f] = At("rollup", c)
        <5>1. PICK f \in Engines : engine[f] = At("rollup", c)
          BY <4>1
        <5>2. f # e
          BY <5>1, <1>3 DEF At
        <5>3. QED
          BY <5>1, <5>2, <1>14 DEF Awaited
      <4>2. CASE attempt[c].flow \in Stages \ (Complete \cup {"none"})
        BY <4>2, <1>11 DEF Awaited
      <4>3. QED
        BY <3>5, <4>1, <4>2 DEF Awaited
    <3>7. QED
      BY <3>3, <3>6
  <2>2. QED
    BY <2>1 DEF HouseInv
<1>19. reviews' = {} /\ archiving' = {} /\ approving' = {}
  BY <1>3 DEF HouseInv, sideVars
<1>20. QED
  BY <1>12, <1>13, <1>15, <1>16, <1>17, <1>18, <1>19 DEF HouseInv

\* After a crash no engine is anywhere.
LEMMA CrashKept ==
  ASSUME TypeInv, HouseInv, Crash
  PROVE  HouseInv'
<1>1. /\ \A e \in Engines : engine'[e] = Idle
      /\ reviews' = {} /\ archiving' = {} /\ approving' = approving
      /\ UNCHANGED <<status, tree, mode, attempt, record, selected>>
  BY DEF Crash, taskVars
<1>2. MaxCrashes # 0
  BY TaskAssumption DEF Crash, Spend, TypeInv, WorkflowTypeOK, Budgets
<1>3. \A t \in Tasks : Moves(t)
  BY <1>1 DEF Moves
<1>4. \A e \in Engines, t \in Tasks : EnginePlace(e, t)'
  BY <1>1, Nowhere
<1>5. HeldOnce'
  <2>1. \A e \in Engines, t \in Tasks, p \in Holding : engine'[e] # At(p, t)
    BY <1>1, Nowhere
  <2>2. QED
    BY <2>1 DEF HeldOnce
<1>6. \A t \in Tasks :
        Archived(t)' \/ t \in selected' => Archived(t) \/ t \in selected \/ status[t] \in Finished
  BY <1>1 DEF Archived
<1>7. approving' = {} /\ tree' = tree /\ mode' = mode
  BY <1>1 DEF HouseInv
<1>8. QED
  BY <1>1, <1>2, <1>3, <1>4, <1>5, <1>6, <1>7, HouseKept

\* Nothing happened to the families.
LEMMA HouseRests == HouseInv /\ UNCHANGED vars => HouseInv'
<1>1. SUFFICES ASSUME HouseInv, UNCHANGED vars
               PROVE  HouseInv'
  OBVIOUS
<1>2. UNCHANGED <<status, mode, tree, attempt, record, engine, reviews, archiving, approving, selected>>
  BY <1>1 DEF vars, taskVars, sideVars
<1>3. \A t \in Tasks : TaskPlace(t)' /\ TreePlace(t)'
  <2>1. ASSUME NEW t \in Tasks
        PROVE  TaskPlace(t)' /\ TreePlace(t)'
    <3>1. TaskPlace(t) /\ TreePlace(t)
      BY <1>1 DEF HouseInv
    <3>2. Children(t)' = Children(t) /\ DependenciesDone(t)' = DependenciesDone(t)
      BY <1>2 DEF Children, DependenciesDone
    <3>3. QED
      BY <1>2, <3>1, <3>2 DEF TaskPlace, TreePlace, Running, Archived
  <2>2. QED
    BY <2>1
<1>4. \A e \in Engines, t \in Tasks : EnginePlace(e, t)'
  BY <1>1, <1>2 DEF HouseInv, EnginePlace, Running, Children
<1>5. HeldOnce'
  BY <1>1, <1>2 DEF HouseInv, HeldOnce
<1>6. ParentDoneTruly' /\ (MaxCrashes = 0 => ParentNotForgotten')
  BY <1>1, <1>2 DEF HouseInv, ParentDoneTruly, ParentNotForgotten, Children
<1>7. QED
  BY <1>1, <1>2, <1>3, <1>4, <1>5, <1>6 DEF HouseInv

\* Every action keeps families together.
LEMMA HouseStep == Unreviewed /\ TypeInv /\ HouseInv /\ [Next]_vars => HouseInv'
<1>1. SUFFICES ASSUME Unreviewed, TypeInv, HouseInv, [Next]_vars
               PROVE  HouseInv'
  OBVIOUS
<1>2. ASSUME NEW e \in Engines, NEW t \in Tasks, EngineStep(e, t) \/ TimesOut(e, t)
      PROVE  HouseInv'
  <2>1. ~TakeDirect(e, t)
    BY <1>1 DEF HouseInv, TaskPlace, TakeDirect
  <2>2. QED
    BY <1>1, <1>2, <2>1, LaunchKept, TakingKept, StartingKept, RollUpKept, DecomposeKept
       DEF EngineStep
<1>3. ASSUME NEW t \in Tasks, AttemptEnds(t) \/ \E valid \in BOOLEAN : Settle(t, valid)
      PROVE  HouseInv'
  BY <1>1, <1>3, EndingKept DEF AttemptEnds
<1>4. ASSUME NEW t \in Tasks, WorkflowStep(t)
      PROVE  HouseInv'
  <2>1. /\ attempt[t].mode # "orchestrated" /\ attempt[t].flow # "review_running"
        /\ reviews = {} /\ archiving = {}
    BY <1>1 DEF HouseInv, TaskPlace
  <2>2. ArchiveNow(t)
    BY <1>4, <2>1 DEF WorkflowStep, RetryFailed, RetryDue, ClaimReview, ReviewDue, RecoverReview,
       ReviewStep, ReviewAnswers, ReviewSuperseded, FinishReview
  <2>3. QED
    BY <1>1, <2>2, ArchivingKept
<1>5. ASSUME NEW t \in Tasks, UserStep(t)
      PROVE  HouseInv'
  BY <1>1, <1>5 DEF UserStep, StartTask, PatchStatus, PatchMode, RejectTask, ApproveReads,
     ApproveWrites, EvaluateTask, Asks, Unreviewed, HouseInv
<1>6. ASSUME NEW t \in Tasks, BackfillBuilds(t) \/ BackfillReconciles(t)
      PROVE  HouseInv'
  BY <1>1, <1>6, BackfillKept
<1>7. CASE BackfillSelects
  BY <1>1, <1>7, BackfillKept, TaskAssumption
<1>8. CASE Crash
  BY <1>1, <1>8, CrashKept
<1>9. CASE UNCHANGED vars
  BY <1>1, <1>9, HouseRests
<1>10. QED
  BY <1>1, <1>2, <1>3, <1>4, <1>5, <1>6, <1>7, <1>8, <1>9 DEF Next

\* At first there is one task, and nobody at it.
LEMMA HouseInit == Unreviewed /\ Init => HouseInv
<1>1. SUFFICES ASSUME Unreviewed, Init
               PROVE  HouseInv
  OBVIOUS
<1>2. \A t \in Tasks : /\ status[t] \in {"ready", "absent"} /\ mode[t] = "benchmark"
                       /\ tree[t] = [parent |-> NoTask, deps |-> {}]
                       /\ attempt[t] = NoAttempt /\ record[t] = NoRecord
  BY <1>1 DEF Init, Unreviewed
<1>3. \A t \in Tasks : Children(t) = {}
  <2>1. SUFFICES ASSUME NEW t \in Tasks, NEW c \in Tasks
                 PROVE  tree[c].parent # t
    BY DEF Children
  <2>2. tree[c].parent = NoTask
    BY <1>2
  <2>3. QED
    BY <2>2, TaskAssumption
<1>4. \A e \in Engines, t \in Tasks, p \in Places \ {"idle"} : engine[e] # At(p, t)
  BY <1>1 DEF Init, Idle, At
<1>5. selected = {} /\ reviews = {} /\ archiving = {} /\ approving = {}
  BY <1>1 DEF Init
<1>6. \A t \in Tasks : TaskPlace(t) /\ TreePlace(t)
  BY <1>2, <1>3, <1>5 DEF TaskPlace, TreePlace, NoAttempt, New, Archived, Running, Finished
<1>7. (\A e \in Engines, t \in Tasks : EnginePlace(e, t)) /\ HeldOnce
  BY <1>4 DEF EnginePlace, HeldOnce, Places, Holding
<1>8. ParentDoneTruly /\ ParentNotForgotten
  BY <1>3 DEF ParentDoneTruly, ParentNotForgotten
<1>9. QED
  BY <1>5, <1>6, <1>7, <1>8 DEF HouseInv

\* A running task was taken with its dependencies done.
LEMMA DependenciesFirst == TypeInv /\ HouseInv => DependencyOrder
<1>1. SUFFICES ASSUME TypeInv, HouseInv, NEW t \in Tasks, Running(t)
               PROVE  \A d \in tree[t].deps : status[d] = "done"
  BY DEF DependencyOrder
<1>2. TaskPlace(t) /\ attempt[t].n # 0
  BY <1>1 DEF HouseInv, TypeInv, Numbered, NoAttempt, Running
<1>3. DependenciesDone(t)
  BY <1>1, <1>2 DEF TaskPlace, New
<1>4. QED
  BY <1>3 DEF DependenciesDone

\* However many loops, crashes and backfills there are, a child runs on finished
\* dependencies, and a parent is done only with its children
\* (process_ready_task, check_parent_task_completion).
THEOREM FamiliesInOrder ==
  ASSUME Unreviewed
  PROVE  Spec => [](DependencyOrder /\ ParentDoneTruly)
<1>1. Init => TypeInv /\ HouseInv
  BY TypeInit, HouseInit
<1>2. TypeInv /\ HouseInv /\ [Next]_vars => (TypeInv /\ HouseInv)'
  BY TypeStep, HouseStep
<1>3. TypeInv /\ HouseInv => DependencyOrder /\ ParentDoneTruly
  BY DependenciesFirst DEF HouseInv
<1>4. QED
  BY <1>1, <1>2, <1>3, PTL DEF Spec

\* Without crashes somebody is left to roll a parent up, too.
THEOREM FamiliesAgree ==
  ASSUME Unreviewed, MaxCrashes = 0
  PROVE  Spec => []FamilyAgrees
<1>1. Init => TypeInv /\ HouseInv
  BY TypeInit, HouseInit
<1>2. TypeInv /\ HouseInv /\ [Next]_vars => (TypeInv /\ HouseInv)'
  BY TypeStep, HouseStep
<1>3. TypeInv /\ HouseInv => FamilyAgrees
  BY DependenciesFirst DEF HouseInv, FamilyAgrees
<1>4. QED
  BY <1>1, <1>2, <1>3, PTL DEF Spec
=============================================================================
