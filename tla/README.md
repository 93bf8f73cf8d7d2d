# EvalHive: models, checks and proofs

EvalHive runs agents on tasks inside containers, records what they did, reviews
the result and archives it as evidence for comparisons. This directory holds
TLA+ models of the parts where several processes meet and of the computations
its reports rest on, the TLC runs that check them on small instances, and TLAPS
proofs for every instance.

## 1. The system

Three backend processes share one PostgreSQL database (docker-compose): the API,
the orchestrator and the scheduler. The orchestrator process launches attempts
and holds the runner of each; every runner supervises one connector in a
container, journals its event stream in a SQLite spool and delivers the spool to
the API over HTTP. The scheduler advances experiments and repeated runs, whose
cells are tasks like any other, and starts the evaluators.

| component | code | state | operations | interacts with |
|---|---|---|---|---|
| attempt journal | `backend/app/harnesses/attempts.py`, `api/attempts.py`, `models/execution_attempt.py` | attempt rows, event rows, command rows, `task.current_attempt_id` | create, prepare, queue, heartbeat, acknowledge, ingest, mark lost | HTTP from runners and users; executor in process |
| runner | `runner/src/evalhive_runner/runner.py`, `api.py` | memory of one `AttemptRunner` and its four tasks | start-up, consume, deliver, control, finalize, flush | connector by pipes, spool, API by HTTP |
| spool | `runner/src/evalhive_runner/spool.py` | `events`, `commands`, counters of `spool.sqlite` | append, batch, acknowledge, command rows, claim | runner, recovery |
| executor and reconciler | `backend/app/harnesses/executor.py` | `_jobs`, containers | launch, job, recover, finish, reconcile, sweep | journal, runtime, workflow |
| workflow | `backend/app/harnesses/workflow.py`, `quality/data_lake.py` | `completeness.workflow`, reviewer lease, quality record | settle, review, archive, retry | task API, orchestrator, evaluators |
| orchestrator | `backend/app/orchestrator/*.py` | task status, dependencies | process ready task, decompose, roll up, time out | executor, LLM |
| task API | `backend/app/api/tasks.py` | task rows | create, update, start, rerun, approve, reject, delete | everything that reads `task.status` |
| scheduler | `backend/app/scheduler.py`, `workers/` | job leases | backfill, retention, evaluations, ticks | quality data, experiments |
| experiments | `backend/app/quality/experiments.py`, `external_eval.py`, `api/experiments.py` | experiment and cell rows, attempt ledger, cached report | start, tick, pause, resume, cancel, retry, add, retire, delete, report | task rows, containers, evaluators |
| repeated runs | `backend/app/quality/{variance,perturbation,comparison,runs_common}.py` | run and comparison rows, lists of children | create, advance, judge, aggregate | task rows, LLM |
| evaluators | `backend/app/quality/{judge,calibration,trajectory,capability,failure_modes,hallucination,trace_evidence,...}.py` | columns of a quality record | read the trace, ask, store | data lake, LLM |
| human feedback | `backend/app/quality/feedback.py` | annotations, blind sessions | open, rate, approve with a rating | quality records |
| statistics, rankings, bundles | `backend/app/quality/{stats,experiment_report,ranking,aggregation,judge_calibration,bias_mitigation,reproducibility,bundle}.py` | reports, versions, cached reports | compute, number, export, verify | everything that was recorded |
| connector SDK | `sdk/python/src/evalhive_harness` | pipes, pending requests, event queue | request, serve, emit, close | runner |
| traces | `backend/app/quality/trace_cleaner.py`, `api/agent_logs.py`, `harnesses/projection.py` | log chunks, the view of a journal | ingest, join, project | evaluators |
| registry, profiles, knowledge, memory, auth, storage, runtime | `backend/app/{registry,knowledge,memory,auth,storage,runtime}` | rows, files, containers | editing and adapters | all |
| frontend, harness connectors, deployment | `frontend`, `harnesses`, `deploy` | | | HTTP |

### Behaviours that are hard

* One attempt has four writers: its runner over HTTP, its own job after the run,
  the reconciler, and users (commands, deletion). They meet in the journal.
* Requests are lost after they were handled, repeated, and handled long after
  their sender gave up; a runner process dies at any point and its spool remains.
* The reconciler judges by the age of a heartbeat and acts later; with a second
  orchestrator process (a rolling restart) the runner it declares dead may live.
* A container outlives a failed stop and the process that started it.
* Task status is written by the executor, the workflow, the orchestrator, its
  time-out reaper and the users' API, partly without the row lock.
* A tick works on rows it read once and commits several times; evaluations, other
  ticks and users commit in between.
* Host and connector wait for each other through two pipes of limited size while
  one of them closes.
* Evaluators, ratings, approvals, retention and reports read and write the same
  quality records in sessions that are open over a model call.

## 2. What makes each component correct

* Journal: at most one active attempt; a verdict rests on the journalled record
  that states it; stored records, verdicts, receipts and applied settings never
  change; the task shows the outcome of its newest attempt; a record describes
  the newest attempt, which has ended.
* Delivery: the server's journal is a prefix of the spool; what reached the
  spool reaches the server; success is recorded only when the connector reported
  it and nothing cancelled or cut short the run; a command executes at most once
  and a receipted abort excludes success; two connectors of a task never execute
  at the same time; every attempt ends.
* Workflow and orchestrator: the reviewer is paid once per attempt; a record
  describes the newest attempt and nothing runs behind it; a running attempt is
  visible in `task.status`; nothing runs that nobody asked for; only the owner
  ends a reviewed task as done; a child runs on finished dependencies; a parent
  is done only if its children are, and somebody remains to say so; every review
  and every workflow ends.
* Experiments: every execution of a cell settles before the next one is asked
  for and stays in the ledger; a cell has one task that counts; an ended
  experiment leaves nothing behind; databases are not shared; budget and
  parallelism hold; a cached report counts the cells as they are; a running
  experiment ends.
* Repeated runs: every child is listed and of the plan; an ended run reports on
  settled children; a pairwise verdict was given in both orders on finished
  answers; runs and generations end.
* Evaluators and people: a profile describes the attempt of its record and rests
  on a profile that was stored; a paid answer is not lost; the ratings of a
  person form one chain, and one that counts as blind was blind; the gate fails
  closed; a fabrication is flagged on evidence.
* Traces: a recorded call is told once, with what is missing of it, and none
  oftener than it left a trace; sessions do not mix;
  usage adds up; a loop is a loop of one attempt; what does not fit the judge's
  budget is given up by value, and said so.
* Statistics and reports: tests do not depend on the order of the data or on who
  is named first; only trusted axes carry conclusions; tables are of one
  population; ratings are handed from player to player; numbered reports have no
  gaps; a bundle reproduces what was shown and notices any change.
* Connector SDK: events arrive in order and without a gap; one start per process;
  nobody waits behind the end of a stream; closing ends.

## 3. Modules

| module | models | extends / instantiates |
|---|---|---|
| `AttemptLifecycle` | the promise of the journal: attempts open one after the other, only the open one gains evidence, an attempt closes once | |
| `AttemptJournal` | `attempts.py`, the runner routes of `api/attempts.py`, settlement and archive as far as they touch attempts | refines `AttemptLifecycle` |
| `AttemptDelivery` | launch, runner, spool, HTTP, recovery, reconciler, crashes | extends `AttemptJournal`: its actions call the journal's |
| `TaskWorkflow` | `orchestrator/engine.py`, `workflow.py`, `settle_task`, the task API, the scheduler's backfill, seen from `task.status` | an attempt is seen from outside: absent, active, ended |
| `CellLifecycle` | the promise of the matrix runner for one cell | |
| `Experiments` | `experiments.py`, its API and its containers: ticks and requests | refines `CellLifecycle` |
| `RepeatedRuns`, `Comparison` | `variance.py`, `perturbation.py`; `comparison.py` | |
| `ConnectorClient` | both ends of the pipes between host and connector | |
| `Traces`, `Trajectories` | what is read of a run; what is computed of it | |
| `Evaluation`, `Annotations` | the sessions of evaluators; those of people | |
| `Verdicts` | what evaluators make of the answers they get | |
| `Statistics`, `Reports`, `Rankings` | `stats.py`; `experiment_report.py`; leaderboards, calibration and mitigation | each extends the one before |
| `Bundles` | snapshots, bundles, cached reports, numbered reports | |
| `MC...` | records, names, tasks and setups of the small instances; `MCReporting` and `MCServices` put modules that share no state beside each other | |
| `..._proofs` | TLAPS proofs; `AttemptDelivery_proofs` uses the theorems of `AttemptJournal_proofs`, `AttemptRecovery_proofs` those of both; `TaskWorkflow_proofs`, `Experiments_proofs`, `ConnectorClient_proofs`, `Services_proofs` and `Computations_proofs` (on `Verdicts` and `Rankings`) stand alone | extend their module and `TLAPS` |

An operator whose name begins with `Mut` is the form a plausible mistake would
give to the definition that follows it. It belongs to no specification; it shows
that a property of a run depends on what the code does there.

### AttemptJournal

State: `execution_attempts` (`status`, `nextSeq`, `config`, `settled`, `fresh`),
`execution_events` (`rows`), `execution_commands` (`command`), the task's
`current_attempt_id` and status, and the archive row. Every handler takes the
task row lock, then the attempt row lock, and commits once: one action each,
with the handler's refusals as guards. A request of any content may arrive at
any moment, also from a runner that was given up long ago.

`ArchiveResults` has every caller of `build_quality_record`: the workflow, an
evaluation on demand (`POST /records/{id}/evaluate`) and a backfill. Of the
attempt it asks only that it has ended, so that a record may be written between
the verdict and the projection onto the task, or of a task that never had an
attempt (`archived` is then 0); `RetentionPrunes` deletes records again.

### AttemptDelivery

`runner[a].phase` is the place of `AttemptRunner.run` (spawning to gone), with
the outcome, the failure and the cancellation its tasks set; `runner[a].control`
is the control task. `spool`, `acked` and `ledger` are the three tables of
`spool.sqlite` and survive a crash; `post`, `answer` and `wire` are one delivery
under way. A request and its answer are three steps (send, handle, take the
answer), the handling may come after the sender gave up, and the same request
may be handled twice. `recovery` is `finish_interrupted_attempt`, run by the
attempt's own job or by the reconciler. `Crash` kills a runner's process at any
step and may leave its container.

Abstractions: a record is `run.started`, `record` or `run.finished` with its
verdict; byte limits, redaction, images, the 32-command page of a heartbeat and
the expiry of a token are left out. The connector emits `run.started` first (the
SDK enforces it, `sdk/python/src/evalhive_harness/connector.py:98`). Whether a
container stop succeeds is a choice. `COMMAND_UNCERTAIN` cannot occur because
`claim_run` makes a spool single-use. An aborted initial heartbeat that is begun
again is harmless and merged. `Replicas` says whether a reconciler may run
beside the runner's process; it does not change during a behaviour. That a
connector may emit records in the closing phase of a failed start-up is more
than it does.

### TaskWorkflow

| state | code |
|---|---|
| `status`, `retries`, `pinned`, `tree`, `mode` | `task.status`, `retry_count`, `template_id`, `parent_id` and dependencies, `execution_mode` with `benchmark_mode` |
| `attempt[t]` | number, mode in `run_spec.metadata`, state, `completeness.workflow`; `stopped` stands for cancelled, lost and the four error codes that are not retried |
| `record[t]` | `quality_records`: source attempt and `final_status` |
| `engine[e]` | the place of `orchestrator_loop` between two transactions |
| `reviews`, `archiving` | jobs inside `continue_workflow` during the model call, and between its last two transactions |
| `approving`, `selected` | an approve request and a backfill between read and write |
| `history` | observation only: reviews paid, requeues asked for, approvals |

A transaction under the task's row lock is one action. Where the lock is given
up or never taken, the halves are separate actions: `NoCapacity`/`Requeue`,
`LaunchFails`/`FailTask`, `TimesOut`/`Reap`, `ApproveReads`/`ApproveWrites`,
`BackfillSelects`/`BackfillBuilds`, `ReviewAnswers`/`FinishReview`. In
`Archive` statuses, stage and record change together, and a failed upload takes
all of them back, as the rollback in `continue_workflow` does. `Unattended` says
who may resume a stage: inside one process its own job keeps recovery away,
another process only sees a lease that may be over.

Abstractions: the loop's choice of a task and its taking are one step, because
the status is read again under the lock; the row `Root` exists and is queued at
the start; priorities, prompts, costs, failure types and memory extraction are
left out; deletion, rerun clones and changes of a task's text are not modelled.
A benchmark task keeps its mode.

### Experiments

`exp` is the experiment's row, `cell` its committed run rows, `ledger` the
attempt ledger, `child` the tasks of a cell, oldest first, `box` the container a
row polls. The session of a tick does not expire its rows at a commit, so a tick
keeps what it read (`view`, `ended`, `seen`) and what it changed (`dirty`), and
each commit writes the changed attributes over whatever the row holds by then
(`Flushed`). `TickBegin`, the polls, `Claim` and `Finish` are the transactions
of `advance_experiment`; `TickAborts` ends one at an exception. Requests are one
transaction each under the experiment's lock. `reading` is a report request
between what it read and what it caches. The evaluation of a child is one step
with its commit; prompts and scores are abstracted to a verdict and a cost.

`Overlapping` names the requests that may arrive while a tick is open: pausing
and resuming in the passing run, another tick in `double_claim`.

### The services

`RepeatedRuns` follows both harnesses with one state machine: `run` is the row,
`offspring` the tasks made for it, `tick` what an open advance has read; a tick
that is cut short or overlaps another is remembered in `past`. `Comparison` has
one row, `rival` the candidates generated for it and `bench` the judges, each
between its two calls. `ConnectorClient` has the two pipes `up` and `down`,
`call` the requests of the host, `host` its reader and bounded queue, `conn` the
serving loop, the run and the lock of the output. `Evaluation` gives each kind
of session the order of its steps (`StepsOf`) over one record and one task row;
`Annotations` gives each rating its transaction, with the locks it holds.

### The computations

`Traces`, `Trajectories`, `Verdicts`, `Statistics`, `Reports` and `Rankings`
translate functions: a behaviour starts with one question and stays there, and
the invariant states laws of the answers over all bounded inputs. Observations
are whole numbers, quotients are pairs; a probability without closed form is
represented by what it decreases with. The logs `Traces` reads are written by a
legacy agent and a connector, step by step, with posts that fail.

## 4. Runs

| run | instance | question |
|---|---|---|
| `journal` | 2 attempts, 3 sequence numbers, 5 clashing records, 2 configurations, 1 command | does any order of requests, old or new, break the record of an execution? |
| `delivery` | 1 attempt, 4 records in batches of 2, 2 losses, 2 crashes | does the server get what the spool holds, and does every attempt end with it? |
| `delivery_commands` | an abort and another command, 1 loss, 1 crash, 1 unreadable spool | are commands executed once, answered truly, and is every step one of the journal? |
| `delivery_replicas` | 2 attempts, a reconciler beside a living runner, reliable network | what if a live runner is declared lost? |
| `workflow` | 1 task, both modes, 5 attempts, 3 requests of 6 kinds, a crash, a failure | who writes over a running attempt, and who asked for it? |
| `owner` | 1 task, both modes, 3 requests, 2 crashes | who ends a task, and does every review and workflow end? |
| `decomposition` | a root with up to 2 children and every dependency between them, 2 failures | order, honest roll-up, and does the root come to rest? |
| `experiments` | four experiments: plain and prepared cases with a budget (`Shared`), two configurations over one database (`Serialised`), in two lanes (`Laned`), plain cases two at a time (`Plain`); 1 or 2 requests of 9 kinds, a failure; an agent costs one unit, an execution with its judges up to two. Beside them the reports: populations of up to 3 runs, lists of up to 2 ratings, 3 clerks asking for a numbered report | is every execution counted once, is nothing stranded, do the limits hold, does it end, and is what is reported licensed by what was measured? |
| `services` | one service at a time: 5 repeated runs, 4 comparisons, 2 calls and 1 event over pipes of one message with 2 pending requests, logs of 2 calls, journals of 4 events, traces of up to 6 actions, 4 sets of evaluators, 3 sets of annotators | are children counted, verdicts earned, events in order, traces told as they were, answers and ratings kept, and does what was started end? |
| `retry_archived`, `review_stuck`, `double_claim` | the smallest instance that shows it | section 5 |

Why the bounds are enough: two attempts are the least at which one can be
superseded, and everything a superseded attempt may do depends on that fact
only. Four records in batches of two give a lost batch that is repeated alone
and together with a longer one. Two crashes let a recovery be interrupted and
resumed; two retries' worth of attempts and three requests let every stage of
the workflow meet a restart, a rejection and a retry. Two engines are enough for
every race between two transactions. An experiment of two cells has one in
flight beside one that is pending, retried or retired, and two requests let a
retry be followed by a cancellation or a retirement; more cells add
combinations of independent rows. A full pipe and a full queue need one message
each. Three sessions of evaluators are a writer, a reader and one that builds
the record; three ratings are a chain with a fork. The laws of the computations
are stated over all inputs up to a size at which ties, empty groups and
disagreement occur. What section 7 proves does not depend on any bound.

`workflow` leaves `approve` out and has one engine, for the reasons given in
section 5; `owner` has no failing uploads, because of `review_stuck`, and no
backfill, because of `retry_archived`. In `experiments` the mutations other than
pause and resume arrive between ticks, and ticks do not overlap, because of
`double_claim`. Deadlock is not checked: a finished task, a spent budget or a
run without users rests.

A property that is a conjunction (`OneCurrentAttempt`, `EndSettlesAttempt`,
`EvidenceDelivered`, `NoHiddenExecution`, `FamilyAgrees`, `LimitsHeld`, the
`...Sound` and `...End` properties) names its parts in the module that states
it; each part has a mutant of its own.

## 5. Where the code departs from what is said of it

Three runs end in a counterexample; `PROJECT.json` quotes the sentences.

* `retry_archived`: the backfill selects failed and done tasks without asking
  whether their workflow has run. It archives a task between settlement and
  retry; the retry is then answered with the archived status and never runs. A
  result the reviewer rejected can be restored as done that way.
* `review_stuck`: recovering an interrupted review and archiving are one
  transaction. A failed upload rolls the owner's decision back and marks the
  attempt `archive_pending`; from there the task stays in `review`: later
  passes archive it as it is, and start, approval and rejection refuse a task in
  review. Only a `PATCH` that writes another status by hand leads out.
* `double_claim`: the request that starts an experiment advances it while the
  scheduler may do so too. Both read the same pending rows without a lock and
  both create a child; the first runs to its end, tagged, and no row points to it.

Others are visible in the models, excepted in a property or left out of a run by
name, and not kept as runs of their own:

* With two engines `AttemptShown` fails: after `CAPACITY` one loop writes
  `ready` without the lock (`engine.py:108`) over the attempt another launched.
* With `approve` it fails too: `approve_task` reads without the lock
  (`tasks.py:424`) and may write `done` over a task that was started again.
* A task started between settlement and archive is archived with
  `final_status` ready; the loop then writes `ready` back each time it takes it.
* A decomposed root that failed and is started again is launched as a whole; when
  a child of its first life ends, the roll-up writes the root's status without
  looking at it (`engine.py:320`), over the running attempt.
* Approving the last child (or rejecting an archived one) ends it without
  rolling its parent up; the time-out marks the parent failed.
* A cancellation, a retry or an added configuration that falls into an open tick
  of an experiment is overwritten or finalised over (`experiments.py:708`).
* A cell that is retried and then skipped before it is claimed again keeps its
  last execution in the ledger only, and `select_runs` with `all_attempts`
  leaves that execution out (`experiment_report.py:2341`); `LedgerComplete`
  says exactly which cells are concerned.
* Two requests for a numbered report compute the same version; the unique
  constraint refuses the second after its model calls (`ranking.py:241`,
  `bias_mitigation.py:473`).
* A perturbation run whose source task was deleted raises at every tick and
  stays running (`perturbation.py:321`).
* A shutdown that cancels an event's write between pipe and counter lets the
  next event repeat its number (`connector.py:64`).
* A call whose record is lost is dropped from the trace, although it was
  announced, when another call of the same tool lost its announcement: `trace_cleaner.py:545` promises that
  no call is lost to a failed post, but announcements and records are counted
  against each other and not matched. `CallsToldOnce` says when an announcement
  without a record stays.
* Two overlapping ratings of one person may be committed against their dates;
  the next one is then refused as a conflict (`feedback.py:590`).

## 6. Fairness

`AttemptDelivery` assumes weak fairness of the phases of a runner, each of which
waits with a time-out, of a job's and the reconciler's steps, which poll, and of
the ageing of heartbeats. It assumes nothing of the network, of the delivery and
control tasks or of the connector: they may stall for ever.

`TaskWorkflow` assumes it of the engine's steps (a loop with a sleep), of the
end of an attempt (a deadline, or the reconciler), of settlement and workflow
(both polled by `reconcile_attempts`), of the backfill (scheduled) and of an
approval that has read its row (a request that finishes). Users, failures and
crashes are never assumed. `RootRests` admits a task that a crash left in
`decomposing`: the code has no recovery for it.

`Experiments` and `RepeatedRuns` assume that the scheduler keeps ticking, that a
request once begun goes on, and that agents and containers end one by one. That
containers end is not enforced by the code for a check container, which has no
time-out. `Comparison` and `ConnectorClient` assume weak fairness of all their
steps together: their behaviours are finite, so that the assumption only says
that nothing stops half way. In the client this includes the time-out of
`close`, which kills the process. `Evaluation` and `Annotations` assume that
model calls are answered, transactions go on, and the database breaks a cycle
of waiting by failing one side; that a session is opened is not assumed.

## 7. Proofs

Assumptions: `BoundsAssumption`, `BodiesAssumption` and `NamesAssumption` of
`AttemptJournal`, `DeliveryAssumption` of `AttemptDelivery`, `TaskAssumption` of
`TaskWorkflow`, `PendingAssumption` of `ConnectorClient`, `PairAssumption` of
`Comparison`, `AnnotationAssumption` of `Annotations`, `EvalAssumption` of
`Evaluation`, `RunsAssumption` of `RepeatedRuns`, `ExperimentsAssumption` of
`Experiments`, `BundlesAssumption` and `IdentityAssumption` of `Bundles`. They only fix the kinds of the
constants (and that the journal's records include those a runner writes, that no
person bears the name of the judge, that no transform is named like the input
left as it is, and that what is not there is no text, no hash and no harness), and TLC
evaluates each in the runs of its module.

Journal (`AttemptJournal_proofs`). The safety invariants support one another, so
their conjunction with the types, `JournalInv`, is the inductive invariant: that
a record keeps describing the newest attempt needs that no attempt is opened
behind a record, that the attempt has ended whether or not the task shows it needs
that a verdict is never taken back, both need the relation between `current` and
`status`, and that a batch
cannot follow a final record needs the exact domain of `rows`. `TypeCorrect`,
`CurrentAttemptAgreed` and `EndsSettled` read it off; `HistoryIsFrozen` and
`JournalRefinesLifecycle` follow from it step by step, receipts with one more
fact, that a command with a receipt is closed. The refinement maps `status` to
open or closed and forgets commands and configurations: every handler is a step
of `AttemptLifecycle` or a stutter.

Delivery (`AttemptDelivery_proofs`).

* `DeliveryImplementsJournal` (`DeliverySpec => Spec`): every step of runners,
  network, recoveries and users is a handler of the journal or leaves it alone
  (`JournalStep`). That a replayed or late batch is one the journal knows how to
  read needs the types of spool and wire, so that `DeliveryInv` is the journal's
  invariant, the types (`StreamType`) and `Place`: what the phase of a runner
  says of its spool, and that only launched attempts have runners and
  recoveries. All theorems about the journal hold of the composed system.
* `DeliveryTypeCorrect` reads the types off `DeliveryInv`.
* `JournalIsSpoolPrefix`: `Flow` adds that every request on the wire repeats the
  spool, however old it is, that receipts on their way are for records the
  server has, and that a recovery drops only those. Each is needed for another:
  the wire for the journal, the receipts for `acked`.
* `SuccessEarned`: `Earned` adds that settings are saved before the start, that
  no verdict is in the spool before the runner is finalized, and that the
  control task has ended by then, so that nobody can cancel a run between its
  verdict and its journal.
* `OneExecution`: `Exclusive`, only the current attempt's container executes and
  a container that is left idle by an earlier one has no runner to start it.
* `AbortExcluded`: `Aborts` follows a command from list to receipt. A receipted
  abort belongs to an attempt that cannot succeed any more (`Doomed`), which no
  later step undoes; that the control task never works on another attempt's
  command is part of it.

Recovery (`AttemptRecovery_proofs`). `EvidenceIsDelivered` assumes what the run
`delivery` assumes of the fault bounds, one reconciling process (`~Replicas`) and
journals that can be read (`MaxFaults = 0`): without them a second process may
declare lost what the first is still replaying, and the code drops a journal it
cannot read. The argument follows a recovery from its claim to its last step.
`Claimed`: a spool is claimed behind the end of its runner, so that nobody
writes it any more. `Written`: a runner that left without failing has its
verdict in the spool, as its last record. No batch a recovery replays is then
refused (`BatchAccepted`), because it repeats the spool from the start or behind
a receipt. `CaughtUp`: a recovery that reaches its
last step has delivered the whole spool, and the verdict with it. Then
`finish_interrupted_attempt` finds an ended attempt and `LostWithoutVerdict`
holds. None of them is inductive alone; `RecoveryInv` is their conjunction with
`Flow` and with `Readable`, that no fault is left to spend.

Commands (`AttemptRecovery_proofs`). `CommandsExecuted` needs no assumption on
faults or replicas. `Tracked` follows a command through the four places that
know of it: the list of its runner's control task, the ledger of the spool, the
connector and the server's row. It was executed as often as these say, at most
once, and whatever keeps it from being taken up again (a row in the ledger, a
receipt, the end of the control task, the end of the run) outlasts what would
take it up; a command answered "before start" belongs to a run that is barred
from starting (`Barred`). Most steps are quiet for a command (`QuietStep`); the
others hand it from one place to the next. That the receipts of spool and server
never differ uses `Aborts` and `ReceiptStatus` of the earlier modules.

Workflow (`TaskWorkflow_proofs`). `WorkflowTypeCorrect` rests on `TypeInv`: the
types, and that a task without an attempt number has no attempt at all
(`Numbered`), without which a reviewer could be attributed to attempt zero. With
it the limit on retries is part of the type. `RecordPinned`: `RecordPinsAttempt`
is inductive, because every action keeps all attempt numbers and sources, or
creates an attempt where there is no record, or makes a record of the current
attempt. `PaidOnce` needs `ReviewInv`: an attempt in an early stage has not been
paid for, a running one has not been settled, and a reviewer whose answer may
still be applied belongs to an attempt past the early stages or to an older one.
The last part is what keeps a late reviewer from sending an attempt back.

`NothingHidden` proves `AttemptShown` and `AttemptsAskedFor` one after another.
`RowsExist`: what was launched, archived or selected has a row, so that adding
children never overwrites one. `AskedInv`: a launch of a task is covered by a
retry or a request (`Covered`) as long as anybody may launch it, that is while it
is ready or an engine that may still make it ready holds it; a launch takes both
away, which needs that no second loop holds the same task. `ParentsInv`: a
decomposed task was never launched and is never ready, because what makes a
launched task ready again pins it to its template. `ShownInv`: the status of a
running task is its launch's, and what an engine is still to write concerns a
task that does not run. The theorem assumes what the run `workflow` does,
`OneLoop` and no approvals, because of section 5, and `Steady`: there is one task
(as in the run), or nobody sends a request that starts a parent again.
`OwnerHasTheLastWord` adds to `OwnerDecides` that an archived done was approved
(`OwnerInv`), because a later launch is answered with it; parents at rest keep
roll-up from ending a reviewed task. It assumes no status patch, no evaluation
and no backfill, as the run `owner` does. `ExecutionsAskedFor` states the part
that needs only `OneLoop`.

`FamiliesInOrder` and `FamiliesAgree` prove `FamilyAgrees` for any number of
loops. They assume `Unreviewed`, as the run `decomposition` does: tasks of the
benchmark mode and no requests (the backfill may run). With a reviewer a child
that is done may be taken back while its parent is done. The invariant,
`HouseInv`, says what the status of a task tells of its attempt, its children and
its dependencies (`TaskPlace`): it is launched once, after its dependencies, or
decomposed once, never both; and what the place of a loop tells of its task
(`EnginePlace`): a task that is being decided on or launched is held by one loop
(`HeldOnce`). Every step changes a task by one of a few `Moves`, each of which
leaves finished tasks finished and children that are done untouched. That nobody
is forgotten assumes that there are no crashes: a loop that dies between the end
of the last child and the roll-up leaves the parent to the time-out.

Experiments (`Experiments_proofs`). `MatrixTypeCorrect` needs no assumption. The
rest assumes `Undisturbed`: between two steps of a tick come no requests but pause
and resume, and ticks do not overlap. The run `double_claim` and the requests
that rewrite rows beside a tick (section 5) show that it cannot be dropped; the
run `experiments` assumes the same. The invariant is `MatrixInv`: the types, with
the picture a tick took of rows and children among them, and six parts.
`RowsKept` (by `Kept`) relates a row, its archived executions and its children:
what came before the present execution is archived, the present one only where
the row no longer shows it, and the child the row points to is the one that
counts and the only one at work. `Open` (by `Pictured`) says how far the picture
of a tick may be from the table: a row it has not changed is the table's, a row
it has changed is one step ahead and in no archive yet. `Alone`: one tick, on an
experiment that runs or is paused. `Tabled`: rows belong to configurations that
were added. `Reported`: a report, stored or being computed, of the present
revision counts the cells as they are. `Ended`: a terminal experiment has settled
cells. An action changes a cell by one of a few moves (`CellMove`, `Removed` and
those of ticks); a lemma per move keeps `Kept` and `Pictured`, a lemma per
action names its moves. From `MatrixInv` follow `ExecutionsArchived`,
`NothingIsStranded`, `ServedReportsAreCurrent` and `OneTaskForEachCell`, and
`CellsFollowLifecycle`: the matrix runner implements `CellLifecycle`, step by step.
`DatabasesExclusive` adds `Exclusive`, a bound on the cells in flight that a
claim keeps because it counts them in the picture it claims from. `LimitsAreHeld`
adds the budget, the other half of `LimitsHeld`: `Budgeted` charges every live cell
with its `Burden`, which is what it may come to cost as long as it is in flight and
what it has cost once it has settled. A claim starts below the budget and leaves
no more than `Target` cells in flight; every other step makes no cell a greater
burden. Costs are whole units (`Costs` of an agent, up to `MaxCost` with its
judges), so that their sum (`TotalCost`) counts units and needs no induction.

Connector (`ConnectorClient_proofs`). `ExchangeIsSound` needs no assumption but
that the limit of requests is a number. `ClientInv` relates the two ends of the
pipes. `RunPlace`: the run has counted what it has written, but for what it is
writing. `RequestPlace`: whatever is under way belongs to a request, of the
method it was made with. `GrantPlace`: start is granted once, where granted
means that the answer has arrived or is on its way, because a second start that
overtook the first answer would otherwise not be seen. `PipePlace`: counting
from what was delivered, over the events still in the pipe, one arrives at what
the connector has emitted, and each event bears its number. The count is a
function over the pipe (`Counts`); a message that is added or taken changes it at
one end. Behind the end of the stream the pipe no longer matters.

Services (`Services_proofs`). `ComparisonIsSound`: the invariant, `PairInv`, says
that unless two judgements overlapped one at a time works, on the row as it is:
then what it adds to the cost on commit is what the row lacks, and the calls it
stores are those of its verdict. `VerdictStays` keeps a failed, cloned or repeated
step from taking a verdict back.

`AnnotationsAreSound`: a chain of ratings grows at the one row that nobody
supersedes (`RowsApart`), and that row exists because the stamps of a rater's
rows have a largest one. The rest, `RatingPlace` and `RatingsApart`, is what
the locks are for: what a transaction has read (its session unused, the row it
will supersede, the opinion it saw) stays so until it ends, because a second
transaction behind the same lock has not read yet. A rating is refused as a fork
only where rows were committed in another order than their transactions began
(`ForkSeen`).

`EvaluationsAreSound`: a session works on copies it read before. `CopyFits` says
what a copy may still claim when it is written back: one that refers to the
record describes the record's attempt, and the identifier of a record to come is
known only to the session that holds the lock on the task. `SessionPlace` adds
what its basis is, a profile that is kept or one it has made itself. `Books`
balances what was paid against what is stored and what open sessions owe; the sum
over sessions is the last member of a sequence, so that a session's step changes
it from that session on.

`BundlesAreSound` is the part of `ReportingSound` that is about `Bundles`, for any
number of ratings and clerks. `BundlesInv` says of the cached report that its
stamp was taken before its ratings were read, of ratings that are among them
(`StampedFrom`): ratings are only added, so that a fingerprint that is still the
same is one of the same set (`CacheIsCurrent`), whatever was committed in
between. An export is written only if its reads agree (`ExportShape`). Of the
numbered reports it says that there is one of every clerk that is done, in the
order of the numbers, that no two began at the same time (`ClerkShape`), and that
one began last (`LastBegan`), so that what is shown is one report and no older
than what was there before. Snapshots, archives and journals are laws over the
inputs of the module and need no invariant. Of snapshots: two runs have one
fingerprint exactly if they had the same inputs (`SameInputs`: texts to their end,
and every condition of the harness; that its settings were applied is kept beside
the fingerprint and is not part of it), and images are reported pinned exactly if
every manifest captured an image. Pinned is less than replayable: an attempt that
failed at start-up names its image, but never had its settings applied, and
`replay_from_snapshot` refuses it.

What evaluators and reports compute has no state, so `Computations_proofs` states
laws of the operators themselves, for every input and not only for the ones the
runs list. Of verdicts: `GateHolds` (a critical dimension in error fails the gate,
better answers never close it, the order of dimensions does not matter),
`ToolsHold`, `InspectedHolds` (a probe reads each name once, in its newest
version) and `DensityHolds`, which rests on a lemma that rounding half to even
keeps the order of quotients. Of reports: `TrustHolds` (an axis ranks only on
enough human agreement, and surer readings never take a rank away),
`FrontierHolds`, `DriftHolds` and `AgreementHolds`. Of rankings: `RatedHolds` (a
match conserves the sum of ratings and does not depend on who is named first),
`VersusHolds`, `RatingsKeepTheirJudge`, `BinHolds` and `WilsonMirrors`. That every
configuration off the frontier is dominated by one on it is shown by following a
chain of dominating configurations, which ends because the set of those above
gets strictly smaller; that a name has a newest version, in the same way. They
are parts of what `VerdictsSound` and `ReportingSound` check; the rest of those
properties is about folds.

All of these hold for every number of attempts, records, commands, tasks,
engines, configurations, cases, lanes, requests, judges, ratings, evaluators'
sessions, clerks, crashes, faults and losses, but
for the assumptions named with `EvidenceIsDelivered`, `Undisturbed`,
`NothingHidden`, `OwnerHasTheLastWord` and `Unreviewed`. Only model-checked:
what is computed with folds over sequences (traces, trajectories, the rest of
verdicts, statistics, report tables and rankings), whose laws need induction over
data, and liveness. Both are out of the prover's reach.

## 8. Not modelled

* Prompts, model answers beyond what is parsed of them, wording and layout.
* Floating point, random resamples, the logarithm of a rating and the tails of
  distributions: `Statistics` keeps the order of what they decide.
* Task API: creation, deletion and rerun clones; decomposing a failed root again
  while its first children still count; extraction of memory after a review.
* Several experiments at once: lanes and the serial database are counted per
  experiment.
* The byte reserve of the spool, redaction, provenance, the walk over artifacts.
* Docker, storage and plugin adapters: their failures are choices in the models.
* Registry, templates, providers, profiles, knowledge, memory, authentication:
  one row at a time, without a protocol between processes.
* Events, chat and analytics observe committed state, best effort by design.
* Frontend, harness connectors and deployment.

## 9. What could follow

1. Task API: deletion without the lock and rerun clones as actions of
   `TaskWorkflow`.
2. `EventSpool`: the byte reserve of `spool.py:51-90`, which must leave room for
   the final record.
3. Two experiments that share lanes and the serial database.
