--------------------------- MODULE AttemptJournal ---------------------------
(***************************************************************************)
(* The server's journal of the execution attempts of one task             *)
(* (backend/app/harnesses/attempts.py and the routes of api/attempts.py).  *)
(* Every handler runs under the task row lock, then the attempt row lock,  *)
(* and commits once, so every handler is one action.  The callers are the  *)
(* environment here: any request may arrive at any moment.  AttemptDelivery*)
(* puts the real runner, its spool and the network in their place.         *)
(***************************************************************************)
EXTENDS Integers

CONSTANTS
  MaxAttempts,   \* bound: attempts of the task, numbered 1, 2, ...
  MaxSeq,        \* bound: last sequence number of an attempt
  Bodies,        \* event records a runner may send: [id, kind, status]
  Configs,       \* applied configurations
  NoConfig,      \* not yet prepared
  Commands,      \* command identifiers
  AbortCommands  \* those whose name is "abort"

VARIABLES
  current,   \* task.current_attempt_id as an attempt number, 0 when null
  taskState, \* task.status as far as launching and settling set it
  archived,  \* attempt the task's QualityRecord describes: 0 for a task never
             \* executed, NoRecord without a record
  status,    \* attempt.status, "absent" before the row exists
  nextSeq,   \* attempt.next_seq
  rows,      \* execution_events of the attempt: seq -> body
  config,    \* attempt.run_spec.config once prepared_at is set
  settled,   \* completeness.task_projection = "committed"
  fresh,     \* last_heartbeat_at is younger than the reconciler's minute
  command    \* execution_commands: [attempt, status, receipt]

vars == <<current, taskState, archived, status, nextSeq, rows, config,
          settled, fresh, command>>

Attempts == 1 .. MaxAttempts
Active == {"created", "running", "stopping"}
Final == {"success", "failed", "cancelled"} \* what run.finished can state
Terminal == Final \cup {"lost"}
Kinds == {"run.started", "record", "run.finished"}
Receipts == {"before_start", "control", "runtime", "error"}
NoCommand == [attempt |-> 0, status |-> "absent", receipt |-> "none"]
NoRecord == -1

\* A request carries a contiguous ascending run of journal records, which is
\* what EventSpool.batch selects.
BatchesFrom(i) ==
  UNION {[first : {i}, last : {j}, body : [i .. j -> Bodies]] : j \in i .. MaxSeq}
Batches == UNION {BatchesFrom(i) : i \in 0 .. MaxSeq}

ASSUME BoundsAssumption ==
  MaxAttempts \in Nat \ {0} /\ MaxSeq \in Nat

ASSUME BodiesAssumption ==
  /\ \A e \in Bodies : e.kind \in Kinds
  /\ \A e \in Bodies : e.kind = "run.finished" => e.status \in Final

ASSUME NamesAssumption ==
  /\ NoConfig \notin Configs
  /\ AbortCommands \subseteq Commands

-----------------------------------------------------------------------------

Init ==
  /\ current = 0
  /\ taskState = "ready"
  /\ archived = NoRecord
  /\ status = [a \in Attempts |-> "absent"]
  /\ nextSeq = [a \in Attempts |-> 0]
  /\ rows \in [Attempts -> [{} -> Bodies]]
  /\ config = [a \in Attempts |-> NoConfig]
  /\ settled = [a \in Attempts |-> FALSE]
  /\ fresh = [a \in Attempts |-> FALSE]
  /\ command = [c \in Commands |-> NoCommand]

\* locked_attempt: the caller's attempt exists and is the task's current one;
\* anything else is STALE_ATTEMPT or NOT_FOUND and changes nothing.
Owns(a) == a \in Attempts /\ current = a

(* Names that begin with Mut are seeded bugs: no specification uses them; *)
(* each run is repeated with one put in place of what follows it.          *)

\* No check for an attempt that is still active.
MutCreateBesideActive(a) ==
  /\ a = current + 1
  /\ archived = NoRecord
  /\ current' = a
  /\ taskState' = "in_progress"
  /\ status' = [status EXCEPT ![a] = "created"]
  /\ fresh' = [fresh EXCEPT ![a] = TRUE]
  /\ UNCHANGED <<archived, nextSeq, rows, config, settled, command>>

\* No check for an archived result.
MutCreateBehindArchive(a) ==
  /\ a = current + 1
  /\ current # 0 => status[current] \in Terminal
  /\ current' = a
  /\ taskState' = "in_progress"
  /\ status' = [status EXCEPT ![a] = "created"]
  /\ fresh' = [fresh EXCEPT ![a] = TRUE]
  /\ UNCHANGED <<archived, nextSeq, rows, config, settled, command>>

\* The task keeps showing the outcome of the previous attempt.
MutCreateKeepsOutcome(a) ==
  /\ a = current + 1
  /\ archived = NoRecord
  /\ current # 0 => status[current] \in Terminal
  /\ current' = a
  /\ status' = [status EXCEPT ![a] = "created"]
  /\ fresh' = [fresh EXCEPT ![a] = TRUE]
  /\ UNCHANGED <<taskState, archived, nextSeq, rows, config, settled, command>>

\* launch_attempt up to its first commit: create_attempt, then IN_PROGRESS.
CreateAttempt(a) ==
  /\ a = current + 1
  /\ archived = NoRecord
  /\ current # 0 => status[current] \in Terminal
  /\ current' = a
  /\ taskState' = "in_progress"
  /\ status' = [status EXCEPT ![a] = "created"]
  /\ fresh' = [fresh EXCEPT ![a] = TRUE]
  /\ UNCHANGED <<archived, nextSeq, rows, config, settled, command>>

PrepareAccepts(a, cfg) ==
  /\ Owns(a)
  /\ \/ config[a] = cfg
     \/ /\ config[a] = NoConfig
        /\ status[a] \in {"created", "stopping"}
        /\ nextSeq[a] = 0

PrepareConfiguration(a, cfg) ==
  /\ PrepareAccepts(a, cfg)
  /\ config' = [config EXCEPT ![a] = cfg]
  /\ UNCHANGED <<current, taskState, archived, status, nextSeq, rows, settled,
                 fresh, command>>

\* A known identifier is answered from its row; a new one is queued, and an
\* abort moves the attempt to "stopping" in the same transaction.
QueueCommand(a, c) ==
  /\ Owns(a)
  /\ command[c] = NoCommand
  /\ status[a] \in Active
  /\ command' = [command EXCEPT ![c] =
                   [attempt |-> a, status |-> "queued", receipt |-> "none"]]
  /\ status' = IF c \in AbortCommands
                 THEN [status EXCEPT ![a] = "stopping"] ELSE status
  /\ UNCHANGED <<current, taskState, archived, nextSeq, rows, config, settled,
                 fresh>>

Pending(a) ==
  {c \in Commands : command[c].attempt = a
                    /\ command[c].status \in {"queued", "delivered"}}

\* The commands an answer lists: none once the attempt has ended.
Offered(a) == IF status[a] \in Terminal THEN {} ELSE Pending(a)

Heartbeat(a) ==
  /\ Owns(a)
  /\ fresh' = [fresh EXCEPT ![a] = TRUE]
  /\ command' = [c \in Commands |->
                   IF c \in Offered(a)
                     THEN [command[c] EXCEPT !.status = "delivered"]
                     ELSE command[c]]
  /\ UNCHANGED <<current, taskState, archived, status, nextSeq, rows, config,
                 settled>>

\* A later receipt replaces the first.
MutAckAlways(a, c, receipt) == Owns(a) /\ command[c].attempt = a

\* A receipt is accepted once; the same one again is a duplicate, another one
\* is COMMAND_CONFLICT.  The attempt may have ended meanwhile.
AckAccepts(a, c, receipt) ==
  /\ Owns(a)
  /\ command[c].attempt = a
  /\ command[c].receipt \in {"none", receipt}

AcknowledgeCommand(a, c, receipt) ==
  /\ AckAccepts(a, c, receipt)
  /\ command' = [command EXCEPT ![c] =
                   [attempt |-> a, receipt |-> receipt,
                    status |-> IF receipt = "error" THEN "failed"
                                                    ELSE "acknowledged"]]
  /\ UNCHANGED <<current, taskState, archived, status, nextSeq, rows, config,
                 settled, fresh>>
-----------------------------------------------------------------------------
(* ingest_events: all records of a batch or none of them.                  *)

IsNew(a, b) == b.last >= nextSeq[a]

Extended(a, b) ==
  [n \in 0 .. b.last |-> IF n < nextSeq[a] THEN rows[a][n] ELSE b.body[n]]

\* A record the journal holds must be the same one (EVENT_CONFLICT).
RepeatsMatch(a, b) ==
  \A n \in b.first .. b.last : n < nextSeq[a] => rows[a][n] = b.body[n]

\* Records are still accepted when the attempt has ended.
MutFitsAfterEnd(a, b) ==
  /\ status[a] # "absent"
  /\ b.first <= nextSeq[a]
  /\ \A n \in nextSeq[a] .. b.last :
       /\ \A m \in 0 .. n - 1 : Extended(a, b)[m].id # b.body[n].id
       /\ n = 0 <=> b.body[n].kind = "run.started"
       /\ b.body[n].kind = "run.finished" => n = b.last

\* Records behind run.finished are accepted in its own batch.
MutFitsBehindFinish(a, b) ==
  /\ status[a] \in Active
  /\ b.first <= nextSeq[a]
  /\ \A n \in nextSeq[a] .. b.last :
       /\ \A m \in 0 .. n - 1 : Extended(a, b)[m].id # b.body[n].id
       /\ n = 0 <=> b.body[n].kind = "run.started"

\* ATTEMPT_FINISHED (a record behind run.finished included), EVENT_GAP, a
\* reused event id and INVALID_LIFECYCLE.
NewRecordsFit(a, b) ==
  /\ status[a] \in Active
  /\ b.first <= nextSeq[a]
  /\ \A n \in nextSeq[a] .. b.last :
       /\ \A m \in 0 .. n - 1 : Extended(a, b)[m].id # b.body[n].id
       /\ n = 0 <=> b.body[n].kind = "run.started"
       /\ b.body[n].kind = "run.finished" => n = b.last

Accepts(a, b) ==
  /\ Owns(a)
  /\ RepeatsMatch(a, b)
  /\ IsNew(a, b) => NewRecordsFit(a, b)

Finishes(b) == b.body[b.last].kind = "run.finished"

\* run.finished does not end the attempt.
MutStatusKeepsRunning(a, b) ==
  IF nextSeq[a] = 0 /\ status[a] # "stopping" THEN "running" ELSE status[a]

StatusAfter(a, b) ==
  IF Finishes(b) THEN b.body[b.last].status
  ELSE IF nextSeq[a] = 0 /\ status[a] # "stopping" THEN "running"
  ELSE status[a]

\* A delivered command survives the end of its attempt.
MutEndQueuedOnly(a) ==
  [c \in Commands |-> IF c \in Pending(a) /\ command[c].status = "queued"
                        THEN [command[c] EXCEPT !.status = "unknown"]
                        ELSE command[c]]

\* When the attempt ends, a command nobody has acknowledged becomes "unknown".
EndPending(a) ==
  [c \in Commands |-> IF c \in Pending(a)
                        THEN [command[c] EXCEPT !.status = "unknown"]
                        ELSE command[c]]

\* next_seq is the last sequence number, not the one after it.
MutIngestOffByOne(a, b) ==
  /\ Accepts(a, b)
  /\ IsNew(a, b)
  /\ rows' = [rows EXCEPT ![a] = Extended(a, b)]
  /\ nextSeq' = [nextSeq EXCEPT ![a] = b.last]
  /\ status' = [status EXCEPT ![a] = StatusAfter(a, b)]
  /\ fresh' = [fresh EXCEPT ![a] = TRUE]
  /\ command' = IF Finishes(b) THEN EndPending(a) ELSE command
  /\ UNCHANGED <<current, taskState, archived, config, settled>>

IngestEvents(a, b) ==
  /\ Accepts(a, b)
  /\ IsNew(a, b)
  /\ rows' = [rows EXCEPT ![a] = Extended(a, b)]
  /\ nextSeq' = [nextSeq EXCEPT ![a] = b.last + 1]
  /\ status' = [status EXCEPT ![a] = StatusAfter(a, b)]
  /\ fresh' = [fresh EXCEPT ![a] = TRUE]
  /\ command' = IF Finishes(b) THEN EndPending(a) ELSE command
  /\ UNCHANGED <<current, taskState, archived, config, settled>>
-----------------------------------------------------------------------------

\* The outcome is read from the checks of the result, not from the attempt.
MutFinishTrustsResult(a, valid) ==
  /\ Owns(a)
  /\ status[a] \in Active \/ ~settled[a]
  /\ status' = IF status[a] \in Active
                 THEN [status EXCEPT ![a] = "lost"] ELSE status
  /\ command' = IF status[a] \in Active THEN EndPending(a) ELSE command
  /\ settled' = [settled EXCEPT ![a] = TRUE]
  /\ taskState' = IF settled[a] THEN taskState
                  ELSE IF valid THEN "done" ELSE "failed"
  /\ UNCHANGED <<current, archived, nextSeq, rows, config, fresh>>

\* finish_interrupted_attempt behind its spool recovery, and the same calls in
\* the failure path of launch_attempt: mark_attempt_lost unless the attempt has
\* ended, then settle_task unless it has run, in one transaction.  "valid":
\* the recorded usage and artifacts pass settle_task's checks.
FinishInterrupted(a, valid) ==
  /\ Owns(a)
  /\ status[a] \in Active \/ ~settled[a]
  /\ status' = IF status[a] \in Active
                 THEN [status EXCEPT ![a] = "lost"] ELSE status
  /\ command' = IF status[a] \in Active THEN EndPending(a) ELSE command
  /\ settled' = [settled EXCEPT ![a] = TRUE]
  /\ taskState' = IF settled[a] THEN taskState
                  ELSE IF status[a] = "success" /\ valid THEN "done"
                  ELSE "failed"
  /\ UNCHANGED <<current, archived, nextSeq, rows, config, fresh>>

\* The record is built while its attempt still runs.
MutArchiveRunning ==
  /\ archived = NoRecord
  /\ archived' = current
  /\ UNCHANGED <<current, taskState, status, nextSeq, rows, config, settled,
                 fresh, command>>

\* build_quality_record, for whoever calls it: the workflow, the backfill, an
\* evaluation on demand.  It asks for no outcome of the task: the attempt, if
\* there is one, must have ended, and may not be projected yet.  A record that
\* exists is only brought up to date.
ArchiveResults ==
  /\ archived = NoRecord
  /\ current # 0 => status[current] \in Terminal
  /\ archived' = current
  /\ UNCHANGED <<current, taskState, status, nextSeq, rows, config, settled,
                 fresh, command>>

\* Retention deletes a record that has grown old.
RetentionPrunes ==
  /\ archived # NoRecord
  /\ archived' = NoRecord
  /\ UNCHANGED <<current, taskState, status, nextSeq, rows, config, settled,
                 fresh, command>>

\* A minute passes without an answered heartbeat or an accepted event.  (Only the
\* age of a current attempt is ever read.)
HeartbeatAges(a) ==
  /\ a = current
  /\ fresh[a]
  /\ fresh' = [fresh EXCEPT ![a] = FALSE]
  /\ UNCHANGED <<current, taskState, archived, status, nextSeq, rows, config,
                 settled, command>>

Next ==
  \/ \E a \in Attempts :
       \/ CreateAttempt(a)
       \/ \E cfg \in Configs : PrepareConfiguration(a, cfg)
       \/ \E c \in Commands : QueueCommand(a, c)
       \/ Heartbeat(a)
       \/ \E c \in Commands, r \in Receipts : AcknowledgeCommand(a, c, r)
       \/ \E b \in Batches : IngestEvents(a, b)
       \/ \E valid \in BOOLEAN : FinishInterrupted(a, valid)
       \/ HeartbeatAges(a)
  \/ ArchiveResults
  \/ RetentionPrunes

Spec == Init /\ [][Next]_vars
-----------------------------------------------------------------------------
(* Properties                                                              *)

\* Every variable keeps its type; the rows of an attempt are exactly the
\* sequence numbers below its next_seq.
TypeOK ==
  /\ current \in 0 .. MaxAttempts
  /\ taskState \in {"ready", "in_progress", "done", "failed"}
  /\ archived \in {NoRecord} \cup 0 .. MaxAttempts
  /\ status \in [Attempts -> Active \cup Terminal \cup {"absent"}]
  /\ nextSeq \in [Attempts -> 0 .. MaxSeq + 1]
  /\ DOMAIN rows = Attempts
  /\ \A a \in Attempts : rows[a] \in [0 .. nextSeq[a] - 1 -> Bodies]
  /\ config \in [Attempts -> Configs \cup {NoConfig}]
  /\ settled \in [Attempts -> BOOLEAN]
  /\ fresh \in [Attempts -> BOOLEAN]
  /\ command \in [Commands ->
       [attempt : 0 .. MaxAttempts,
        status : {"absent", "queued", "delivered", "unknown", "acknowledged",
                  "failed"},
        receipt : Receipts \cup {"none"}]]

\* Attempts are numbered without gaps and only the newest can be active: what
\* the partial index uq_execution_attempt_active forbids is never even tried.
SingleActiveAttempt ==
  \A a \in Attempts :
    /\ status[a] = "absent" <=> a > current
    /\ status[a] \in Active => a = current

\* An attempt has a final verdict exactly when its journal ends in the
\* run.finished record that states it; no record ever follows that one, and
\* the journal of every other attempt holds none.
VerdictIsJournalled ==
  \A a \in Attempts :
    /\ \A n \in DOMAIN rows[a] :
         rows[a][n].kind = "run.finished" =>
           n = nextSeq[a] - 1 /\ status[a] = rows[a][n].status
    /\ status[a] \in Final =>
         \E n \in DOMAIN rows[a] : rows[a][n].kind = "run.finished"

\* A command that still waits for its runner belongs to a running attempt:
\* ending an attempt by any path closes its commands too.
CommandsEndWithAttempt ==
  \A c \in Commands :
    command[c].status \in {"queued", "delivered"} =>
      /\ Owns(command[c].attempt)
      /\ status[command[c].attempt] \in Active

\* A record describes the newest attempt, and that one has ended, projected or
\* not; for as long as the record is there no further attempt starts behind it.
\* A projection is of an attempt that has ended.
ArchivePinsAttempt ==
  /\ archived # NoRecord =>
       archived = current /\ (current # 0 => status[current] \in Terminal)
  /\ \A a \in Attempts : settled[a] => status[a] \in Terminal

\* The task shows the outcome of its newest attempt and of no other: a settled
\* task has a settled current attempt, and "done" means that one succeeded.
TaskShowsCurrent ==
  /\ taskState = "ready" <=> current = 0
  /\ taskState \in {"done", "failed"} => settled[current]
  /\ taskState = "in_progress" => ~settled[current]
  /\ taskState = "done" => status[current] = "success"

\* Attempts, task and archive agree on one current attempt: the only one that
\* may be active, the one whose outcome the task shows, and the one an archived
\* record describes.
OneCurrentAttempt == SingleActiveAttempt /\ ArchivePinsAttempt /\ TaskShowsCurrent

\* The end of an attempt leaves nothing open: its verdict is the last record of
\* its journal, and none of its commands still waits for a runner.
EndSettlesAttempt == VerdictIsJournalled /\ CommandsEndWithAttempt

\* A stored record, a verdict and a superseded attempt never change again;
\* journals only grow at their end.
EvidenceFrozen ==
  [][\A a \in Attempts :
       /\ \A n \in DOMAIN rows[a] : n \in DOMAIN rows'[a] /\ rows'[a][n] = rows[a][n]
       /\ status[a] \in Terminal => status'[a] = status[a] /\ rows'[a] = rows[a]
       /\ a < current => config'[a] = config[a] /\ settled'[a] = settled[a]]_vars

\* The settings an execution ran with are fixed before its first record and
\* never replaced, and a command's receipt is never replaced.
ReceiptsFrozen ==
  [][/\ \A a \in Attempts :
          config'[a] # config[a] => config[a] = NoConfig /\ nextSeq'[a] = 0
     /\ \A c \in Commands :
          command[c].receipt # "none" => command'[c] = command[c]]_vars

\* No request, however late or repeated, rewrites history: records, verdicts,
\* superseded attempts, applied settings and receipts stay as they are.
HistoryFrozen == EvidenceFrozen /\ ReceiptsFrozen

\* The journal implements the promise of AttemptLifecycle.
Lifecycle == INSTANCE AttemptLifecycle WITH
  owner <- current,
  verdict <- [a \in Attempts |-> IF status[a] \in Active THEN "open" ELSE status[a]],
  log <- rows

LifecycleSpec == Lifecycle!Spec
=============================================================================
