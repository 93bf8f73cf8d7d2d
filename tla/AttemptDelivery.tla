--------------------------- MODULE AttemptDelivery ---------------------------
(***************************************************************************)
(* The attempt journal with the program around it: launch_attempt, the     *)
(* runner of each attempt (connector supervision, delivery task, control   *)
(* task), its durable spool, the HTTP requests between runner and server,  *)
(* and the recovery of a spool by execute()'s last step and by the         *)
(* reconciler.  A step here is what the code does between two awaits.      *)
(***************************************************************************)
EXTENDS AttemptJournal, FiniteSets

CONSTANTS
  NoId,        \* no command
  Verdicts,    \* statuses the connector may report
  BatchLimit,  \* records per delivered batch (128 in the code)
  MaxWire,     \* bound: event requests the server has not handled yet
  MaxCrashes,  \* bound: crashes of runner or reconciler processes
  MaxFaults,   \* bound: spool files found unreadable during recovery
  MaxLosses,   \* bound: requests or answers the network loses or delays
  Replicas     \* TRUE: a reconciler may run beside the runner's process

VARIABLES
  runner,    \* attempt -> what AttemptRunner and its tasks hold in memory
  container, \* attempt -> its connector: none, idle, busy (executing), down
  spool,     \* attempt -> all records committed to spool.sqlite, seq -> body
  acked,     \* attempt -> acked_through; records above it are pending
  ledger,    \* command -> its row in the spool: "absent", "executing", receipt
  post,      \* attempt -> the batch the delivery task awaits an answer for
  answer,    \* attempt -> the answer on its way to the delivery task
  wire,      \* event requests the server may still handle
  recovery,  \* recoverer -> where it is in finish_interrupted_attempt
  budget,    \* crashes, faults and losses that may still happen
  effects    \* observation only: control requests sent to the connector

disk == <<spool, acked, ledger>>
net == <<post, answer, wire>>
runnerVars == <<runner, container, disk, net, recovery, budget, effects>>
allVars == <<vars, runnerVars>>

Recoverers == 0 .. MaxAttempts \* 0: the reconciler; a: the job of attempt a
NoBatch == [first |-> 0, last |-> -1]
NoAnswer == [kind |-> "none", through |-> -1]
Config == CHOOSE cfg \in Configs : TRUE \* the connector's effective settings
Up == {"idle", "busy"}

\* Event records: identifiers are unique in the connector, so the sequence
\* number stands for the identifier.
Body(n, kind, verdict) == [id |-> n, kind |-> kind, status |-> verdict]
RunnerBodies ==
  {Body(0, "run.started", "none")}
  \cup {Body(n, "record", "none") : n \in 1 .. MaxSeq - 1}
  \cup {Body(n, "run.finished", s) : n \in 1 .. MaxSeq, s \in Final}

ASSUME DeliveryAssumption ==
  /\ Configs # {}
  /\ RunnerBodies \subseteq Bodies
  /\ NoId \notin Commands
  /\ Verdicts \subseteq Final
  /\ MaxSeq > 0 /\ BatchLimit \in Nat \ {0} /\ MaxWire \in Nat
  /\ MaxCrashes \in Nat /\ MaxFaults \in Nat /\ MaxLosses \in Nat
  /\ Replicas \in BOOLEAN

NoRunner ==
  [phase |-> "none",       \* spawning, starting, preparing, prepared, running,
                           \* expiring, closing, finalizing, flushing,
                           \* leaving, gone
   outcome |-> "none",     \* status of the connector's run.finished, if seen
   failure |-> "none",     \* why run() left its main wait
   cancelled |-> FALSE,
   delivering |-> FALSE,   \* the delivery task runs
   control |-> "off",      \* the control task: off, first, flush, work
   todo |-> {},            \* commands of the last heartbeat still to process
   doing |-> NoId,         \* the command being executed
   sent |-> FALSE]         \* its control request went out

NoRecovery == [pc |-> "idle", attempt |-> 0, through |-> -1, cmd |-> NoId]

DeliveryInit ==
  /\ Init
  /\ runner = [a \in Attempts |-> NoRunner]
  /\ container = [a \in Attempts |-> "none"]
  /\ spool \in [Attempts -> [{} -> Bodies]]
  /\ acked = [a \in Attempts |-> -1]
  /\ ledger = [c \in Commands |-> "absent"]
  /\ post = [a \in Attempts |-> NoBatch]
  /\ answer = [a \in Attempts |-> NoAnswer]
  /\ wire = {}
  /\ recovery = [r \in Recoverers |-> NoRecovery]
  /\ budget = [crash |-> MaxCrashes, fault |-> MaxFaults, loss |-> MaxLosses]
  /\ effects = [c \in Commands |-> 0]

SpoolNext(a) == Cardinality(DOMAIN spool[a])
Unacked(a) == acked[a] + 1 .. SpoolNext(a) - 1
Append(a, kind, verdict) ==
  spool' = [spool EXCEPT ![a] =
    [n \in 0 .. SpoolNext(a) |->
       IF n < SpoolNext(a) THEN spool[a][n] ELSE Body(n, kind, verdict)]]

\* EventSpool.batch: the oldest pending records, up to the limit.
Batch(a) ==
  LET first == acked[a] + 1
      last == IF first + BatchLimit < SpoolNext(a) THEN acked[a] + BatchLimit
                                                   ELSE SpoolNext(a) - 1
  IN [first |-> first, last |-> last,
      body |-> [n \in first .. last |-> spool[a][n]]]

\* The receipt is taken for next_seq and stored one further.
MutDropOneMore(a, through) ==
  acked' = [acked EXCEPT ![a] = IF through > @ THEN through + 1 ELSE @]

\* EventSpool.acknowledge: drop what is stored elsewhere, never move back.
Drop(a, through) ==
  acked' = [acked EXCEPT ![a] = IF through > @ THEN through ELSE @]

Completed(a) == {c \in Commands : command[c].attempt = a /\ ledger[c] \in Receipts}
Live(a) == runner[a].phase \notin {"none", "gone"}
Started(a) == runner[a].phase \in {"running", "expiring"}
Streaming(a) == (Started(a) \/ runner[a].phase = "closing") /\ runner[a].outcome = "none"
\* An ended attempt counts as settled.
MutUnfinishedActive(a) == Owns(a) /\ status[a] \in Active

Unfinished(a) == Owns(a) /\ (status[a] \in Active \/ ~settled[a])
Spend(what) ==
  budget[what] > 0 /\ budget' = [budget EXCEPT ![what] = @ - 1]

Move(a, phase) == runner' = [runner EXCEPT ![a].phase = phase]
\* Leaving the run, or the process, forgets what only memory held.
Forget(a, phase) == runner' = [runner EXCEPT ![a] = [NoRunner EXCEPT !.phase = phase]]
\* The finally block: the control task and what it was doing are cancelled.
Fail(a, why) ==
  runner' = [runner EXCEPT ![a] = [@ EXCEPT !.phase = "closing", !.failure = why,
                                            !.control = "off", !.todo = {},
                                            !.doing = NoId, !.sent = FALSE]]
-----------------------------------------------------------------------------
(* launch_attempt                                                          *)

\* No look at the containers of earlier attempts.
MutLaunchBesideContainer(a) ==
  /\ CreateAttempt(a)
  /\ Move(a, "spawning")
  /\ UNCHANGED <<container, disk, net, recovery, budget, effects>>

\* Refused as PREVIOUS_CONTAINER while a container of the task is up.
Launch(a) ==
  /\ \A p \in Attempts : container[p] \notin Up
  /\ CreateAttempt(a)
  /\ Move(a, "spawning")
  /\ UNCHANGED <<container, disk, net, recovery, budget, effects>>

\* The container is up and the attempt, rechecked under its lock, is alive.
SpawnSucceeds(a) ==
  /\ runner[a].phase = "spawning"
  /\ Owns(a) /\ status[a] \in Active
  /\ Move(a, "starting")
  /\ container' = [container EXCEPT ![a] = "idle"]
  /\ UNCHANGED <<vars, disk, net, recovery, budget, effects>>

\* No container, or the attempt has ended or lost its task meanwhile and the
\* container is stopped; a failed stop is ignored and leaves it up.
SpawnFails(a, left) ==
  /\ runner[a].phase = "spawning"
  /\ Move(a, "gone")
  /\ container' = [container EXCEPT ![a] = IF left THEN "idle" ELSE "down"]
  /\ IF Unfinished(a) THEN FinishInterrupted(a, FALSE) ELSE UNCHANGED vars
  /\ UNCHANGED <<disk, net, recovery, budget, effects>>
-----------------------------------------------------------------------------
(* AttemptRunner.run up to the start of the connector                      *)

\* The first heartbeat, before any task exists: an abort it lists is receipted
\* on the spot.  The whole list goes to the control task, which stops at once
\* when the server says the attempt has ended (and, as any dead service task,
\* lets RunFails follow).
FirstHeartbeat(a) ==
  /\ runner[a].phase = "starting"
  /\ Heartbeat(a)
  /\ LET aborts == Offered(a) \cap AbortCommands IN
     /\ ledger' = [c \in Commands |->
                     IF c \in aborts THEN "before_start" ELSE ledger[c]]
     /\ runner' = [runner EXCEPT ![a] = [@ EXCEPT !.phase = "preparing", !.delivering = TRUE,
                                                  !.cancelled = aborts # {}, !.todo = Offered(a),
                                                  !.control = IF status[a] \in Terminal THEN "off" ELSE "first"]]
  /\ UNCHANGED <<container, spool, acked, net, recovery, budget, effects>>

\* Unreachable server, or its answer is lost: the runner starts without it.
FirstHeartbeatLost(a) ==
  /\ runner[a].phase = "starting"
  /\ Spend("loss")
  /\ Heartbeat(a) \/ UNCHANGED vars
  /\ runner' = [runner EXCEPT ![a] = [@ EXCEPT !.phase = "preparing", !.delivering = TRUE,
                                               !.control = "flush"]]
  /\ UNCHANGED <<container, disk, net, recovery, effects>>

FirstHeartbeatRejected(a) ==
  /\ runner[a].phase = "starting"
  /\ ~Owns(a)
  /\ Move(a, "leaving")
  /\ UNCHANGED <<vars, container, disk, net, recovery, budget, effects>>

\* The server saves the effective settings; when the answer is lost the runner
\* asks again.
Prepare(a, answered) ==
  /\ runner[a].phase = "preparing"
  /\ ~runner[a].cancelled
  /\ PrepareConfiguration(a, Config)
  /\ IF answered THEN Move(a, "prepared") /\ UNCHANGED budget
                 ELSE Spend("loss") /\ UNCHANGED runner
  /\ UNCHANGED <<container, disk, net, recovery, effects>>

Start(a) ==
  /\ runner[a].phase = "prepared"
  /\ ~runner[a].cancelled
  /\ container[a] = "idle"
  /\ Move(a, "running")
  /\ container' = [container EXCEPT ![a] = "busy"]
  /\ UNCHANGED <<vars, disk, net, recovery, budget, effects>>

\* CANCELLED_BEFORE_START, and everything else that can go wrong before start:
\* a manifest mismatch, a rejected or unavailable configuration, a dead worker.
StartupFails(a) ==
  /\ runner[a].phase \in {"preparing", "prepared"}
  /\ Fail(a, "error")
  /\ UNCHANGED <<vars, container, disk, net, recovery, budget, effects>>
-----------------------------------------------------------------------------
(* The connector's event stream and the main wait                          *)

\* Records reach the spool until the connector has been closed.
ConnectorRecord(a) ==
  /\ Streaming(a)
  /\ SpoolNext(a) < MaxSeq
  /\ Append(a, IF SpoolNext(a) = 0 THEN "run.started" ELSE "record", "none")
  /\ UNCHANGED <<vars, runner, container, acked, ledger, net, recovery, budget,
                 effects>>

\* The connector's own verdict is kept in memory; finalization journals one.
ConnectorFinishes(a, verdict) ==
  /\ Streaming(a)
  /\ SpoolNext(a) > 0
  /\ runner' = [runner EXCEPT ![a].outcome = verdict]
  /\ UNCHANGED <<vars, container, disk, net, recovery, budget, effects>>

ConsumerDone(a) ==
  /\ runner[a].phase = "running"
  /\ runner[a].outcome # "none"
  /\ Fail(a, "none")
  /\ UNCHANGED <<vars, container, disk, net, recovery, budget, effects>>

\* The stream breaks off, the abort watchdog barks, the runner is interrupted
\* or a service task has died.
RunFails(a) ==
  /\ runner[a].phase = "running"
  /\ runner[a].outcome = "none"
  /\ Fail(a, "error")
  /\ UNCHANGED <<vars, container, disk, net, recovery, budget, effects>>

\* The wall time is over: the runner asks the connector to stop and gives it a
\* grace period, with the control task still at work.
Deadline(a) ==
  /\ runner[a].phase = "running"
  /\ runner[a].outcome = "none"
  /\ runner' = [runner EXCEPT ![a] = [@ EXCEPT !.phase = "expiring", !.cancelled = TRUE]]
  /\ UNCHANGED <<vars, container, disk, net, recovery, budget, effects>>

GraceEnds(a) ==
  /\ runner[a].phase = "expiring"
  /\ Fail(a, "deadline")
  /\ UNCHANGED <<vars, container, disk, net, recovery, budget, effects>>
-----------------------------------------------------------------------------
(* Finalization                                                            *)

\* connector.close, then the consumer is cancelled.  A run without a terminal
\* record gets at least a synthetic run.started.
CloseConnector(a, confirmed) ==
  /\ runner[a].phase = "closing"
  /\ runner' = [runner EXCEPT ![a] = [@ EXCEPT !.phase = "finalizing",
                                               !.failure = IF confirmed THEN runner[a].failure ELSE "shutdown"]]
  /\ container' = IF confirmed THEN [container EXCEPT ![a] = "down"] ELSE container
  /\ IF runner[a].outcome = "none" /\ SpoolNext(a) = 0
       THEN Append(a, "run.started", "none") ELSE UNCHANGED spool
  /\ UNCHANGED <<vars, acked, ledger, net, recovery, budget, effects>>

\* The finish hook journals the artifacts it delivers.
EmitArtifact(a) ==
  /\ runner[a].phase = "finalizing"
  /\ SpoolNext(a) < MaxSeq
  /\ Append(a, "record", "none")
  /\ UNCHANGED <<vars, runner, container, acked, ledger, net, recovery, budget,
                 effects>>

\* The connector's own verdict comes first.
MutVerdictOutcomeFirst(a) ==
  IF runner[a].outcome # "none" THEN runner[a].outcome
  ELSE IF runner[a].cancelled THEN "cancelled" ELSE "failed"

\* A deadline or an unconfirmed shutdown beats an abort, an abort beats any
\* other failure, and only an undisturbed run keeps the connector's verdict.
Verdict(a) ==
  IF runner[a].failure \in {"deadline", "shutdown"} THEN "failed"
  ELSE IF runner[a].cancelled THEN "cancelled"
  ELSE IF runner[a].failure = "error" THEN "failed"
  ELSE runner[a].outcome

\* A failed artifact collection, or a record too large for the journal, turns
\* the verdict into "failed".
JournalVerdict(a, collected) ==
  /\ runner[a].phase = "finalizing"
  /\ Append(a, "run.finished", IF collected THEN Verdict(a) ELSE "failed")
  /\ Move(a, "flushing")
  /\ UNCHANGED <<vars, container, acked, ledger, net, recovery, budget, effects>>

\* Everything is delivered, the delivery task failed, or flush_seconds passed.
LeaveRun(a) ==
  /\ runner[a].phase = "flushing"
  /\ Forget(a, "leaving")
  /\ post' = [post EXCEPT ![a] = NoBatch]
  /\ answer' = [answer EXCEPT ![a] = NoAnswer]
  /\ UNCHANGED <<vars, container, disk, wire, recovery, budget, effects>>
-----------------------------------------------------------------------------
(* AttemptRunner._deliver, HTTPAttemptAPI.post and receive_events          *)

SendBatch(a) ==
  /\ runner[a].delivering
  /\ post[a] = NoBatch
  /\ Unacked(a) # {}
  /\ LET m == [attempt |-> a, batch |-> Batch(a)] IN
     /\ Cardinality(wire \cup {m}) <= MaxWire
     /\ wire' = wire \cup {m}
     /\ post' = [post EXCEPT ![a] = m.batch]
  /\ UNCHANGED <<vars, runner, container, disk, answer, recovery, budget, effects>>

\* The server handles a request, however old; the answer finds its caller only
\* while that caller still waits.  "again": another copy, sent when this one had
\* been given up, is still under way.
HandleEvents(m, again) ==
  LET a == m.attempt
      b == m.batch
      ok == Accepts(a, b)
  IN
  /\ IF again THEN Spend("loss") /\ UNCHANGED wire
              ELSE UNCHANGED budget /\ wire' = wire \ {m}
  /\ IF ok /\ IsNew(a, b) THEN IngestEvents(a, b) ELSE UNCHANGED vars
  /\ answer' = IF post[a] # b THEN answer
               ELSE [answer EXCEPT ![a] =
                       [kind |-> IF ok THEN "receipt" ELSE "rejected",
                        through |-> IF ok THEN nextSeq'[a] - 1 ELSE -1]]
  /\ UNCHANGED <<runner, container, disk, post, recovery, effects>>

\* A failed request counts as delivered.
MutGiveUpDrops(a, lost) ==
  /\ runner[a].delivering
  /\ post[a] # NoBatch
  /\ Spend("loss")
  /\ Drop(a, post[a].last)
  /\ post' = [post EXCEPT ![a] = NoBatch]
  /\ answer' = [answer EXCEPT ![a] = NoAnswer]
  /\ wire' = IF lost THEN wire \ {[attempt |-> a, batch |-> post[a]]} ELSE wire
  /\ UNCHANGED <<vars, runner, container, spool, ledger, recovery, effects>>

\* A transport error, a 429 or a 5xx: the task forgets the request and sends
\* again.  The request itself is lost or still under way.
GiveUp(a, lost) ==
  /\ runner[a].delivering
  /\ post[a] # NoBatch
  /\ Spend("loss")
  /\ post' = [post EXCEPT ![a] = NoBatch]
  /\ answer' = [answer EXCEPT ![a] = NoAnswer]
  /\ wire' = IF lost THEN wire \ {[attempt |-> a, batch |-> post[a]]} ELSE wire
  /\ UNCHANGED <<vars, runner, container, disk, recovery, effects>>

\* The receipt must reach the end of the batch and stay inside the journal;
\* any other answer ends the delivery task.
ReceiptFits(a) ==
  /\ answer[a].kind = "receipt"
  /\ answer[a].through >= post[a].last
  /\ answer[a].through < SpoolNext(a)

TakeAnswer(a) ==
  /\ runner[a].delivering
  /\ answer[a] # NoAnswer
  /\ IF ReceiptFits(a)
       THEN Drop(a, answer[a].through) /\ UNCHANGED runner
       ELSE /\ runner' = [runner EXCEPT ![a].delivering = FALSE]
            /\ UNCHANGED acked
  /\ post' = [post EXCEPT ![a] = NoBatch]
  /\ answer' = [answer EXCEPT ![a] = NoAnswer]
  /\ UNCHANGED <<vars, container, spool, ledger, wire, recovery, budget, effects>>
-----------------------------------------------------------------------------
(* AttemptRunner._control and _flush_command_receipts                      *)

\* Receipts go out at the top of the control loop and once more when the last
\* record has been delivered.
Flushing(a) ==
  \/ runner[a].control \in {"first", "flush"}
  \/ runner[a].phase = "flushing" /\ Unacked(a) = {}

SendReceipt(a, c, answered) ==
  /\ Flushing(a)
  /\ c \in Completed(a)
  /\ AcknowledgeCommand(a, c, ledger[c])
  /\ IF answered THEN ledger' = [ledger EXCEPT ![c] = "absent"] /\ UNCHANGED budget
                 ELSE Spend("loss") /\ UNCHANGED ledger
  /\ UNCHANGED <<runner, container, spool, acked, net, recovery, effects>>

\* Another heartbeat, once no receipt is left to send.  The task ends when the
\* server says the attempt has.
Poll(a, answered) ==
  /\ runner[a].control = "flush"
  /\ Completed(a) = {}
  /\ Heartbeat(a)
  /\ IF answered
       THEN /\ runner' = [runner EXCEPT ![a] = [@ EXCEPT !.todo = Offered(a),
                                                         !.control = IF status[a] \in Terminal THEN "off" ELSE "work"]]
            /\ UNCHANGED budget
       ELSE Spend("loss") /\ UNCHANGED runner
  /\ UNCHANGED <<container, disk, net, recovery, effects>>

\* A receipt that conflicts with the recorded one, or any request of a
\* superseded attempt, is refused and ends the control task.
ControlRejected(a) ==
  /\ runner[a].control \in {"first", "flush"}
  /\ ~Owns(a) \/ \E c \in Completed(a) : ~AckAccepts(a, c, ledger[c])
  /\ runner' = [runner EXCEPT ![a].control = "off"]
  /\ UNCHANGED <<vars, container, disk, net, recovery, budget, effects>>

\* The first pass works on the heartbeat run() made; its list is as old as that.
UseFirstHeartbeat(a) ==
  /\ runner[a].control = "first"
  /\ Completed(a) = {}
  /\ runner' = [runner EXCEPT ![a].control = "work"]
  /\ UNCHANGED <<vars, container, disk, net, recovery, budget, effects>>

\* An abort does not mark the run as cancelled.
MutBeginWithoutCancel(a, c) ==
  /\ runner[a].control = "work"
  /\ runner[a].doing = NoId
  /\ c \in runner[a].todo
  /\ ledger[c] = "absent"
  /\ ledger' = [ledger EXCEPT ![c] = "executing"]
  /\ runner' = [runner EXCEPT ![a] = [@ EXCEPT !.todo = runner[a].todo \ {c}, !.doing = c]]
  /\ UNCHANGED <<vars, container, spool, acked, net, recovery, budget, effects>>

\* The row is written before the connector hears of the command.  (A row found
\* here would be an interrupted execution; a journal is claimed by one run, and
\* that run has flushed its receipts, so there is none.)
BeginCommand(a, c) ==
  /\ runner[a].control = "work"
  /\ runner[a].doing = NoId
  /\ c \in runner[a].todo
  /\ ledger[c] = "absent"
  /\ ledger' = [ledger EXCEPT ![c] = "executing"]
  /\ runner' = [runner EXCEPT ![a] = [@ EXCEPT !.todo = runner[a].todo \ {c}, !.doing = c,
                                               !.cancelled = runner[a].cancelled \/ c \in AbortCommands]]
  /\ UNCHANGED <<vars, container, spool, acked, net, recovery, budget, effects>>

\* The command does not wait for the start.
MutControlBeforeStart(a) ==
  /\ runner[a].doing # NoId
  /\ ~runner[a].sent
  /\ runner' = [runner EXCEPT ![a].sent = TRUE]
  /\ effects' = [effects EXCEPT ![runner[a].doing] = @ + 1]
  /\ UNCHANGED <<vars, container, disk, net, recovery, budget>>

\* Once the connector has started, it is asked to execute the command.
SendControl(a) ==
  /\ Started(a)
  /\ runner[a].doing # NoId
  /\ ~runner[a].sent
  /\ runner' = [runner EXCEPT ![a].sent = TRUE]
  /\ effects' = [effects EXCEPT ![runner[a].doing] = @ + 1]
  /\ UNCHANGED <<vars, container, disk, net, recovery, budget>>

\* The connector answers or fails, or the runtime stands in for an abort the
\* connector does not know.
FinishCommand(a, receipt) ==
  /\ Started(a)
  /\ runner[a].doing # NoId
  /\ \/ receipt \in {"control", "error"} /\ runner[a].sent
     \/ receipt = "runtime" /\ ~runner[a].sent /\ runner[a].doing \in AbortCommands
  /\ ledger' = [ledger EXCEPT ![runner[a].doing] = receipt]
  /\ runner' = [runner EXCEPT ![a] = [@ EXCEPT !.doing = NoId, !.sent = FALSE]]
  /\ UNCHANGED <<vars, container, spool, acked, net, recovery, budget, effects>>

ListDone(a) ==
  /\ runner[a].control = "work"
  /\ runner[a].todo = {}
  /\ runner[a].doing = NoId
  /\ runner' = [runner EXCEPT ![a].control = "flush"]
  /\ UNCHANGED <<vars, container, disk, net, recovery, budget, effects>>
-----------------------------------------------------------------------------
(* finish_interrupted_attempt: recover_spool, mark_attempt_lost, settle    *)

\* The job finishes without replaying its spool.
MutJobSkipsReplay(a) ==
  /\ runner[a].phase = "leaving"
  /\ recovery[a].pc = "idle"
  /\ recovery' = [recovery EXCEPT ![a] =
       [NoRecovery EXCEPT !.pc = "finish", !.attempt = a]]
  /\ UNCHANGED <<vars, runner, container, disk, net, budget, effects>>

\* The last step of execute(); a superseded attempt is left alone.
JobRecovers(a) ==
  /\ runner[a].phase = "leaving"
  /\ recovery[a].pc = "idle"
  /\ recovery' = [recovery EXCEPT ![a] =
       [NoRecovery EXCEPT !.pc = IF Owns(a) THEN "replay" ELSE "finish", !.attempt = a]]
  /\ UNCHANGED <<vars, runner, container, disk, net, budget, effects>>

\* reconcile_attempts: the current attempt is unfinished, its heartbeat old and
\* its job not one of this process.  Its container is stopped first, if the
\* stop works.
Reconcile(a, stopped) ==
  /\ recovery[0].pc = "idle"
  /\ Unfinished(a)
  /\ ~fresh[a]
  /\ Replicas \/ ~Live(a)
  /\ container' = IF stopped THEN [container EXCEPT ![a] = "down"] ELSE container
  /\ recovery' = [recovery EXCEPT ![0] =
                    [NoRecovery EXCEPT !.pc = "replay", !.attempt = a]]
  /\ UNCHANGED <<vars, runner, disk, net, budget, effects>>

\* The reconciler's last loop: containers of ended attempts.
SweepContainer(a) ==
  /\ container[a] \in Up
  /\ status[a] \in Terminal
  /\ container' = [container EXCEPT ![a] = "down"]
  /\ UNCHANGED <<vars, runner, disk, net, recovery, budget, effects>>

At(r, pc) == recovery[r].pc = pc
GoTo(r, pc) == recovery' = [recovery EXCEPT ![r].pc = pc]

\* A batch is committed by the server first and dropped from the spool after.
ReplayBatch(r) ==
  LET a == recovery[r].attempt IN
  /\ At(r, "replay")
  /\ Unacked(a) # {}
  /\ IF Accepts(a, Batch(a))
       THEN /\ IF IsNew(a, Batch(a)) THEN IngestEvents(a, Batch(a)) ELSE UNCHANGED vars
            /\ recovery' = [recovery EXCEPT ![r].pc = "drop", ![r].through = nextSeq'[a] - 1]
       ELSE GoTo(r, "finish") /\ UNCHANGED vars
  /\ UNCHANGED <<runner, container, disk, net, budget, effects>>

DropBatch(r) ==
  LET a == recovery[r].attempt IN
  /\ At(r, "drop")
  /\ IF recovery[r].through < SpoolNext(a)
       THEN Drop(a, recovery[r].through) /\ GoTo(r, "replay")
       ELSE UNCHANGED acked /\ GoTo(r, "finish")
  /\ UNCHANGED <<vars, runner, container, spool, ledger, net, budget, effects>>

ReplayReceipt(r, c) ==
  LET a == recovery[r].attempt IN
  /\ At(r, "replay")
  /\ Unacked(a) = {}
  /\ c \in Completed(a)
  /\ IF AckAccepts(a, c, ledger[c])
       THEN /\ AcknowledgeCommand(a, c, ledger[c])
            /\ recovery' = [recovery EXCEPT ![r].pc = "forget", ![r].cmd = c]
       ELSE GoTo(r, "finish") /\ UNCHANGED vars
  /\ UNCHANGED <<runner, container, disk, net, budget, effects>>

DropReceipt(r) ==
  /\ At(r, "forget")
  /\ ledger' = [ledger EXCEPT ![recovery[r].cmd] = "absent"]
  /\ recovery' = [recovery EXCEPT ![r].pc = "replay", ![r].cmd = NoId]
  /\ UNCHANGED <<vars, runner, container, spool, acked, net, budget, effects>>

\* The replay stops behind its first batch.
MutReplayOneBatch(r) ==
  /\ At(r, "replay")
  /\ GoTo(r, "finish")
  /\ UNCHANGED <<vars, runner, container, disk, net, budget, effects>>

ReplayDone(r) ==
  LET a == recovery[r].attempt IN
  /\ At(r, "replay")
  /\ Unacked(a) = {}
  /\ Completed(a) = {}
  /\ GoTo(r, "finish")
  /\ UNCHANGED <<vars, runner, container, disk, net, budget, effects>>

\* An unreadable journal ends the replay where it is.
ReplayFails(r) ==
  /\ At(r, "replay") \/ At(r, "drop") \/ At(r, "forget")
  /\ Spend("fault")
  /\ GoTo(r, "finish")
  /\ UNCHANGED <<vars, runner, container, disk, net, effects>>

\* The loss is committed without the projection.
MutFinishInTwo(r, valid, stopped) ==
  LET a == recovery[r].attempt IN
  /\ At(r, "finish")
  /\ IF Unfinished(a) /\ status[a] \in Active
       THEN /\ status' = [status EXCEPT ![a] = "lost"]
            /\ command' = EndPending(a)
            /\ UNCHANGED <<current, taskState, archived, nextSeq, rows, config,
                           settled, fresh>>
       ELSE UNCHANGED vars
  /\ recovery' = [recovery EXCEPT ![r] = NoRecovery]
  /\ IF r = a THEN Forget(a, "gone") ELSE UNCHANGED runner
  /\ UNCHANGED <<container, disk, net, budget, effects>>

\* The job removes its container last, if the stop works.
FinishRecovery(r, valid, stopped) ==
  LET a == recovery[r].attempt IN
  /\ At(r, "finish")
  /\ IF Unfinished(a) THEN FinishInterrupted(a, valid) ELSE UNCHANGED vars
  /\ recovery' = [recovery EXCEPT ![r] = NoRecovery]
  /\ IF r = a THEN Forget(a, "gone") ELSE UNCHANGED runner
  /\ container' = IF r = a /\ stopped THEN [container EXCEPT ![a] = "down"]
                                      ELSE container
  /\ UNCHANGED <<disk, net, budget, effects>>
-----------------------------------------------------------------------------
(* Crashes                                                                 *)

\* The process of a runner and of its job dies.  Spool, server and container
\* survive, a container just being spawned may ("left"), and no other run can
\* claim the journal.
Crash(a, left) ==
  /\ Live(a)
  /\ left => runner[a].phase = "spawning"
  /\ container' = IF left THEN [container EXCEPT ![a] = "idle"] ELSE container
  /\ Spend("crash")
  /\ Forget(a, "gone")
  /\ post' = [post EXCEPT ![a] = NoBatch]
  /\ answer' = [answer EXCEPT ![a] = NoAnswer]
  /\ recovery' = [recovery EXCEPT ![a] = NoRecovery]
  /\ UNCHANGED <<vars, disk, wire, effects>>

ReconcilerCrash ==
  /\ recovery[0].pc # "idle"
  /\ Spend("crash")
  /\ recovery' = [recovery EXCEPT ![0] = NoRecovery]
  /\ UNCHANGED <<vars, runner, container, disk, net, effects>>
-----------------------------------------------------------------------------

\* Requests of users and of the rest of the backend, and the clock.
Environment ==
  /\ \/ \E a \in Attempts, c \in Commands : QueueCommand(a, c)
     \/ \E a \in Attempts : HeartbeatAges(a)
     \/ ArchiveResults
  /\ UNCHANGED runnerVars

SpawnStep(a) ==
  SpawnSucceeds(a) \/ \E left \in BOOLEAN : SpawnFails(a, left)

StartupStep(a) ==
  \/ FirstHeartbeat(a) \/ FirstHeartbeatLost(a) \/ FirstHeartbeatRejected(a)
  \/ \E answered \in BOOLEAN : Prepare(a, answered)
  \/ Start(a) \/ StartupFails(a)

MainStep(a) ==
  \/ ConnectorRecord(a)
  \/ \E verdict \in Verdicts : ConnectorFinishes(a, verdict)
  \/ ConsumerDone(a) \/ RunFails(a) \/ Deadline(a) \/ GraceEnds(a)
  \/ \E confirmed \in BOOLEAN : CloseConnector(a, confirmed)
  \/ EmitArtifact(a)
  \/ \E collected \in BOOLEAN : JournalVerdict(a, collected)
  \/ LeaveRun(a)

DeliveryStep(a) ==
  \/ SendBatch(a)
  \/ \E lost \in BOOLEAN : GiveUp(a, lost)
  \/ TakeAnswer(a)

ControlStep(a) ==
  \/ \E c \in Commands, answered \in BOOLEAN : SendReceipt(a, c, answered)
  \/ \E answered \in BOOLEAN : Poll(a, answered)
  \/ ControlRejected(a) \/ UseFirstHeartbeat(a)
  \/ \E c \in Commands : BeginCommand(a, c)
  \/ SendControl(a)
  \/ \E receipt \in Receipts : FinishCommand(a, receipt)
  \/ ListDone(a)

RecoveryStep(r) ==
  \/ ReplayBatch(r) \/ DropBatch(r)
  \/ \E c \in Commands : ReplayReceipt(r, c)
  \/ DropReceipt(r) \/ ReplayDone(r) \/ ReplayFails(r)
  \/ \E valid, stopped \in BOOLEAN : FinishRecovery(r, valid, stopped)

ReconcileStep(a) == \E stopped \in BOOLEAN : Reconcile(a, stopped)

DeliveryNext ==
  \/ Environment
  \/ \E a \in Attempts :
       \/ Launch(a) \/ SpawnStep(a) \/ StartupStep(a) \/ MainStep(a)
       \/ DeliveryStep(a) \/ ControlStep(a) \/ JobRecovers(a)
       \/ ReconcileStep(a) \/ SweepContainer(a)
       \/ \E left \in BOOLEAN : Crash(a, left)
  \/ \E m \in wire, again \in BOOLEAN : HandleEvents(m, again)
  \/ \E r \in Recoverers : RecoveryStep(r)
  \/ ReconcilerCrash

DeliverySpec == DeliveryInit /\ [][DeliveryNext]_allVars

\* What the code's timeouts and loops justify: a launch ends, run() passes every
\* phase (each wait of it has a timeout), a job and the reconciler's poll finish
\* what they began, heartbeats age.  Nothing is assumed of the network, of the
\* delivery task, the control task or the connector.
Fairness ==
  /\ \A a \in Attempts :
       /\ WF_allVars(SpawnStep(a))
       /\ WF_allVars(StartupStep(a))
       /\ WF_allVars(MainStep(a))
       /\ WF_allVars(JobRecovers(a))
       /\ WF_allVars(ReconcileStep(a))
       /\ WF_allVars(HeartbeatAges(a) /\ UNCHANGED runnerVars)
  /\ \A r \in Recoverers : WF_allVars(RecoveryStep(r))

FairDeliverySpec == DeliverySpec /\ Fairness
-----------------------------------------------------------------------------
(* Properties                                                              *)

RunnerStates ==
  [phase : {"none", "spawning", "starting", "preparing", "prepared", "running", "expiring",
            "closing", "finalizing", "flushing", "leaving", "gone"},
   outcome : Final \cup {"none"},
   failure : {"none", "error", "deadline", "shutdown"},
   cancelled : BOOLEAN, delivering : BOOLEAN,
   control : {"off", "first", "flush", "work"},
   todo : SUBSET Commands, doing : Commands \cup {NoId}, sent : BOOLEAN]

\* The runner's variables keep their types.
DeliveryTypeOK ==
  /\ runner \in [Attempts -> RunnerStates]
  /\ container \in [Attempts -> Up \cup {"none", "down"}]
  /\ DOMAIN spool = Attempts
  /\ \A a \in Attempts : spool[a] \in [0 .. SpoolNext(a) - 1 -> Bodies]
  /\ acked \in [Attempts -> -1 .. MaxSeq]
  /\ \A a \in Attempts : acked[a] < SpoolNext(a)
  /\ ledger \in [Commands -> Receipts \cup {"absent", "executing"}]
  /\ \A a \in Attempts : answer[a] # NoAnswer => post[a] # NoBatch
  /\ \A m \in wire :
       /\ m.attempt \in Attempts
       /\ 0 <= m.batch.first /\ m.batch.first <= m.batch.last /\ m.batch.last <= MaxSeq
       /\ m.batch.body \in [m.batch.first .. m.batch.last -> Bodies]
  /\ \A r \in Recoverers :
       recovery[r].pc \in {"idle", "replay", "drop", "forget", "finish"}

\* The server's journal is a prefix of the runner's, record for record, and no
\* record leaves the spool before the server has committed it, whatever was
\* lost, repeated, delayed or replayed on the way.
JournalMatchesSpool ==
  \A a \in Attempts :
    /\ DOMAIN rows[a] \subseteq DOMAIN spool[a]
    /\ \A n \in DOMAIN rows[a] : rows[a][n] = spool[a][n]
    /\ acked[a] < nextSeq[a]

\* The server records success only for a run that journalled success, under
\* saved settings, and a run journals it only when its connector reported it
\* and nothing cancelled or cut short the execution before its end.
SuccessIsEarned ==
  \A a \in Attempts :
    LET success == \E n \in DOMAIN spool[a] : spool[a][n].status = "success" IN
    /\ status[a] = "success" => success /\ config[a] # NoConfig
    /\ success /\ runner[a].phase = "flushing" =>
         /\ runner[a].outcome = "success"
         /\ runner[a].failure = "none"
         /\ ~runner[a].cancelled

\* A receipted abort excludes success: the command cannot be answered for a run
\* that then counts as completed.
AbortExcludesSuccess ==
  \A c \in AbortCommands : command[c].receipt # "none" =>
    status[command[c].attempt] # "success"

\* The connector sees a command at most once, an abort receipted before the
\* start reaches none, and the receipts in the spool never contradict the ones
\* the server has: retries, the replay and the first heartbeat's old list
\* included.
CommandsExecuteOnce ==
  /\ \A c \in Commands : effects[c] <= 1
  /\ \A c \in Commands : command[c].receipt = "before_start" =>
       effects[c] = 0 /\ container[command[c].attempt] # "busy"
  /\ \A a \in Attempts : \A c \in Completed(a) :
       command[c].receipt \in {"none", ledger[c]}

\* No two connectors of the task execute at the same time, although containers
\* outlive crashed runners, stops fail and a superseded runner may be alive.
OneConnectorExecutes ==
  \A a, p \in Attempts :
    container[a] = "busy" /\ container[p] = "busy" => a = p

\* With one reconciling process and readable journals, a verdict that reached
\* the spool is never replaced by "lost": not by a crash in any place, nor by a
\* delivery that outlives its runner.
DurableVerdictKept ==
  \A a \in Attempts : status[a] = "lost" =>
    \A n \in DOMAIN spool[a] : spool[a][n].kind # "run.finished"

\* Every launched attempt ends, and its result is projected onto the task.
EveryAttemptSettles ==
  \A a \in Attempts : (status[a] \in Active) ~> settled[a]

\* A journalled verdict becomes the attempt's status, even when the network
\* never carries a request again: the replay of the spool delivers it.
JournalledVerdictCounts ==
  \A a \in Attempts : \A s \in Final :
    (\E n \in DOMAIN spool[a] : spool[a][n].status = s) ~> (status[a] = s)

\* What the server stores comes from the spool, in order and before the spool
\* forgets it, and is never replaced by "lost".
EvidenceDelivered == JournalMatchesSpool /\ DurableVerdictKept

\* Under the fairness of the runner's loops and the reconciler, every attempt
\* ends, and with the verdict its spool holds.
AttemptsEnd == EveryAttemptSettles /\ JournalledVerdictCounts
=============================================================================
