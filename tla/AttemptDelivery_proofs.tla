----------------------- MODULE AttemptDelivery_proofs -----------------------
(***************************************************************************)
(* Proofs about AttemptDelivery for every number of attempts, records,     *)
(* commands, crashes, faults and losses, with and without a reconciler     *)
(* beside the runner's process.  The runner, its spool and the network use *)
(* the journal through its handlers only, so that its theorems hold of the *)
(* composed system; with them the spool is traced from the connector to    *)
(* the server.                                                             *)
(***************************************************************************)
EXTENDS AttemptDelivery, AttemptJournal_proofs, FiniteSetTheorems

Answers == [kind : {"none", "receipt", "rejected"}, through : Int]
Recoveries ==
  [pc : {"idle", "replay", "drop", "forget", "finish"}, attempt : 0 .. MaxAttempts,
   through : Int, cmd : Commands \cup {NoId}]

\* The types of what is in memory, in a spool and on the wire.
StreamType ==
  /\ runner \in [Attempts -> RunnerStates]
  /\ container \in [Attempts -> Up \cup {"none", "down"}]
  /\ DOMAIN spool = Attempts
  /\ \A a \in Attempts : /\ SpoolNext(a) \in 0 .. MaxSeq + 1
                         /\ spool[a] \in [0 .. SpoolNext(a) - 1 -> Bodies]
  /\ acked \in [Attempts -> -1 .. MaxSeq]
  /\ \A a \in Attempts : acked[a] < SpoolNext(a)
  /\ ledger \in [Commands -> Receipts \cup {"absent", "executing"}]
  /\ post \in [Attempts -> Batches \cup {NoBatch}]
  /\ answer \in [Attempts -> Answers]
  /\ \A a \in Attempts : answer[a] # NoAnswer => post[a] # NoBatch
  /\ wire \subseteq [attempt : Attempts, batch : Batches]
  /\ recovery \in [Recoverers -> Recoveries]

\* The batch a runner selects is one the server can read.
LEMMA BatchIsRun ==
  ASSUME StreamType, NEW a \in Attempts, Unacked(a) # {}
  PROVE  /\ Batch(a) \in Batches
         /\ Batch(a) # NoBatch
         /\ Batch(a).last < SpoolNext(a)
         /\ \A n \in Batch(a).first .. Batch(a).last :
              n \in DOMAIN spool[a] /\ Batch(a).body[n] = spool[a][n]
<1> DEFINE first == Batch(a).first
           last == Batch(a).last
<1>1. /\ acked[a] \in -1 .. MaxSeq /\ SpoolNext(a) \in 0 .. MaxSeq + 1
      /\ spool[a] \in [0 .. SpoolNext(a) - 1 -> Bodies]
      /\ acked[a] + 1 <= SpoolNext(a) - 1 /\ MaxSeq \in Nat /\ BatchLimit \in Nat \ {0}
  BY BoundsAssumption, DeliveryAssumption DEF StreamType, Unacked
<1>2. /\ first \in 0 .. MaxSeq /\ last \in first .. MaxSeq /\ last < SpoolNext(a)
      /\ first = acked[a] + 1
  BY <1>1 DEF Batch
<1>3. Batch(a) = [first |-> first, last |-> last, body |-> [n \in first .. last |-> spool[a][n]]]
  BY DEF Batch
<1>4. [n \in first .. last |-> spool[a][n]] \in [first .. last -> Bodies]
  BY <1>1, <1>2
<1>5. Batch(a) \in BatchesFrom(first)
  <2>1. Batch(a) \in [first : {first}, last : {last}, body : [first .. last -> Bodies]]
    BY <1>3, <1>4
  <2>2. QED
    BY <2>1, <1>2 DEF BatchesFrom
<1>6. Batch(a) \in Batches
  BY <1>2, <1>5 DEF Batches
<1>7. Batch(a) # NoBatch
  BY <1>2, <1>1 DEF NoBatch
<1>8. QED
  BY <1>1, <1>2, <1>3, <1>6, <1>7

-----------------------------------------------------------------------------
(* The journal is used through its handlers                                *)

\* Every step of the composed system is a request the journal handles, or none
\* of its business.
LEMMA JournalStep == StreamType /\ [DeliveryNext]_allVars => [Next]_vars
<1> SUFFICES ASSUME StreamType, DeliveryNext, ~UNCHANGED vars PROVE Next
  BY DEF allVars
<1>1. ASSUME NEW a \in Attempts, CreateAttempt(a) PROVE Next
  BY <1>1 DEF Next
<1>2. ASSUME NEW a \in Attempts, Heartbeat(a) PROVE Next
  BY <1>2 DEF Next
<1>3. ASSUME NEW a \in Attempts, NEW c \in Commands, ledger[c] \in Receipts,
             AcknowledgeCommand(a, c, ledger[c])
      PROVE  Next
  BY <1>3 DEF Next
<1>4. ASSUME NEW a, NEW b \in Batches, IngestEvents(a, b) PROVE Next
  BY <1>4 DEF Next, IngestEvents, Accepts, Owns
<1>5. ASSUME NEW a, NEW valid \in BOOLEAN, FinishInterrupted(a, valid) PROVE Next
  BY <1>5 DEF Next, FinishInterrupted, Owns
<1>6. ASSUME Environment PROVE Next
  BY <1>6 DEF Environment, Next
<1>7. ASSUME NEW a \in Attempts, Launch(a) \/ SpawnStep(a) PROVE Next
  BY <1>1, <1>5, <1>7 DEF Launch, SpawnStep, SpawnSucceeds, SpawnFails
<1>8. ASSUME NEW a \in Attempts, StartupStep(a) PROVE Next
  <2>1. ASSUME NEW answered \in BOOLEAN, Prepare(a, answered) PROVE Next
    BY <2>1, DeliveryAssumption DEF Prepare, Config, Next
  <2>2. QED
    BY <1>2, <1>8, <2>1 DEF StartupStep, FirstHeartbeat, FirstHeartbeatLost,
       FirstHeartbeatRejected, Start, StartupFails
<1>9. ASSUME NEW a \in Attempts, MainStep(a) PROVE FALSE
  BY <1>9 DEF MainStep, ConnectorRecord, ConnectorFinishes, ConsumerDone, RunFails, Deadline,
     GraceEnds, CloseConnector, EmitArtifact, JournalVerdict, LeaveRun
<1>10. ASSUME NEW a \in Attempts, DeliveryStep(a) \/ JobRecovers(a) \/ ReconcileStep(a)
              \/ SweepContainer(a) \/ \E left \in BOOLEAN : Crash(a, left)
       PROVE FALSE
  BY <1>10 DEF DeliveryStep, SendBatch, GiveUp, TakeAnswer, JobRecovers, ReconcileStep,
     Reconcile, SweepContainer, Crash
<1>11. ASSUME NEW a \in Attempts, ControlStep(a) PROVE Next
  BY <1>2, <1>3, <1>11 DEF ControlStep, SendReceipt, Poll, ControlRejected,
     UseFirstHeartbeat, BeginCommand, SendControl, FinishCommand, ListDone, Completed
<1>12. ASSUME NEW m \in wire, NEW again \in BOOLEAN, HandleEvents(m, again) PROVE Next
  BY <1>4, <1>12 DEF HandleEvents, StreamType
<1>13. ASSUME NEW r \in Recoverers, RecoveryStep(r) PROVE Next
  <2>1. ASSUME ReplayBatch(r) PROVE Next
    BY <1>4, <2>1, BatchIsRun DEF ReplayBatch, Accepts, Owns
  <2>2. ASSUME NEW c \in Commands, ReplayReceipt(r, c) PROVE Next
    BY <1>3, <2>2 DEF ReplayReceipt, Completed, AckAccepts, Owns
  <2>3. ASSUME NEW valid \in BOOLEAN, NEW stopped \in BOOLEAN, FinishRecovery(r, valid, stopped)
        PROVE  Next
    BY <1>5, <2>3 DEF FinishRecovery
  <2>4. QED
    BY <1>13, <2>1, <2>2, <2>3 DEF RecoveryStep, DropBatch, DropReceipt, ReplayDone, ReplayFails
<1>14. QED
  BY <1>6, <1>7, <1>8, <1>9, <1>10, <1>11, <1>12, <1>13 DEF DeliveryNext, ReconcilerCrash
-----------------------------------------------------------------------------
(* Types, and the place of a runner                                        *)

\* What the place of a runner says of its spool: room for the final record until
\* it is written, a first record before it, and a verdict for an undisturbed run.
\* An attempt that was not launched has no runner, and nobody recovers it.
RunnerPlace(s, n) ==
  /\ s.phase \notin {"flushing", "leaving", "gone"} => n <= MaxSeq
  /\ s.phase = "finalizing" \/ s.outcome # "none" => n > 0
  /\ s.phase \in {"closing", "finalizing"} /\ s.failure = "none" => s.outcome # "none"

Place ==
  /\ \A a \in Attempts : a > current => runner[a] = NoRunner /\ container[a] = "none"
  /\ \A a \in Attempts : RunnerPlace(runner[a], SpoolNext(a))
  /\ \A r \in Recoverers : recovery[r].pc # "idle" => recovery[r].attempt \in 1 .. current

DeliveryInv == JournalInv /\ StreamType /\ Place

\* An appended record is the last one, behind all earlier ones.
LEMMA AppendedSpool ==
  ASSUME StreamType, NEW a \in Attempts, NEW kind, NEW verdict,
         SpoolNext(a) <= MaxSeq, Body(SpoolNext(a), kind, verdict) \in Bodies,
         Append(a, kind, verdict)
  PROVE  /\ DOMAIN spool' = Attempts
         /\ SpoolNext(a)' = SpoolNext(a) + 1
         /\ spool'[a] \in [0 .. SpoolNext(a) -> Bodies]
         /\ \A n \in DOMAIN spool[a] : n \in DOMAIN spool'[a] /\ spool'[a][n] = spool[a][n]
         /\ spool'[a][SpoolNext(a)] = Body(SpoolNext(a), kind, verdict)
         /\ \A p \in Attempts : p # a => spool'[p] = spool[p] /\ SpoolNext(p)' = SpoolNext(p)
<1>1. /\ SpoolNext(a) \in Nat /\ DOMAIN spool = Attempts
      /\ spool[a] \in [0 .. SpoolNext(a) - 1 -> Bodies]
  BY BoundsAssumption DEF StreamType
<1>2. /\ DOMAIN spool' = Attempts
      /\ spool'[a] = [n \in 0 .. SpoolNext(a) |->
                       IF n < SpoolNext(a) THEN spool[a][n] ELSE Body(n, kind, verdict)]
      /\ \A p \in Attempts : p # a => spool'[p] = spool[p]
  BY <1>1 DEF Append
<1>3. DOMAIN spool'[a] = 0 .. SpoolNext(a)
  BY <1>2
<1>4. Cardinality(0 .. SpoolNext(a)) = SpoolNext(a) + 1
  BY <1>1, FS_Interval
<1>5. SpoolNext(a)' = SpoolNext(a) + 1
  BY <1>3, <1>4 DEF SpoolNext
<1>6. \A p \in Attempts : p # a => SpoolNext(p)' = SpoolNext(p)
  BY <1>2 DEF SpoolNext
<1>7. QED
  BY <1>1, <1>2, <1>5, <1>6

\* What a step of the journal leaves to the others: attempts are counted up one by one.
LEMMA CurrentStep ==
  ASSUME JournalInv, [Next]_vars
  PROVE  /\ current \in 0 .. MaxAttempts /\ current' \in {current, current + 1}
         /\ MaxAttempts \in Nat /\ MaxSeq \in Nat
<1>1. current \in 0 .. MaxAttempts
  BY DEF JournalInv, TypeOK
<1>2. current' = current \/ \E a \in Attempts : CreateAttempt(a)
  BY DEF Next, vars, PrepareConfiguration, QueueCommand, Heartbeat, AcknowledgeCommand,
     IngestEvents, FinishInterrupted, HeartbeatAges, ArchiveResults, RetentionPrunes
<1>3. QED
  BY <1>1, <1>2, BoundsAssumption DEF CreateAttempt

\* The changes a step makes to a runner lead to the state of a runner.
LEMMA MovedState ==
  ASSUME NEW s \in RunnerStates,
         NEW phase \in {"none", "spawning", "starting", "preparing", "prepared", "running", "expiring",
                        "closing", "finalizing", "flushing", "leaving", "gone"}
  PROVE  /\ [s EXCEPT !.phase = phase] \in RunnerStates
         /\ [NoRunner EXCEPT !.phase = phase] \in RunnerStates
<1>1. [s EXCEPT !.phase = phase] \in RunnerStates
  BY Zenon DEF RunnerStates
<1>2. [NoRunner EXCEPT !.phase = phase] \in RunnerStates
  BY DEF RunnerStates, NoRunner
<1>3. QED
  BY <1>1, <1>2

\* A run that leaves its main wait, and one whose connector is closed, stays a
\* runner state.
LEMMA FailedState ==
  ASSUME NEW s \in RunnerStates, NEW why \in {"none", "error", "deadline", "shutdown"}
  PROVE  /\ [s EXCEPT !.phase = "closing", !.failure = why, !.control = "off", !.todo = {},
                      !.doing = NoId, !.sent = FALSE] \in RunnerStates
         /\ [s EXCEPT !.phase = "finalizing", !.failure = why] \in RunnerStates
<1>1. [s EXCEPT !.phase = "closing", !.failure = why, !.control = "off", !.todo = {},
                !.doing = NoId, !.sent = FALSE] \in RunnerStates
  BY Zenon DEF RunnerStates
<1>2. [s EXCEPT !.phase = "finalizing", !.failure = why] \in RunnerStates
  BY Zenon DEF RunnerStates
<1>3. QED
  BY <1>1, <1>2

\* So do the answer to a heartbeat and the list of commands it brings.
LEMMA PolledState ==
  ASSUME NEW s \in RunnerStates, NEW todo \in SUBSET Commands, NEW stop \in BOOLEAN,
         NEW control \in {"off", "first", "flush", "work"}
  PROVE  /\ [s EXCEPT !.phase = "preparing", !.delivering = TRUE, !.cancelled = stop, !.todo = todo,
                      !.control = control] \in RunnerStates
         /\ [s EXCEPT !.phase = "preparing", !.delivering = TRUE, !.control = control] \in RunnerStates
         /\ [s EXCEPT !.todo = todo, !.control = control] \in RunnerStates
         /\ [s EXCEPT !.control = control] \in RunnerStates
<1>1. [s EXCEPT !.phase = "preparing", !.delivering = TRUE, !.cancelled = stop, !.todo = todo,
                !.control = control] \in RunnerStates
  BY Zenon DEF RunnerStates
<1>2. [s EXCEPT !.phase = "preparing", !.delivering = TRUE, !.control = control] \in RunnerStates
  BY Zenon DEF RunnerStates
<1>3. [s EXCEPT !.todo = todo, !.control = control] \in RunnerStates
  BY Zenon DEF RunnerStates
<1>4. [s EXCEPT !.control = control] \in RunnerStates
  BY Zenon DEF RunnerStates
<1>5. QED
  BY <1>1, <1>2, <1>3, <1>4

\* So does taking the next command of that list.
LEMMA BusyState ==
  ASSUME NEW s \in RunnerStates, NEW c \in Commands, NEW stop \in BOOLEAN
  PROVE  [s EXCEPT !.todo = @ \ {c}, !.doing = c, !.cancelled = stop] \in RunnerStates
<1>1. s.todo \ {c} \in SUBSET Commands
  BY DEF RunnerStates
<1>2. [s EXCEPT !.todo = s.todo \ {c}, !.doing = c, !.cancelled = stop] \in RunnerStates
  BY <1>1, Zenon DEF RunnerStates
<1>3. QED
  BY <1>2

\* So do the end of a command, the deadline and the connector's verdict.
LEMMA OtherStates ==
  ASSUME NEW s \in RunnerStates, NEW verdict \in Final
  PROVE  /\ [s EXCEPT !.doing = NoId, !.sent = FALSE] \in RunnerStates
         /\ [s EXCEPT !.phase = "expiring", !.cancelled = TRUE] \in RunnerStates
         /\ [s EXCEPT !.outcome = verdict] \in RunnerStates
         /\ [s EXCEPT !.delivering = FALSE] \in RunnerStates
         /\ [s EXCEPT !.sent = TRUE] \in RunnerStates
<1>1. [s EXCEPT !.doing = NoId, !.sent = FALSE] \in RunnerStates
  BY Zenon DEF RunnerStates
<1>2. [s EXCEPT !.phase = "expiring", !.cancelled = TRUE] \in RunnerStates
  BY Zenon DEF RunnerStates
<1>3. [s EXCEPT !.outcome = verdict] \in RunnerStates
  BY Zenon DEF RunnerStates
<1>4. [s EXCEPT !.delivering = FALSE] \in RunnerStates
  BY Zenon DEF RunnerStates
<1>5. [s EXCEPT !.sent = TRUE] \in RunnerStates
  BY Zenon DEF RunnerStates
<1>6. QED
  BY <1>1, <1>2, <1>3, <1>4, <1>5

\* Whatever a step makes of a runner is the state of a runner.
LEMMA RunnerStep ==
  ASSUME runner \in [Attempts -> RunnerStates], DeliveryNext
  PROVE  runner' \in [Attempts -> RunnerStates]
<1> DEFINE Typed == runner' \in [Attempts -> RunnerStates]
<1>1. ASSUME NEW a \in Attempts, NEW s \in RunnerStates, runner' = [runner EXCEPT ![a] = s] PROVE Typed
  BY <1>1
<1>2. ASSUME NEW a \in Attempts, NEW phase, Move(a, phase) \/ Forget(a, phase),
             phase \in {"spawning", "starting", "prepared", "running", "flushing", "leaving", "gone"}
      PROVE  Typed
  <2>1. /\ [runner[a] EXCEPT !.phase = phase] \in RunnerStates
        /\ [NoRunner EXCEPT !.phase = phase] \in RunnerStates
    BY <1>2, MovedState
  <2>2. QED
    BY <1>1, <1>2, <2>1 DEF Move, Forget
<1>3. ASSUME NEW a \in Attempts, NEW why \in {"none", "error", "deadline"}, Fail(a, why) PROVE Typed
  <2>1. [runner[a] EXCEPT !.phase = "closing", !.failure = why, !.control = "off", !.todo = {},
                          !.doing = NoId, !.sent = FALSE] \in RunnerStates
    BY FailedState
  <2>2. QED
    BY <1>1, <1>3, <2>1 DEF Fail
<1>4. ASSUME NEW a \in Attempts, SpawnStep(a) \/ Launch(a) PROVE Typed
  BY <1>2, <1>4 DEF SpawnStep, SpawnSucceeds, SpawnFails, Launch
<1>5. ASSUME NEW a \in Attempts, StartupStep(a) PROVE Typed
  <2>1. Offered(a) \in SUBSET Commands
    BY DEF Offered, Pending
  <2>2. CASE FirstHeartbeat(a)
    <3>1. PICK stop \in BOOLEAN, control \in {"off", "first"} :
            runner' = [runner EXCEPT ![a] =
              [@ EXCEPT !.phase = "preparing", !.delivering = TRUE, !.cancelled = stop,
                        !.todo = Offered(a), !.control = control]]
      BY <2>2 DEF FirstHeartbeat
    <3>2. [runner[a] EXCEPT !.phase = "preparing", !.delivering = TRUE, !.cancelled = stop,
                            !.todo = Offered(a), !.control = control] \in RunnerStates
      BY <2>1, PolledState
    <3>3. QED
      BY <1>1, <3>1, <3>2
  <2>3. CASE FirstHeartbeatLost(a)
    <3>1. [runner[a] EXCEPT !.phase = "preparing", !.delivering = TRUE, !.control = "flush"] \in RunnerStates
      BY <2>1, PolledState
    <3>2. QED
      BY <1>1, <2>3, <3>1 DEF FirstHeartbeatLost
  <2>4. QED
    BY <1>2, <1>3, <1>5, <2>2, <2>3 DEF StartupStep, FirstHeartbeatRejected, Prepare, Start, StartupFails
<1>6. ASSUME NEW a \in Attempts, MainStep(a) PROVE Typed
  <2>1. ASSUME NEW verdict \in Verdicts, ConnectorFinishes(a, verdict) PROVE Typed
    <3>1. [runner[a] EXCEPT !.outcome = verdict] \in RunnerStates
      BY OtherStates, DeliveryAssumption
    <3>2. QED
      BY <1>1, <2>1, <3>1 DEF ConnectorFinishes
  <2>2. CASE Deadline(a)
    <3>1. [runner[a] EXCEPT !.phase = "expiring", !.cancelled = TRUE] \in RunnerStates
      BY OtherStates DEF Final
    <3>2. QED
      BY <1>1, <2>2, <3>1 DEF Deadline
  <2>3. ASSUME NEW confirmed \in BOOLEAN, CloseConnector(a, confirmed) PROVE Typed
    <3>1. PICK why : /\ why \in {runner[a].failure, "shutdown"}
                     /\ runner' = [runner EXCEPT ![a] = [@ EXCEPT !.phase = "finalizing", !.failure = why]]
      BY <2>3 DEF CloseConnector
    <3>2. why \in {"none", "error", "deadline", "shutdown"}
      <4>1. runner[a] \in RunnerStates
        OBVIOUS
      <4>2. runner[a].failure \in {"none", "error", "deadline", "shutdown"}
        BY <4>1, Zenon DEF RunnerStates
      <4>3. QED
        BY <3>1, <4>2
    <3>3. [runner[a] EXCEPT !.phase = "finalizing", !.failure = why] \in RunnerStates
      BY <3>2, FailedState
    <3>4. QED
      BY <1>1, <3>1, <3>3
  <2>4. QED
    BY <1>2, <1>3, <1>6, <2>1, <2>2, <2>3 DEF MainStep, ConnectorRecord, ConsumerDone,
       RunFails, GraceEnds, EmitArtifact, JournalVerdict, LeaveRun
<1>7. ASSUME NEW a \in Attempts, DeliveryStep(a) PROVE Typed
  <2>1. [runner[a] EXCEPT !.delivering = FALSE] \in RunnerStates
    BY OtherStates DEF Final
  <2>2. QED
    BY <1>1, <1>7, <2>1 DEF DeliveryStep, SendBatch, GiveUp, TakeAnswer
<1>8. ASSUME NEW a \in Attempts, ControlStep(a) PROVE Typed
  <2>1. Offered(a) \in SUBSET Commands
    BY DEF Offered, Pending
  <2>2. ASSUME NEW control \in {"off", "flush", "work"},
               runner' = [runner EXCEPT ![a].control = control]
        PROVE  Typed
    <3>1. [runner[a] EXCEPT !.control = control] \in RunnerStates
      BY <2>1, PolledState
    <3>2. QED
      BY <1>1, <2>2, <3>1
  <2>3. ASSUME NEW answered \in BOOLEAN, Poll(a, answered) PROVE Typed
    <3>1. CASE answered
      <4>1. PICK control \in {"off", "work"} :
              runner' = [runner EXCEPT ![a] = [@ EXCEPT !.todo = Offered(a), !.control = control]]
        BY <2>3, <3>1 DEF Poll
      <4>2. [runner[a] EXCEPT !.todo = Offered(a), !.control = control] \in RunnerStates
        BY <2>1, PolledState
      <4>3. QED
        BY <1>1, <4>1, <4>2
    <3>2. QED
      BY <2>3, <3>1 DEF Poll
  <2>4. ASSUME NEW c \in Commands, BeginCommand(a, c) PROVE Typed
    <3> DEFINE stop == runner[a].cancelled \/ c \in AbortCommands
    <3>1. runner' = [runner EXCEPT ![a] = [runner[a] EXCEPT !.todo = runner[a].todo \ {c}, !.doing = c,
                                                           !.cancelled = stop]]
      BY <2>4 DEF BeginCommand
    <3>2. stop \in BOOLEAN
      OBVIOUS
    <3> HIDE DEF stop
    <3>3. [runner[a] EXCEPT !.todo = runner[a].todo \ {c}, !.doing = c, !.cancelled = stop] \in RunnerStates
      BY <3>2, BusyState
    <3>4. QED
      BY <1>1, <3>1, <3>3
  <2>5. CASE SendControl(a) \/ \E receipt \in Receipts : FinishCommand(a, receipt)
    <3>1. /\ [runner[a] EXCEPT !.doing = NoId, !.sent = FALSE] \in RunnerStates
          /\ [runner[a] EXCEPT !.sent = TRUE] \in RunnerStates
      BY OtherStates DEF Final
    <3>2. QED
      BY <1>1, <2>5, <3>1 DEF SendControl, FinishCommand
  <2>6. QED
    BY <1>8, <2>2, <2>3, <2>4, <2>5 DEF ControlStep, SendReceipt, ControlRejected,
       UseFirstHeartbeat, ListDone
<1>9. ASSUME NEW r \in Recoverers, RecoveryStep(r) PROVE Typed
  <2>1. ASSUME NEW valid \in BOOLEAN, NEW stopped \in BOOLEAN, FinishRecovery(r, valid, stopped) PROVE Typed
    <3>1. PICK a : runner' = runner \/ Forget(a, "gone")
      BY <2>1 DEF FinishRecovery
    <3>2. CASE a \in Attempts
      BY <1>2, <3>1, <3>2
    <3>3. CASE a \notin Attempts
      BY <3>1, <3>3 DEF Forget
    <3>4. QED
      BY <3>2, <3>3
  <2>2. QED
    BY <1>9, <2>1 DEF RecoveryStep, ReplayBatch, DropBatch, ReplayReceipt, DropReceipt, ReplayDone,
       ReplayFails
<1>10. ASSUME NEW a \in Attempts, NEW left \in BOOLEAN, Crash(a, left) PROVE Typed
  BY <1>2, <1>10 DEF Crash
<1>11. QED
  BY <1>4, <1>5, <1>6, <1>7, <1>8, <1>9, <1>10 DEF DeliveryNext, Environment, runnerVars, JobRecovers,
     ReconcileStep, Reconcile, SweepContainer, HandleEvents, ReconcilerCrash

\* A container is always in one of the states the runtime reports.
LEMMA ContainerStep ==
  ASSUME container \in [Attempts -> Up \cup {"none", "down"}], DeliveryNext
  PROVE  container' \in [Attempts -> Up \cup {"none", "down"}]
<1> USE DEF Up
<1>1. ASSUME NEW a \in Attempts, SpawnStep(a) \/ StartupStep(a) \/ MainStep(a) \/ Launch(a)
      PROVE  container' \in [Attempts -> Up \cup {"none", "down"}]
  BY <1>1 DEF SpawnStep, SpawnSucceeds, SpawnFails, StartupStep, FirstHeartbeat, FirstHeartbeatLost,
     FirstHeartbeatRejected, Prepare, Start, StartupFails, MainStep, ConnectorRecord, ConnectorFinishes,
     ConsumerDone, RunFails, Deadline, GraceEnds, CloseConnector, EmitArtifact, JournalVerdict, LeaveRun,
     Launch
<1>2. ASSUME NEW a \in Attempts, DeliveryStep(a) \/ ControlStep(a) \/ JobRecovers(a) \/ ReconcileStep(a)
             \/ SweepContainer(a) \/ \E left \in BOOLEAN : Crash(a, left)
      PROVE  container' \in [Attempts -> Up \cup {"none", "down"}]
  BY <1>2 DEF DeliveryStep, SendBatch, GiveUp, TakeAnswer, ControlStep, SendReceipt, Poll,
     ControlRejected, UseFirstHeartbeat, BeginCommand, SendControl, FinishCommand, ListDone,
     JobRecovers, ReconcileStep, Reconcile, SweepContainer, Crash
<1>3. ASSUME NEW r \in Recoverers, RecoveryStep(r)
      PROVE  container' \in [Attempts -> Up \cup {"none", "down"}]
  BY <1>3 DEF RecoveryStep, ReplayBatch, DropBatch, ReplayReceipt, DropReceipt, ReplayDone,
     ReplayFails, FinishRecovery
<1>4. QED
  BY <1>1, <1>2, <1>3 DEF DeliveryNext, Environment, runnerVars, HandleEvents, ReconcilerCrash

\* Who touches the rows of commands in a spool.
LEMMA LedgerStep ==
  ASSUME ledger \in [Commands -> Receipts \cup {"absent", "executing"}],
         runner \in [Attempts -> RunnerStates], DeliveryNext
  PROVE  ledger' \in [Commands -> Receipts \cup {"absent", "executing"}]
<1> DEFINE Typed == ledger' \in [Commands -> Receipts \cup {"absent", "executing"}]
<1>1. ASSUME NEW a \in Attempts, SpawnStep(a) \/ StartupStep(a) \/ MainStep(a) \/ Launch(a) PROVE Typed
  BY <1>1 DEF SpawnStep, SpawnSucceeds, SpawnFails, StartupStep, FirstHeartbeat, FirstHeartbeatLost,
     FirstHeartbeatRejected, Prepare, Start, StartupFails, MainStep, ConnectorRecord, ConnectorFinishes,
     ConsumerDone, RunFails, Deadline, GraceEnds, CloseConnector, EmitArtifact, JournalVerdict, LeaveRun,
     Launch, disk, Receipts
<1>2. ASSUME NEW a \in Attempts, DeliveryStep(a) \/ ControlStep(a) \/ JobRecovers(a) \/ ReconcileStep(a)
             \/ SweepContainer(a) \/ \E left \in BOOLEAN : Crash(a, left)
      PROVE  Typed
  BY <1>2 DEF DeliveryStep, SendBatch, GiveUp, TakeAnswer, ControlStep, SendReceipt, Poll,
     ControlRejected, UseFirstHeartbeat, BeginCommand, SendControl, FinishCommand, ListDone,
     JobRecovers, ReconcileStep, Reconcile, SweepContainer, Crash, disk
<1>3. ASSUME NEW r \in Recoverers, RecoveryStep(r) PROVE Typed
  BY <1>3 DEF RecoveryStep, ReplayBatch, DropBatch, ReplayReceipt, DropReceipt, ReplayDone,
     ReplayFails, FinishRecovery, disk
<1>4. QED
  BY <1>1, <1>2, <1>3 DEF DeliveryNext, Environment, runnerVars, HandleEvents, ReconcilerCrash, disk

\* A request is a batch of the journal, and only whoever waits for an answer gets one.
LEMMA NetStep ==
  ASSUME StreamType, TypeOK', DeliveryNext
  PROVE  /\ post' \in [Attempts -> Batches \cup {NoBatch}]
         /\ answer' \in [Attempts -> Answers]
         /\ \A a \in Attempts : answer'[a] # NoAnswer => post'[a] # NoBatch
         /\ wire' \subseteq [attempt : Attempts, batch : Batches]
<1> DEFINE Typed == /\ post' \in [Attempts -> Batches \cup {NoBatch}]
                    /\ answer' \in [Attempts -> Answers]
                    /\ \A a \in Attempts : answer'[a] # NoAnswer => post'[a] # NoBatch
                    /\ wire' \subseteq [attempt : Attempts, batch : Batches]
<1>0. /\ post \in [Attempts -> Batches \cup {NoBatch}]
      /\ answer \in [Attempts -> Answers]
      /\ \A a \in Attempts : answer[a] # NoAnswer => post[a] # NoBatch
      /\ wire \subseteq [attempt : Attempts, batch : Batches]
      /\ NoAnswer \in Answers
  BY DEF StreamType, NoAnswer, Answers
<1>1. ASSUME UNCHANGED net PROVE Typed
  BY <1>0, <1>1 DEF net
<1>2. ASSUME NEW a \in Attempts, post' = [post EXCEPT ![a] = NoBatch],
             answer' = [answer EXCEPT ![a] = NoAnswer], wire' \subseteq wire
      PROVE  Typed
  BY <1>0, <1>2
<1>3. ASSUME NEW a \in Attempts, SendBatch(a) PROVE Typed
  <2>1. Batch(a) \in Batches /\ Batch(a) # NoBatch
    BY <1>3, BatchIsRun DEF SendBatch
  <2>2. post' = [post EXCEPT ![a] = Batch(a)] /\ answer' = answer
        /\ wire' = wire \cup {[attempt |-> a, batch |-> Batch(a)]}
    BY <1>3 DEF SendBatch
  <2>3. QED
    BY <1>0, <2>1, <2>2
<1>4. ASSUME NEW m \in wire, NEW again \in BOOLEAN, HandleEvents(m, again) PROVE Typed
  <2>1. m.attempt \in Attempts /\ m.batch \in Batches
    BY <1>0
  <2>2. m.batch # NoBatch
    BY <2>1, BatchShape DEF NoBatch
  <2>3. nextSeq'[m.attempt] - 1 \in Int
    BY <2>1, BoundsAssumption DEF TypeOK
  <2>4. PICK kind \in {"receipt", "rejected"}, through \in Int :
          answer' = IF post[m.attempt] # m.batch THEN answer
                    ELSE [answer EXCEPT ![m.attempt] = [kind |-> kind, through |-> through]]
    <3>1. CASE Accepts(m.attempt, m.batch)
      <4>1. answer' = IF post[m.attempt] # m.batch THEN answer
                      ELSE [answer EXCEPT ![m.attempt] = [kind |-> "receipt",
                                                          through |-> nextSeq'[m.attempt] - 1]]
        BY <1>4, <3>1, Zenon DEF HandleEvents
      <4>2. QED
        BY <2>3, <4>1
    <3>2. CASE ~Accepts(m.attempt, m.batch)
      <4>1. answer' = IF post[m.attempt] # m.batch THEN answer
                      ELSE [answer EXCEPT ![m.attempt] = [kind |-> "rejected", through |-> -1]]
        BY <1>4, <3>2, Zenon DEF HandleEvents
      <4>2. QED
        BY <4>1
    <3>3. QED
      BY <3>1, <3>2
  <2>5. post' = post /\ wire' \subseteq wire
    BY <1>4 DEF HandleEvents
  <2>6. [kind |-> kind, through |-> through] \in Answers
    BY DEF Answers
  <2>7. answer' \in [Attempts -> Answers]
    BY <1>0, <2>1, <2>4, <2>6
  <2>8. \A a \in Attempts : answer'[a] # answer[a] => a = m.attempt /\ post[a] = m.batch
    BY <1>0, <2>1, <2>4
  <2>9. QED
    BY <1>0, <2>2, <2>5, <2>7, <2>8
<1>5. ASSUME NEW a \in Attempts, SpawnStep(a) \/ StartupStep(a) \/ MainStep(a) \/ Launch(a) PROVE Typed
  BY <1>1, <1>2, <1>5 DEF SpawnStep, SpawnSucceeds, SpawnFails, StartupStep, FirstHeartbeat, FirstHeartbeatLost,
     FirstHeartbeatRejected, Prepare, Start, StartupFails, MainStep, ConnectorRecord, ConnectorFinishes,
     ConsumerDone, RunFails, Deadline, GraceEnds, CloseConnector, EmitArtifact, JournalVerdict, LeaveRun,
     Launch
<1>6. ASSUME NEW a \in Attempts, DeliveryStep(a) \/ ControlStep(a) \/ JobRecovers(a) \/ ReconcileStep(a)
             \/ SweepContainer(a) \/ \E left \in BOOLEAN : Crash(a, left)
      PROVE  Typed
  BY <1>1, <1>2, <1>3, <1>6 DEF DeliveryStep, GiveUp, TakeAnswer, ControlStep, SendReceipt, Poll,
     ControlRejected, UseFirstHeartbeat, BeginCommand, SendControl, FinishCommand, ListDone,
     JobRecovers, ReconcileStep, Reconcile, SweepContainer, Crash
<1>7. ASSUME NEW r \in Recoverers, RecoveryStep(r) PROVE Typed
  BY <1>1, <1>7 DEF RecoveryStep, ReplayBatch, DropBatch, ReplayReceipt, DropReceipt, ReplayDone,
     ReplayFails, FinishRecovery
<1>8. QED
  BY <1>1, <1>4, <1>5, <1>6, <1>7 DEF DeliveryNext, Environment, runnerVars, ReconcilerCrash

\* A recovery is about an attempt that was launched, its own one if it is a job's.
LEMMA RecoveryTyped ==
  ASSUME StreamType, Place, JournalInv, JournalInv', [Next]_vars, DeliveryNext
  PROVE  /\ recovery' \in [Recoverers -> Recoveries]
         /\ \A r \in Recoverers : recovery'[r].pc # "idle" => recovery'[r].attempt \in 1 .. current'
<1> DEFINE Typed == /\ recovery' \in [Recoverers -> Recoveries]
                    /\ \A r \in Recoverers : recovery'[r].pc # "idle" => recovery'[r].attempt \in 1 .. current'
<1>0. /\ recovery \in [Recoverers -> Recoveries]
      /\ \A r \in Recoverers : recovery[r].pc # "idle" => recovery[r].attempt \in 1 .. current
      /\ current \in 0 .. MaxAttempts /\ current' \in 0 .. MaxAttempts /\ current <= current'
      /\ MaxAttempts \in Nat
  BY CurrentStep DEF StreamType, Place, JournalInv, TypeOK
<1>1. ASSUME UNCHANGED recovery PROVE Typed
  BY <1>0, <1>1
<1>2. ASSUME NEW r \in Recoverers, NEW s \in Recoveries, recovery' = [recovery EXCEPT ![r] = s],
             s.pc # "idle" => s.attempt \in 1 .. current
      PROVE  Typed
  BY <1>0, <1>2
<1>3. NoRecovery \in Recoveries /\ NoRecovery.pc = "idle"
  BY <1>0 DEF NoRecovery, Recoveries
<1>4. ASSUME NEW r \in Recoverers, NEW a \in 1 .. current, NEW pc \in {"replay", "finish"},
             recovery' = [recovery EXCEPT ![r] = [NoRecovery EXCEPT !.pc = pc, !.attempt = a]]
      PROVE  Typed
  <2>1. a \in 0 .. MaxAttempts
    BY <1>0
  <2>2. [NoRecovery EXCEPT !.pc = pc, !.attempt = a] \in Recoveries
    <3>1. pc \in {"idle", "replay", "drop", "forget", "finish"}
      OBVIOUS
    <3>2. QED
      BY <1>3, <2>1, <3>1, Zenon DEF Recoveries
  <2>3. [NoRecovery EXCEPT !.pc = pc, !.attempt = a].attempt = a
    BY DEF NoRecovery
  <2>4. QED
    BY <1>2, <1>4, <2>2, <2>3
<1>5. ASSUME NEW r \in Recoverers, recovery[r].pc # "idle", NEW pc \in {"replay", "drop", "forget", "finish"},
             NEW through \in Int, NEW cmd \in Commands \cup {NoId},
             recovery' = [recovery EXCEPT ![r] = [@ EXCEPT !.pc = pc, !.through = through, !.cmd = cmd]]
      PROVE  Typed
  <2>1. recovery[r] \in Recoveries
    BY <1>0
  <2>2. [recovery[r] EXCEPT !.pc = pc, !.through = through, !.cmd = cmd] \in Recoveries
    BY <2>1, Zenon DEF Recoveries
  <2>3. [recovery[r] EXCEPT !.pc = pc, !.through = through, !.cmd = cmd].attempt = recovery[r].attempt
    BY <2>1 DEF Recoveries
  <2>4. QED
    BY <1>0, <1>2, <1>5, <2>2, <2>3
<1>6. ASSUME NEW a \in Attempts, JobRecovers(a) PROVE Typed
  <2>1. a \in Recoverers /\ a \in 1 .. current
    BY <1>0, <1>6 DEF JobRecovers, Place, Attempts, Recoverers, NoRunner
  <2>2. QED
    BY <1>4, <1>6, <2>1 DEF JobRecovers
<1>7. ASSUME NEW a \in Attempts, ReconcileStep(a) PROVE Typed
  <2>1. 0 \in Recoverers /\ a \in 1 .. current
    BY <1>0, <1>7 DEF ReconcileStep, Reconcile, Unfinished, Owns, Attempts, Recoverers
  <2>2. QED
    BY <1>4, <1>7, <2>1 DEF ReconcileStep, Reconcile
<1>8. ASSUME NEW a \in Attempts, NEW left \in BOOLEAN, Crash(a, left) PROVE Typed
  <2>1. a \in Recoverers
    BY <1>0 DEF Attempts, Recoverers
  <2>2. QED
    BY <1>2, <1>3, <1>8, <2>1 DEF Crash
<1>9. ASSUME NEW r \in Recoverers, RecoveryStep(r) PROVE Typed
  <2> DEFINE a == recovery[r].attempt
  <2>0. recovery[r] \in Recoveries
    BY <1>0
  <2>1. recovery[r].through \in Int /\ recovery[r].cmd \in Commands \cup {NoId}
    BY <2>0 DEF Recoveries
  <2>2. ASSUME NEW pc \in {"replay", "drop", "forget", "finish"}, GoTo(r, pc), recovery[r].pc # "idle"
        PROVE  Typed
    <3>1. [recovery[r] EXCEPT !.pc = pc] \in Recoveries
      BY <2>0, Zenon DEF Recoveries
    <3>2. [recovery[r] EXCEPT !.pc = pc].attempt = recovery[r].attempt
      BY <2>0 DEF Recoveries
    <3>3. QED
      BY <1>0, <1>2, <2>2, <3>1, <3>2 DEF GoTo
  <2>3. CASE ReplayBatch(r)
    <3>1. a \in Attempts
      BY <1>0, <2>3 DEF ReplayBatch, At, Attempts
    <3>2. nextSeq'[a] - 1 \in Int
      BY <3>1, BoundsAssumption DEF JournalInv, TypeOK
    <3>3. CASE Accepts(a, Batch(a))
      <4>1. recovery' = [recovery EXCEPT ![r].pc = "drop", ![r].through = nextSeq'[a] - 1]
        BY <2>3, <3>3 DEF ReplayBatch
      <4>2. recovery' = [recovery EXCEPT ![r] = [@ EXCEPT !.pc = "drop", !.through = nextSeq'[a] - 1,
                                                          !.cmd = recovery[r].cmd]]
        BY <4>1, <1>0, <2>0 DEF Recoveries
      <4>3. QED
        BY <1>5, <2>1, <2>3, <3>2, <4>2 DEF ReplayBatch, At
    <3>4. CASE ~Accepts(a, Batch(a))
      BY <2>2, <2>3, <3>4 DEF ReplayBatch, At
    <3>5. QED
      BY <3>3, <3>4
  <2>4. CASE DropBatch(r) \/ ReplayDone(r) \/ ReplayFails(r)
    BY <2>2, <2>4 DEF DropBatch, ReplayDone, ReplayFails, At
  <2>5. ASSUME NEW c \in Commands, ReplayReceipt(r, c) PROVE Typed
    <3>1. CASE AckAccepts(a, c, ledger[c])
      <4>1. recovery' = [recovery EXCEPT ![r].pc = "forget", ![r].cmd = c]
        BY <2>5, <3>1 DEF ReplayReceipt
      <4>2. recovery' = [recovery EXCEPT ![r] = [@ EXCEPT !.pc = "forget", !.through = recovery[r].through,
                                                          !.cmd = c]]
        BY <4>1, <1>0, <2>0 DEF Recoveries
      <4>3. QED
        BY <1>5, <2>1, <2>5, <4>2 DEF ReplayReceipt, At
    <3>2. CASE ~AckAccepts(a, c, ledger[c])
      BY <2>2, <2>5, <3>2 DEF ReplayReceipt, At
    <3>3. QED
      BY <3>1, <3>2
  <2>6. CASE DropReceipt(r)
    <3>1. recovery' = [recovery EXCEPT ![r].pc = "replay", ![r].cmd = NoId]
      BY <2>6 DEF DropReceipt
    <3>2. recovery' = [recovery EXCEPT ![r] = [@ EXCEPT !.pc = "replay", !.through = recovery[r].through,
                                                        !.cmd = NoId]]
      BY <3>1, <1>0, <2>0 DEF Recoveries
    <3>3. QED
      BY <1>5, <2>1, <2>6, <3>2 DEF DropReceipt, At
  <2>7. ASSUME NEW valid \in BOOLEAN, NEW stopped \in BOOLEAN, FinishRecovery(r, valid, stopped) PROVE Typed
    BY <1>2, <1>3, <2>7 DEF FinishRecovery
  <2>8. QED
    BY <1>9, <2>3, <2>4, <2>5, <2>6, <2>7 DEF RecoveryStep
<1>10. CASE ReconcilerCrash
  <2>1. 0 \in Recoverers
    BY <1>0 DEF Recoverers
  <2>2. QED
    BY <1>2, <1>3, <1>10, <2>1 DEF ReconcilerCrash
<1>11. ASSUME NEW a \in Attempts, SpawnStep(a) \/ StartupStep(a) \/ MainStep(a) \/ Launch(a) PROVE Typed
  BY <1>1, <1>11 DEF SpawnStep, SpawnSucceeds, SpawnFails, StartupStep, FirstHeartbeat, FirstHeartbeatLost,
     FirstHeartbeatRejected, Prepare, Start, StartupFails, MainStep, ConnectorRecord, ConnectorFinishes,
     ConsumerDone, RunFails, Deadline, GraceEnds, CloseConnector, EmitArtifact, JournalVerdict, LeaveRun,
     Launch
<1>12. ASSUME NEW a \in Attempts, DeliveryStep(a) \/ ControlStep(a) \/ SweepContainer(a) PROVE Typed
  BY <1>1, <1>12 DEF DeliveryStep, SendBatch, GiveUp, TakeAnswer, ControlStep, SendReceipt, Poll,
     ControlRejected, UseFirstHeartbeat, BeginCommand, SendControl, FinishCommand, ListDone, SweepContainer
<1>13. QED
  BY <1>1, <1>6, <1>7, <1>8, <1>9, <1>10, <1>11, <1>12 DEF DeliveryNext, Environment, runnerVars, HandleEvents

\* What a runner may write at the end of its spool.
LEMMA BodiesKnown ==
  /\ Body(0, "run.started", "none") \in Bodies
  /\ \A n \in 1 .. MaxSeq - 1 : Body(n, "record", "none") \in Bodies
  /\ \A n \in 1 .. MaxSeq : \A verdict \in Final : Body(n, "run.finished", verdict) \in Bodies
BY DeliveryAssumption DEF RunnerBodies

\* Only a runner that streams or finalizes writes to its spool, and what is written is a
\* record that fits; and what is acknowledged is in the spool.
LEMMA WriteStep ==
  ASSUME DeliveryInv, DeliveryNext
  PROVE  \/ UNCHANGED <<spool, acked>>
         \/ \E a \in Attempts, through \in Int :
              UNCHANGED spool /\ through < SpoolNext(a) /\ Drop(a, through)
         \/ \E a \in Attempts, kind \in {"run.started", "record"} :
              /\ UNCHANGED acked /\ Append(a, kind, "none") /\ (kind = "run.started" <=> SpoolNext(a) = 0)
              /\ SpoolNext(a) < MaxSeq /\ Body(SpoolNext(a), kind, "none") \in Bodies
              /\ runner[a].phase \in {"running", "expiring", "closing", "finalizing"}
         \/ \E a \in Attempts : \E verdict \in {Verdict(a), "failed"} :
              /\ UNCHANGED acked /\ Append(a, "run.finished", verdict) /\ runner[a].phase = "finalizing"
              /\ verdict \in Final /\ SpoolNext(a) \in 1 .. MaxSeq /\ Body(SpoolNext(a), "run.finished", verdict) \in Bodies
              /\ Move(a, "flushing")
<1> DEFINE Writes ==
         \/ UNCHANGED <<spool, acked>>
         \/ \E a \in Attempts, through \in Int :
              UNCHANGED spool /\ through < SpoolNext(a) /\ Drop(a, through)
         \/ \E a \in Attempts, kind \in {"run.started", "record"} :
              /\ UNCHANGED acked /\ Append(a, kind, "none") /\ (kind = "run.started" <=> SpoolNext(a) = 0)
              /\ SpoolNext(a) < MaxSeq /\ Body(SpoolNext(a), kind, "none") \in Bodies
              /\ runner[a].phase \in {"running", "expiring", "closing", "finalizing"}
         \/ \E a \in Attempts : \E verdict \in {Verdict(a), "failed"} :
              /\ UNCHANGED acked /\ Append(a, "run.finished", verdict) /\ runner[a].phase = "finalizing"
              /\ verdict \in Final /\ SpoolNext(a) \in 1 .. MaxSeq /\ Body(SpoolNext(a), "run.finished", verdict) \in Bodies
              /\ Move(a, "flushing")
<1>0. /\ \A a \in Attempts : SpoolNext(a) \in Nat /\ RunnerPlace(runner[a], SpoolNext(a))
      /\ runner \in [Attempts -> RunnerStates] /\ answer \in [Attempts -> Answers]
      /\ recovery \in [Recoverers -> Recoveries]
      /\ MaxSeq \in Nat /\ MaxSeq > 0 /\ MaxAttempts \in Nat /\ current \in 0 .. MaxAttempts
  BY BoundsAssumption, DeliveryAssumption DEF DeliveryInv, StreamType, Place, JournalInv, TypeOK
<1>1. ASSUME NEW a \in Attempts, MainStep(a) PROVE Writes
  <2>1. CASE ConnectorRecord(a)
    <3>1. /\ runner[a].phase \in {"running", "expiring", "closing"} /\ SpoolNext(a) < MaxSeq /\ UNCHANGED acked
          /\ Append(a, IF SpoolNext(a) = 0 THEN "run.started" ELSE "record", "none")
      BY <2>1 DEF ConnectorRecord, Streaming, Started
    <3>2. QED
      BY <1>0, <3>1, BodiesKnown
  <2>2. CASE EmitArtifact(a)
    <3>1. /\ runner[a].phase = "finalizing" /\ SpoolNext(a) < MaxSeq /\ UNCHANGED acked
          /\ Append(a, "record", "none")
      BY <2>2 DEF EmitArtifact
    <3>2. SpoolNext(a) \in 1 .. MaxSeq - 1
      BY <1>0, <3>1 DEF RunnerPlace
    <3>3. QED
      BY <3>1, <3>2, BodiesKnown
  <2>3. ASSUME NEW confirmed \in BOOLEAN, CloseConnector(a, confirmed) PROVE Writes
    <3>1. CASE runner[a].outcome = "none" /\ SpoolNext(a) = 0
      <4>1. Append(a, "run.started", "none") /\ UNCHANGED acked /\ runner[a].phase = "closing"
        BY <2>3, <3>1 DEF CloseConnector
      <4>2. QED
        BY <1>0, <3>1, <4>1, BodiesKnown
    <3>2. CASE ~(runner[a].outcome = "none" /\ SpoolNext(a) = 0)
      BY <2>3, <3>2 DEF CloseConnector
    <3>3. QED
      BY <3>1, <3>2
  <2>4. ASSUME NEW collected \in BOOLEAN, JournalVerdict(a, collected) PROVE Writes
    <3>1. PICK verdict \in {Verdict(a), "failed"} :
            /\ UNCHANGED acked /\ Append(a, "run.finished", verdict) /\ runner[a].phase = "finalizing"
            /\ Move(a, "flushing")
      BY <2>4 DEF JournalVerdict
    <3>2. runner[a] \in RunnerStates /\ RunnerPlace(runner[a], SpoolNext(a))
      BY <1>0
    <3>3. runner[a].outcome \in Final \cup {"none"} /\ runner[a].failure \in {"none", "error", "deadline", "shutdown"}
      BY <3>2, Zenon DEF RunnerStates
    <3>4. verdict \in Final
      BY <3>1, <3>2, <3>3 DEF Verdict, Final, RunnerPlace
    <3>5. SpoolNext(a) \in 1 .. MaxSeq
      BY <1>0, <3>1, <3>2 DEF RunnerPlace
    <3>6. QED
      BY <3>1, <3>4, <3>5, BodiesKnown
  <2>5. QED
    BY <1>1, <2>1, <2>2, <2>3, <2>4 DEF MainStep, ConnectorFinishes, ConsumerDone, RunFails, Fail,
       Deadline, GraceEnds, LeaveRun, disk
<1>2. ASSUME NEW a \in Attempts, DeliveryStep(a) PROVE Writes
  <2>1. CASE TakeAnswer(a)
    <3>1. answer[a].through \in Int
      <4>1. answer[a] \in Answers
        BY <1>0
      <4>2. QED
        BY <4>1 DEF Answers
    <3>2. CASE ReceiptFits(a)
      BY <2>1, <3>1, <3>2 DEF TakeAnswer, ReceiptFits
    <3>3. CASE ~ReceiptFits(a)
      BY <2>1, <3>3 DEF TakeAnswer
    <3>4. QED
      BY <3>2, <3>3
  <2>2. QED
    BY <1>2, <2>1 DEF DeliveryStep, SendBatch, GiveUp, disk
<1>3. ASSUME NEW r \in Recoverers, RecoveryStep(r) PROVE Writes
  <2>1. CASE DropBatch(r)
    <3> DEFINE a == recovery[r].attempt
    <3>1. recovery[r].through \in Int
      <4>1. recovery[r] \in Recoveries
        BY <1>0
      <4>2. QED
        BY <4>1 DEF Recoveries
    <3>2. a \in Attempts
      BY <1>0, <2>1 DEF DropBatch, At, DeliveryInv, Place, Attempts
    <3>3. CASE recovery[r].through < SpoolNext(a)
      BY <2>1, <3>1, <3>2, <3>3 DEF DropBatch
    <3>4. CASE ~(recovery[r].through < SpoolNext(a))
      BY <2>1, <3>4 DEF DropBatch
    <3>5. QED
      BY <3>3, <3>4
  <2>2. QED
    BY <1>3, <2>1 DEF RecoveryStep, ReplayBatch, ReplayReceipt, DropReceipt, ReplayDone,
       ReplayFails, FinishRecovery, disk
<1>4. ASSUME NEW a \in Attempts, SpawnStep(a) \/ StartupStep(a) \/ Launch(a) PROVE Writes
  BY <1>4 DEF SpawnStep, SpawnSucceeds, SpawnFails, StartupStep, FirstHeartbeat, FirstHeartbeatLost,
     FirstHeartbeatRejected, Prepare, Start, StartupFails, Launch, disk
<1>5. ASSUME NEW a \in Attempts, ControlStep(a) \/ JobRecovers(a) \/ ReconcileStep(a)
             \/ SweepContainer(a) \/ \E left \in BOOLEAN : Crash(a, left)
      PROVE  Writes
  BY <1>5 DEF ControlStep, SendReceipt, Poll, ControlRejected, UseFirstHeartbeat, BeginCommand,
     SendControl, FinishCommand, ListDone, JobRecovers, ReconcileStep, Reconcile, SweepContainer, Crash, disk
<1>6. Writes
  BY <1>1, <1>2, <1>3, <1>4, <1>5 DEF DeliveryNext, Environment, runnerVars, HandleEvents, ReconcilerCrash, disk
<1>7. QED
  BY <1>6
-----------------------------------------------------------------------------
(* What a step makes of a runner and of its container                      *)

Looks(t, phase, outcome, failure, cancelled, control, todo, doing) ==
  /\ t.phase = phase /\ t.outcome = outcome /\ t.failure = failure /\ t.cancelled = cancelled
  /\ t.control = control /\ t.todo = todo /\ t.doing = doing

\* Another phase, with the run and its control task as they were.
Passes(s, t, phase) ==
  Looks(t, phase, s.outcome, s.failure, s.cancelled, s.control, s.todo, s.doing)

PhaseMove(a, s, t) ==
  \/ s # NoRunner /\ Passes(s, t, s.phase)
  \/ a = current + 1 /\ current' = a /\ Passes(s, t, "spawning")
  \/ s.phase = "spawning" /\ ((Owns(a) /\ Passes(s, t, "starting")) \/ Passes(s, t, "gone"))
  \/ s.phase = "starting" /\ Passes(s, t, "leaving")
  \/ s.phase = "preparing" /\ Passes(s, t, "prepared") /\ config'[a] # NoConfig
  \/ s.phase = "prepared" /\ Passes(s, t, "running")
  \/ /\ s.phase = "finalizing" /\ Passes(s, t, "flushing")
     /\ \E verdict \in {Verdict(a), "failed"} : Append(a, "run.finished", verdict)

RunMove(a, s, t) ==
  \/ \E why \in {"none", "error", "deadline"} :
       /\ \/ s.phase \in {"preparing", "prepared"} /\ why = "error"
          \/ s.phase = "running" /\ (why = "none" => s.outcome # "none")
          \/ s.phase = "expiring" /\ why = "deadline"
       /\ Looks(t, "closing", s.outcome, why, s.cancelled, "off", {}, NoId)
  \/ \E verdict \in Final :
       /\ Streaming(a) /\ SpoolNext(a) > 0
       /\ Looks(t, s.phase, verdict, s.failure, s.cancelled, s.control, s.todo, s.doing)
  \/ /\ s.phase = "running"
     /\ Looks(t, "expiring", s.outcome, s.failure, TRUE, s.control, s.todo, s.doing)
  \/ \E why \in {s.failure, "shutdown"} :
       /\ s.phase = "closing"
       /\ s.outcome = "none" /\ SpoolNext(a) = 0 => Append(a, "run.started", "none")
       /\ Looks(t, "finalizing", s.outcome, why, s.cancelled, s.control, s.todo, s.doing)
  \/ \E phase \in {"leaving", "gone"} :
       /\ a \in 1 .. current /\ (phase = "leaving" => s.phase = "flushing")
       /\ Looks(t, phase, "none", "none", FALSE, "off", {}, NoId)

ControlMove(a, s, t) ==
  \/ \E control \in {"off", "first"} :
       /\ s.phase = "starting"
       /\ ledger' = [c \in Commands |-> IF c \in Offered(a) \cap AbortCommands
                                          THEN "before_start" ELSE ledger[c]]
       /\ Looks(t, "preparing", s.outcome, s.failure, Offered(a) \cap AbortCommands # {}, control,
                Offered(a), s.doing)
  \/ /\ s.phase = "starting"
     /\ Looks(t, "preparing", s.outcome, s.failure, s.cancelled, "flush", s.todo, s.doing)
  \/ \E control \in {"off", "flush", "work"}, todo \in {s.todo, Offered(a)} :
       /\ s.control \in {"first", "flush"} \/ (s.control = "work" /\ s.doing = NoId)
       /\ Looks(t, s.phase, s.outcome, s.failure, s.cancelled, control, todo, s.doing)
  \/ \E c \in s.todo :
       /\ s.control = "work"
       /\ Looks(t, s.phase, s.outcome, s.failure, s.cancelled \/ c \in AbortCommands, s.control,
                s.todo \ {c}, c)
  \/ /\ s.doing # NoId
     /\ Looks(t, s.phase, s.outcome, s.failure, s.cancelled, s.control, s.todo, NoId)

RunnerMove(a) ==
  \/ runner'[a] = runner[a]
  \/ PhaseMove(a, runner[a], runner'[a])
  \/ RunMove(a, runner[a], runner'[a])
  \/ ControlMove(a, runner[a], runner'[a])

\* The fields of a changed state, in the order of Looks.
LEMMA ChangedFields ==
  ASSUME NEW s \in RunnerStates, NEW phase, NEW v, NEW todo, NEW c, NEW stop
  PROVE  /\ Passes(s, [s EXCEPT !.phase = phase], phase)
         /\ Looks([NoRunner EXCEPT !.phase = phase], phase, "none", "none", FALSE, "off", {}, NoId)
         /\ Looks([s EXCEPT !.phase = "closing", !.failure = v, !.control = "off", !.todo = {},
                            !.doing = NoId, !.sent = FALSE],
                  "closing", s.outcome, v, s.cancelled, "off", {}, NoId)
         /\ Looks([s EXCEPT !.outcome = v], s.phase, v, s.failure, s.cancelled, s.control, s.todo, s.doing)
         /\ Looks([s EXCEPT !.phase = "expiring", !.cancelled = TRUE],
                  "expiring", s.outcome, s.failure, TRUE, s.control, s.todo, s.doing)
         /\ Looks([s EXCEPT !.phase = "finalizing", !.failure = v],
                  "finalizing", s.outcome, v, s.cancelled, s.control, s.todo, s.doing)
         /\ Looks([s EXCEPT !.phase = "preparing", !.delivering = TRUE, !.cancelled = stop, !.todo = todo,
                            !.control = v],
                  "preparing", s.outcome, s.failure, stop, v, todo, s.doing)
         /\ Looks([s EXCEPT !.phase = "preparing", !.delivering = TRUE, !.control = v],
                  "preparing", s.outcome, s.failure, s.cancelled, v, s.todo, s.doing)
         /\ Looks([s EXCEPT !.todo = todo, !.control = v],
                  s.phase, s.outcome, s.failure, s.cancelled, v, todo, s.doing)
         /\ Looks([s EXCEPT !.control = v],
                  s.phase, s.outcome, s.failure, s.cancelled, v, s.todo, s.doing)
         /\ Looks([s EXCEPT !.todo = todo, !.doing = c, !.cancelled = stop],
                  s.phase, s.outcome, s.failure, stop, s.control, todo, c)
         /\ Looks([s EXCEPT !.doing = NoId, !.sent = FALSE],
                  s.phase, s.outcome, s.failure, s.cancelled, s.control, s.todo, NoId)
         /\ Passes(s, [s EXCEPT !.sent = TRUE], s.phase)
         /\ Passes(s, [s EXCEPT !.delivering = FALSE], s.phase)
BY DEF RunnerStates, Looks, Passes, NoRunner

\* A step moves the runner it is a step of, in one of these ways, and no other.
LEMMA RunnerMoves ==
  ASSUME JournalInv, StreamType, Place, DeliveryNext, NEW p \in Attempts
  PROVE  RunnerMove(p)
<1>0. /\ runner \in [Attempts -> RunnerStates]
      /\ \A a \in Attempts : runner[a] # NoRunner => a \in 1 .. current
      /\ \A r \in Recoverers : recovery[r].pc # "idle" => recovery[r].attempt \in 1 .. current
      /\ NoRunner.phase = "none" /\ NoRunner.delivering = FALSE
      /\ \A a \in 1 .. current : a \in Attempts
  <2>1. current \in 0 .. MaxAttempts /\ MaxAttempts \in Nat
    BY BoundsAssumption DEF JournalInv, TypeOK
  <2>2. NoRunner.phase = "none" /\ NoRunner.delivering = FALSE
    BY DEF NoRunner
  <2>3. QED
    BY <2>1, <2>2 DEF StreamType, Place, Attempts
<1>1. ASSUME runner' = runner PROVE RunnerMove(p)
  BY <1>1 DEF RunnerMove
<1>2. ASSUME NEW a \in Attempts, NEW t, runner' = [runner EXCEPT ![a] = t],
             PhaseMove(a, runner[a], t) \/ RunMove(a, runner[a], t) \/ ControlMove(a, runner[a], t)
      PROVE  RunnerMove(p)
  BY <1>0, <1>2 DEF RunnerMove
<1>3. ASSUME NEW a \in Attempts, NEW phase, Move(a, phase)
      PROVE  /\ runner' = [runner EXCEPT ![a] = [runner[a] EXCEPT !.phase = phase]]
             /\ Passes(runner[a], [runner[a] EXCEPT !.phase = phase], phase)
  BY <1>0, <1>3, ChangedFields DEF Move
<1>4. ASSUME NEW a \in Attempts, NEW phase \in {"leaving", "gone"}, Forget(a, phase), a \in 1 .. current,
             phase = "leaving" => runner[a].phase = "flushing"
      PROVE  RunnerMove(p)
  <2> DEFINE t == [NoRunner EXCEPT !.phase = phase]
  <2>1. Looks(t, phase, "none", "none", FALSE, "off", {}, NoId) /\ runner' = [runner EXCEPT ![a] = t]
    BY <1>0, <1>4, ChangedFields DEF Forget
  <2> HIDE DEF t
  <2>2. RunMove(a, runner[a], t)
    BY <1>4, <2>1 DEF RunMove
  <2>3. QED
    BY <1>2, <2>1, <2>2
<1>5. ASSUME NEW a \in Attempts, NEW why \in {"none", "error", "deadline"}, Fail(a, why),
             \/ runner[a].phase \in {"preparing", "prepared"} /\ why = "error"
             \/ runner[a].phase = "running" /\ (why = "none" => runner[a].outcome # "none")
             \/ runner[a].phase = "expiring" /\ why = "deadline"
      PROVE  RunnerMove(p)
  <2> DEFINE t == [runner[a] EXCEPT !.phase = "closing", !.failure = why, !.control = "off", !.todo = {},
                                    !.doing = NoId, !.sent = FALSE]
  <2>1. Looks(t, "closing", runner[a].outcome, why, runner[a].cancelled, "off", {}, NoId)
        /\ runner' = [runner EXCEPT ![a] = t]
    BY <1>0, <1>5, ChangedFields DEF Fail
  <2> HIDE DEF t
  <2>2. RunMove(a, runner[a], t)
    BY <1>5, <2>1 DEF RunMove
  <2>3. QED
    BY <1>2, <2>1, <2>2
<1>6. ASSUME NEW a \in Attempts, Launch(a) \/ SpawnStep(a) PROVE RunnerMove(p)
  <2>1. CASE Move(a, "spawning") /\ a = current + 1 /\ current' = a
    BY <1>2, <1>3, <2>1 DEF PhaseMove
  <2>2. CASE Move(a, "starting") /\ runner[a].phase = "spawning" /\ Owns(a)
    BY <1>2, <1>3, <2>2 DEF PhaseMove
  <2>3. CASE Move(a, "gone") /\ runner[a].phase = "spawning"
    BY <1>2, <1>3, <2>3 DEF PhaseMove
  <2>4. QED
    BY <1>6, <2>1, <2>2, <2>3 DEF Launch, CreateAttempt, SpawnStep, SpawnSucceeds, SpawnFails
<1>7. ASSUME NEW a \in Attempts, StartupStep(a) PROVE RunnerMove(p)
  <2> DEFINE s == runner[a]
  <2>1. CASE FirstHeartbeat(a)
    <3> DEFINE aborts == Offered(a) \cap AbortCommands
    <3>1. PICK control \in {"off", "first"} :
            runner' = [runner EXCEPT ![a] =
              [@ EXCEPT !.phase = "preparing", !.delivering = TRUE, !.cancelled = aborts # {},
                        !.todo = Offered(a), !.control = control]]
      BY <2>1 DEF FirstHeartbeat
    <3>2. /\ s.phase = "starting"
          /\ ledger' = [c \in Commands |-> IF c \in aborts THEN "before_start" ELSE ledger[c]]
      BY <2>1 DEF FirstHeartbeat
    <3> DEFINE t == [s EXCEPT !.phase = "preparing", !.delivering = TRUE, !.cancelled = aborts # {},
                              !.todo = Offered(a), !.control = control]
    <3>3. Looks(t, "preparing", s.outcome, s.failure, aborts # {}, control, Offered(a), s.doing)
          /\ runner' = [runner EXCEPT ![a] = t]
      BY <1>0, <3>1, ChangedFields
    <3> HIDE DEF t
    <3>4. ControlMove(a, s, t)
      BY <3>2, <3>3 DEF ControlMove
    <3>5. QED
      BY <1>2, <3>3, <3>4
  <2>2. CASE FirstHeartbeatLost(a)
    <3> DEFINE t == [s EXCEPT !.phase = "preparing", !.delivering = TRUE, !.control = "flush"]
    <3>1. Looks(t, "preparing", s.outcome, s.failure, s.cancelled, "flush", s.todo, s.doing)
          /\ runner' = [runner EXCEPT ![a] = t] /\ s.phase = "starting"
      BY <1>0, <2>2, ChangedFields DEF FirstHeartbeatLost
    <3> HIDE DEF t
    <3>2. ControlMove(a, s, t)
      BY <3>1 DEF ControlMove
    <3>3. QED
      BY <1>2, <3>1, <3>2
  <2>3. CASE Move(a, "leaving") /\ s.phase = "starting"
    BY <1>2, <1>3, <2>3 DEF PhaseMove
  <2>4. ASSUME Move(a, "prepared"), s.phase = "preparing", config'[a] # NoConfig PROVE RunnerMove(p)
    <3> DEFINE t == [s EXCEPT !.phase = "prepared"]
    <3>1. runner' = [runner EXCEPT ![a] = t] /\ Passes(s, t, "prepared")
      BY <1>3, <2>4
    <3> HIDE DEF t
    <3>2. PhaseMove(a, s, t)
      BY <2>4, <3>1, Zenon DEF PhaseMove
    <3>3. QED
      BY <1>2, <3>1, <3>2
  <2>5. CASE Move(a, "running") /\ s.phase = "prepared"
    BY <1>2, <1>3, <2>5 DEF PhaseMove
  <2>6. CASE Fail(a, "error") /\ s.phase \in {"preparing", "prepared"}
    BY <1>5, <2>6
  <2>7. ASSUME NEW answered \in BOOLEAN, Prepare(a, answered) PROVE config'[a] # NoConfig
    <3>1. Config \in Configs /\ config' = [config EXCEPT ![a] = Config]
      BY <2>7, DeliveryAssumption DEF Prepare, PrepareConfiguration, Config
    <3>2. QED
      BY <3>1, NamesAssumption DEF JournalInv, TypeOK
  <2>8. QED
    BY <1>1, <1>7, <2>1, <2>2, <2>3, <2>4, <2>5, <2>6, <2>7 DEF StartupStep, FirstHeartbeatRejected,
       Prepare, Start, StartupFails
<1>8. ASSUME NEW a \in Attempts, MainStep(a) PROVE RunnerMove(p)
  <2> DEFINE s == runner[a]
  <2>1. ASSUME NEW verdict \in Verdicts, ConnectorFinishes(a, verdict) PROVE RunnerMove(p)
    <3> DEFINE t == [s EXCEPT !.outcome = verdict]
    <3>1. Looks(t, s.phase, verdict, s.failure, s.cancelled, s.control, s.todo, s.doing)
          /\ runner' = [runner EXCEPT ![a] = t] /\ Streaming(a) /\ SpoolNext(a) > 0 /\ verdict \in Final
      BY <1>0, <2>1, ChangedFields, DeliveryAssumption DEF ConnectorFinishes
    <3> HIDE DEF t
    <3>2. RunMove(a, s, t)
      BY <3>1 DEF RunMove
    <3>3. QED
      BY <1>2, <3>1, <3>2
  <2>2. CASE Deadline(a)
    <3> DEFINE t == [s EXCEPT !.phase = "expiring", !.cancelled = TRUE]
    <3>1. Looks(t, "expiring", s.outcome, s.failure, TRUE, s.control, s.todo, s.doing)
          /\ runner' = [runner EXCEPT ![a] = t] /\ s.phase = "running"
      BY <1>0, <2>2, ChangedFields DEF Deadline
    <3> HIDE DEF t
    <3>2. RunMove(a, s, t)
      BY <3>1 DEF RunMove
    <3>3. QED
      BY <1>2, <3>1, <3>2
  <2>3. ASSUME NEW confirmed \in BOOLEAN, CloseConnector(a, confirmed) PROVE RunnerMove(p)
    <3>1. PICK why \in {s.failure, "shutdown"} :
            runner' = [runner EXCEPT ![a] = [@ EXCEPT !.phase = "finalizing", !.failure = why]]
      BY <2>3 DEF CloseConnector
    <3> DEFINE t == [s EXCEPT !.phase = "finalizing", !.failure = why]
    <3>2. /\ Looks(t, "finalizing", s.outcome, why, s.cancelled, s.control, s.todo, s.doing)
          /\ runner' = [runner EXCEPT ![a] = t]
          /\ s.phase = "closing"
          /\ s.outcome = "none" /\ SpoolNext(a) = 0 => Append(a, "run.started", "none")
      BY <1>0, <2>3, <3>1, ChangedFields DEF CloseConnector
    <3> HIDE DEF t
    <3>3. RunMove(a, s, t)
      BY <3>2 DEF RunMove
    <3>4. QED
      BY <1>2, <3>2, <3>3
  <2>4. ASSUME NEW collected \in BOOLEAN, JournalVerdict(a, collected) PROVE RunnerMove(p)
    <3>1. /\ s.phase = "finalizing" /\ Move(a, "flushing")
          /\ \E verdict \in {Verdict(a), "failed"} : Append(a, "run.finished", verdict)
      BY <2>4 DEF JournalVerdict
    <3> DEFINE t == [s EXCEPT !.phase = "flushing"]
    <3>2. runner' = [runner EXCEPT ![a] = t] /\ Passes(s, t, "flushing")
      BY <1>3, <3>1
    <3> HIDE DEF t
    <3>3. PhaseMove(a, s, t)
      BY <3>1, <3>2, Zenon DEF PhaseMove
    <3>4. QED
      BY <1>2, <3>2, <3>3
  <2>5. CASE ConsumerDone(a) \/ RunFails(a) \/ GraceEnds(a)
    BY <1>5, <2>5 DEF ConsumerDone, RunFails, GraceEnds
  <2>6. CASE LeaveRun(a)
    <3>1. a \in 1 .. current /\ Forget(a, "leaving") /\ s.phase = "flushing"
      BY <1>0, <2>6 DEF LeaveRun
    <3>2. QED
      BY <1>4, <3>1
  <2>7. QED
    BY <1>1, <1>8, <2>1, <2>2, <2>3, <2>4, <2>5, <2>6 DEF MainStep, ConnectorRecord, EmitArtifact
<1>9. ASSUME NEW a \in Attempts, DeliveryStep(a) PROVE RunnerMove(p)
  <2> DEFINE s == runner[a]
  <2>1. ASSUME TakeAnswer(a), runner' # runner PROVE RunnerMove(p)
    <3> DEFINE t == [s EXCEPT !.delivering = FALSE]
    <3>1. Passes(s, t, s.phase) /\ runner' = [runner EXCEPT ![a] = t] /\ s # NoRunner
      BY <1>0, <2>1, ChangedFields DEF TakeAnswer
    <3> HIDE DEF t
    <3>2. PhaseMove(a, s, t)
      BY <3>1 DEF PhaseMove
    <3>3. QED
      BY <1>2, <3>1, <3>2
  <2>2. QED
    BY <1>1, <1>9, <2>1 DEF DeliveryStep, SendBatch, GiveUp
<1>10. ASSUME NEW a \in Attempts, ControlStep(a) PROVE RunnerMove(p)
  <2> DEFINE s == runner[a]
  <2>1. ASSUME NEW control \in {"off", "flush", "work"}, runner' = [runner EXCEPT ![a].control = control],
               s.control \in {"first", "flush"} \/ (s.control = "work" /\ s.doing = NoId)
        PROVE  RunnerMove(p)
    <3> DEFINE t == [s EXCEPT !.control = control]
    <3>1. Looks(t, s.phase, s.outcome, s.failure, s.cancelled, control, s.todo, s.doing)
          /\ runner' = [runner EXCEPT ![a] = t]
      BY <1>0, <2>1, ChangedFields
    <3> HIDE DEF t
    <3>2. ControlMove(a, s, t)
      BY <2>1, <3>1 DEF ControlMove
    <3>3. QED
      BY <1>2, <3>1, <3>2
  <2>2. ASSUME NEW answered \in BOOLEAN, Poll(a, answered), runner' # runner PROVE RunnerMove(p)
    <3>1. PICK control \in {"off", "work"} :
            runner' = [runner EXCEPT ![a] = [@ EXCEPT !.todo = Offered(a), !.control = control]]
      BY <2>2 DEF Poll
    <3> DEFINE t == [s EXCEPT !.todo = Offered(a), !.control = control]
    <3>2. Looks(t, s.phase, s.outcome, s.failure, s.cancelled, control, Offered(a), s.doing)
          /\ runner' = [runner EXCEPT ![a] = t] /\ s.control = "flush"
      BY <1>0, <2>2, <3>1, ChangedFields DEF Poll
    <3> HIDE DEF t
    <3>3. ControlMove(a, s, t)
      <4>1. control \in {"off", "flush", "work"} /\ Offered(a) \in {s.todo, Offered(a)}
        OBVIOUS
      <4>2. QED
        BY <3>2, <4>1, Zenon DEF ControlMove
    <3>4. QED
      BY <1>2, <3>2, <3>3
  <2>3. ASSUME NEW c \in Commands, BeginCommand(a, c) PROVE RunnerMove(p)
    <3> DEFINE stop == s.cancelled \/ c \in AbortCommands
               t == [s EXCEPT !.todo = s.todo \ {c}, !.doing = c, !.cancelled = stop]
    <3>1. runner' = [runner EXCEPT ![a] = t] /\ c \in s.todo /\ s.control = "work"
      BY <2>3 DEF BeginCommand
    <3>2. Looks(t, s.phase, s.outcome, s.failure, stop, s.control, s.todo \ {c}, c)
      BY <1>0, ChangedFields
    <3> HIDE DEF t
    <3>3. ControlMove(a, s, t)
      BY <3>1, <3>2 DEF ControlMove
    <3>4. QED
      BY <1>2, <3>1, <3>3
  <2>4. CASE SendControl(a)
    <3> DEFINE t == [s EXCEPT !.sent = TRUE]
    <3>1. Passes(s, t, s.phase) /\ runner' = [runner EXCEPT ![a] = t] /\ s # NoRunner
      BY <1>0, <2>4, ChangedFields DEF SendControl, Started
    <3> HIDE DEF t
    <3>2. PhaseMove(a, s, t)
      BY <3>1 DEF PhaseMove
    <3>3. QED
      BY <1>2, <3>1, <3>2
  <2>5. ASSUME NEW receipt \in Receipts, FinishCommand(a, receipt) PROVE RunnerMove(p)
    <3> DEFINE t == [s EXCEPT !.doing = NoId, !.sent = FALSE]
    <3>1. Looks(t, s.phase, s.outcome, s.failure, s.cancelled, s.control, s.todo, NoId)
          /\ runner' = [runner EXCEPT ![a] = t] /\ s.doing # NoId
      BY <1>0, <2>5, ChangedFields DEF FinishCommand
    <3> HIDE DEF t
    <3>2. ControlMove(a, s, t)
      BY <3>1 DEF ControlMove
    <3>3. QED
      BY <1>2, <3>1, <3>2
  <2>6. CASE ControlRejected(a) \/ UseFirstHeartbeat(a) \/ ListDone(a)
    <3>1. PICK control \in {"off", "flush", "work"} : runner' = [runner EXCEPT ![a].control = control]
      BY <2>6 DEF ControlRejected, UseFirstHeartbeat, ListDone
    <3>2. s.control \in {"first", "flush"} \/ (s.control = "work" /\ s.doing = NoId)
      BY <2>6 DEF ControlRejected, UseFirstHeartbeat, ListDone
    <3>3. QED
      BY <2>1, <3>1, <3>2
  <2>7. CASE \E c \in Commands, answered \in BOOLEAN : SendReceipt(a, c, answered)
    BY <1>1, <2>7 DEF SendReceipt
  <2>8. QED
    BY <1>1, <1>10, <2>2, <2>3, <2>4, <2>5, <2>6, <2>7 DEF ControlStep
<1>11. ASSUME NEW r \in Recoverers, RecoveryStep(r) PROVE RunnerMove(p)
  <2>1. ASSUME NEW valid \in BOOLEAN, NEW stopped \in BOOLEAN, FinishRecovery(r, valid, stopped)
        PROVE  RunnerMove(p)
    <3>1. runner' = runner \/ Forget(recovery[r].attempt, "gone")
      BY <2>1 DEF FinishRecovery
    <3>2. recovery[r].attempt \in 1 .. current /\ recovery[r].attempt \in Attempts
      BY <1>0, <2>1 DEF FinishRecovery, At
    <3>3. QED
      BY <1>1, <1>4, <3>1, <3>2
  <2>2. QED
    BY <1>1, <1>11, <2>1 DEF RecoveryStep, ReplayBatch, DropBatch, ReplayReceipt, DropReceipt, ReplayDone,
       ReplayFails
<1>12. ASSUME NEW a \in Attempts, NEW left \in BOOLEAN, Crash(a, left) PROVE RunnerMove(p)
  <2>1. a \in 1 .. current /\ Forget(a, "gone")
    BY <1>0, <1>12 DEF Crash, Live
  <2>2. QED
    BY <1>4, <2>1
<1>13. QED
  BY <1>1, <1>6, <1>7, <1>8, <1>9, <1>10, <1>11, <1>12 DEF DeliveryNext, Environment, runnerVars, JobRecovers,
     ReconcileStep, Reconcile, SweepContainer, HandleEvents, ReconcilerCrash

\* What happens to the container of an attempt.
ContainerMove(a) ==
  \/ container'[a] = container[a]
  \/ container'[a] = "down" /\ a \in 1 .. current
  \/ container'[a] = "idle" /\ Owns(a) /\ runner[a].phase = "spawning"
  \/ container'[a] = "idle" /\ a \in 1 .. current /\ runner'[a].phase = "gone"
  \/ container'[a] = "busy" /\ container[a] = "idle" /\ runner[a].phase = "prepared"

\* A container changes in one of these ways, and none is up when the task gets a
\* new attempt.
LEMMA ContainerMoves ==
  ASSUME JournalInv, StreamType, Place, DeliveryNext
  PROVE  /\ \A p \in Attempts : ContainerMove(p)
         /\ current' # current => container' = container /\ \A p \in Attempts : container[p] \notin Up
<1> DEFINE Kept == \A p \in Attempts : ContainerMove(p)
           New == current' # current =>
                    container' = container /\ \A p \in Attempts : container[p] \notin Up
<1>0. /\ runner \in [Attempts -> RunnerStates] /\ container \in [Attempts -> Up \cup {"none", "down"}]
      /\ \A a \in Attempts : runner[a] # NoRunner \/ container[a] # "none" => a \in 1 .. current
      /\ \A r \in Recoverers : recovery[r].pc # "idle" =>
           recovery[r].attempt \in 1 .. current /\ recovery[r].attempt \in Attempts
      /\ NoRunner.phase = "none"
      /\ \A a \in Attempts : status[a] # "absent" => a \in 1 .. current
  <2>1. current \in 0 .. MaxAttempts /\ MaxAttempts \in Nat
    BY BoundsAssumption DEF JournalInv, TypeOK
  <2>2. NoRunner.phase = "none"
    BY DEF NoRunner
  <2>3. QED
    BY <2>1, <2>2 DEF StreamType, Place, Attempts, JournalInv, SingleActiveAttempt
<1>1. ASSUME UNCHANGED container PROVE Kept
  BY <1>1 DEF ContainerMove
<1>2. ASSUME NEW a \in 1 .. current, a \in Attempts,
             container' \in {container, [container EXCEPT ![a] = "down"]}
      PROVE  Kept
  BY <1>0, <1>2 DEF ContainerMove
<1>3. ASSUME NEW a \in Attempts, Launch(a) PROVE Kept /\ New
  BY <1>1, <1>3 DEF Launch
<1>4. ASSUME NEW a \in Attempts, SpawnStep(a) PROVE Kept /\ UNCHANGED current
  <2>1. CASE SpawnSucceeds(a)
    BY <1>0, <2>1 DEF SpawnSucceeds, vars, ContainerMove
  <2>2. ASSUME NEW left \in BOOLEAN, SpawnFails(a, left) PROVE Kept /\ UNCHANGED current
    <3>1. a \in 1 .. current /\ UNCHANGED current
      BY <1>0, <2>2 DEF SpawnFails, FinishInterrupted, vars
    <3>2. runner'[a].phase = "gone"
      BY <1>0, <2>2, ChangedFields DEF SpawnFails, Move, Passes, Looks
    <3>3. container' \in {[container EXCEPT ![a] = "idle"], [container EXCEPT ![a] = "down"]}
      BY <2>2 DEF SpawnFails
    <3>4. QED
      BY <1>0, <3>1, <3>2, <3>3 DEF ContainerMove
  <2>3. QED
    BY <1>4, <2>1, <2>2 DEF SpawnStep
<1>5. ASSUME NEW a \in Attempts, StartupStep(a) PROVE Kept /\ UNCHANGED current
  <2>1. ASSUME Start(a) PROVE Kept
    BY <1>0, <2>1 DEF Start, ContainerMove
  <2>2. QED
    BY <1>1, <1>5, <2>1 DEF StartupStep, FirstHeartbeat, FirstHeartbeatLost, FirstHeartbeatRejected,
       Prepare, PrepareConfiguration, Heartbeat, Start, StartupFails, vars
<1>6. ASSUME NEW a \in Attempts, MainStep(a) PROVE Kept /\ UNCHANGED current
  <2>1. ASSUME NEW confirmed \in BOOLEAN, CloseConnector(a, confirmed) PROVE Kept
    BY <1>0, <1>2, <2>1 DEF CloseConnector
  <2>2. UNCHANGED current
    BY <1>6 DEF MainStep, ConnectorRecord, ConnectorFinishes, ConsumerDone, RunFails, Deadline,
       GraceEnds, CloseConnector, EmitArtifact, JournalVerdict, LeaveRun, vars
  <2>3. QED
    BY <1>1, <1>6, <2>1, <2>2 DEF MainStep, ConnectorRecord, ConnectorFinishes, ConsumerDone, RunFails,
       Deadline, GraceEnds, EmitArtifact, JournalVerdict, LeaveRun
<1>7. ASSUME NEW a \in Attempts, DeliveryStep(a) \/ ControlStep(a) \/ JobRecovers(a)
      PROVE  Kept /\ UNCHANGED current
  BY <1>1, <1>7 DEF DeliveryStep, SendBatch, GiveUp, TakeAnswer, ControlStep, SendReceipt, Poll,
     ControlRejected, UseFirstHeartbeat, BeginCommand, SendControl, FinishCommand, ListDone,
     JobRecovers, AcknowledgeCommand, Heartbeat, vars
<1>8. ASSUME NEW a \in Attempts, ReconcileStep(a) \/ SweepContainer(a) PROVE Kept /\ UNCHANGED current
  <2>1. a \in 1 .. current
    BY <1>0, <1>8 DEF ReconcileStep, Reconcile, Unfinished, Owns, SweepContainer, Terminal, Final, Attempts
  <2>2. QED
    BY <1>2, <1>8, <2>1 DEF ReconcileStep, Reconcile, SweepContainer, vars
<1>9. ASSUME NEW a \in Attempts, NEW left \in BOOLEAN, Crash(a, left) PROVE Kept /\ UNCHANGED current
  <2>1. a \in 1 .. current /\ UNCHANGED current
    BY <1>0, <1>9 DEF Crash, Live, vars
  <2>2. runner'[a].phase = "gone"
    BY <1>0, <1>9, ChangedFields DEF Crash, Forget, Looks
  <2>3. container' \in {container, [container EXCEPT ![a] = "idle"]}
    BY <1>9 DEF Crash
  <2>4. QED
    BY <1>0, <2>1, <2>2, <2>3 DEF ContainerMove
<1>10. ASSUME NEW r \in Recoverers, RecoveryStep(r) PROVE Kept /\ UNCHANGED current
  <2>1. ASSUME NEW valid \in BOOLEAN, NEW stopped \in BOOLEAN, FinishRecovery(r, valid, stopped) PROVE Kept
    <3>1. recovery[r].attempt \in 1 .. current /\ recovery[r].attempt \in Attempts
      BY <1>0, <2>1 DEF FinishRecovery, At
    <3>2. container' \in {container, [container EXCEPT ![recovery[r].attempt] = "down"]}
      BY <2>1 DEF FinishRecovery
    <3>3. QED
      BY <1>2, <3>1, <3>2
  <2>2. QED
    BY <1>1, <1>10, <2>1 DEF RecoveryStep, ReplayBatch, IngestEvents, DropBatch, ReplayReceipt,
       AcknowledgeCommand, DropReceipt, ReplayDone, ReplayFails, FinishRecovery, FinishInterrupted, vars
<1>11. ASSUME Environment \/ ReconcilerCrash
              \/ \E m \in wire, again \in BOOLEAN : HandleEvents(m, again)
       PROVE Kept /\ UNCHANGED current
  BY <1>1, <1>11 DEF Environment, runnerVars, ReconcilerCrash, HandleEvents, IngestEvents, QueueCommand,
     HeartbeatAges, ArchiveResults, vars
<1>12. QED
  BY <1>3, <1>4, <1>5, <1>6, <1>7, <1>8, <1>9, <1>10, <1>11 DEF DeliveryNext
-----------------------------------------------------------------------------
(* The types, and the place of a runner, are kept                          *)

\* A spool grows by one record at a time, never beyond the final record, and what
\* is acknowledged is in it.
LEMMA SpoolStep ==
  ASSUME DeliveryInv, DeliveryNext
  PROVE  /\ DOMAIN spool' = Attempts
         /\ \A p \in Attempts : /\ SpoolNext(p)' \in 0 .. MaxSeq + 1
                                /\ spool'[p] \in [0 .. SpoolNext(p)' - 1 -> Bodies]
                                /\ SpoolNext(p)' >= SpoolNext(p)
                                /\ \A n \in DOMAIN spool[p] : n \in DOMAIN spool'[p] /\ spool'[p][n] = spool[p][n]
         /\ acked' \in [Attempts -> -1 .. MaxSeq]
         /\ \A p \in Attempts : acked'[p] < SpoolNext(p)'
<1> DEFINE Grows == /\ DOMAIN spool' = Attempts
                    /\ \A p \in Attempts :
                         /\ SpoolNext(p)' \in 0 .. MaxSeq + 1
                         /\ spool'[p] \in [0 .. SpoolNext(p)' - 1 -> Bodies]
                         /\ SpoolNext(p)' >= SpoolNext(p)
                         /\ \A n \in DOMAIN spool[p] : n \in DOMAIN spool'[p] /\ spool'[p][n] = spool[p][n]
           Bounded == /\ acked' \in [Attempts -> -1 .. MaxSeq]
                      /\ \A p \in Attempts : acked'[p] < SpoolNext(p)'
<1>0. /\ StreamType /\ MaxSeq \in Nat /\ DOMAIN spool = Attempts
      /\ \A p \in Attempts : /\ SpoolNext(p) \in 0 .. MaxSeq + 1
                             /\ spool[p] \in [0 .. SpoolNext(p) - 1 -> Bodies]
      /\ acked \in [Attempts -> -1 .. MaxSeq]
      /\ \A p \in Attempts : acked[p] < SpoolNext(p)
  BY BoundsAssumption DEF DeliveryInv, StreamType
<1>1. ASSUME UNCHANGED spool PROVE Grows /\ \A p \in Attempts : SpoolNext(p)' = SpoolNext(p)
  BY <1>0, <1>1 DEF SpoolNext
<1>2. ASSUME NEW a \in Attempts, NEW kind, NEW verdict, Append(a, kind, verdict), UNCHANGED acked,
             SpoolNext(a) <= MaxSeq, Body(SpoolNext(a), kind, verdict) \in Bodies
      PROVE  Grows /\ Bounded
  <2>1. /\ DOMAIN spool' = Attempts
        /\ SpoolNext(a)' = SpoolNext(a) + 1
        /\ spool'[a] \in [0 .. SpoolNext(a) -> Bodies]
        /\ \A n \in DOMAIN spool[a] : n \in DOMAIN spool'[a] /\ spool'[a][n] = spool[a][n]
        /\ \A p \in Attempts : p # a => spool'[p] = spool[p] /\ SpoolNext(p)' = SpoolNext(p)
    BY <1>0, <1>2, AppendedSpool
  <2> HIDE DEF Grows
  <2>2. Grows
    <3>1. ASSUME NEW p \in Attempts
          PROVE  /\ SpoolNext(p)' \in 0 .. MaxSeq + 1
                 /\ spool'[p] \in [0 .. SpoolNext(p)' - 1 -> Bodies]
                 /\ SpoolNext(p)' >= SpoolNext(p)
                 /\ \A n \in DOMAIN spool[p] : n \in DOMAIN spool'[p] /\ spool'[p][n] = spool[p][n]
      <4>1. CASE p = a
        BY <1>0, <1>2, <2>1, <4>1
      <4>2. CASE p # a
        BY <1>0, <2>1, <4>2
      <4>3. QED
        BY <4>1, <4>2
    <3>2. QED
      BY <2>1, <3>1 DEF Grows
  <2>3. Bounded
    <3>1. ASSUME NEW p \in Attempts PROVE acked'[p] < SpoolNext(p)'
      <4>1. SpoolNext(p)' >= SpoolNext(p) /\ SpoolNext(p)' \in 0 .. MaxSeq + 1
        BY <2>2 DEF Grows
      <4>2. QED
        BY <1>0, <1>2, <4>1
    <3>2. QED
      BY <1>0, <1>2, <3>1
  <2>4. QED
    BY <2>2, <2>3
<1>3. CASE UNCHANGED <<spool, acked>>
  BY <1>0, <1>1, <1>3
<1>4. ASSUME NEW a \in Attempts, NEW through \in Int, UNCHANGED spool, through < SpoolNext(a), Drop(a, through)
      PROVE  Grows /\ Bounded
  <2>1. acked'[a] \in -1 .. MaxSeq /\ acked'[a] < SpoolNext(a)
    BY <1>0, <1>4 DEF Drop
  <2>2. acked' \in [Attempts -> -1 .. MaxSeq] /\ \A p \in Attempts : acked'[p] < SpoolNext(p)
    BY <1>0, <1>4, <2>1 DEF Drop
  <2>3. QED
    BY <1>1, <1>4, <2>2
<1>5. ASSUME NEW a \in Attempts, NEW kind \in {"run.started", "record"}, UNCHANGED acked,
             Append(a, kind, "none"), SpoolNext(a) < MaxSeq, Body(SpoolNext(a), kind, "none") \in Bodies
      PROVE  Grows /\ Bounded
  BY <1>0, <1>2, <1>5
<1> HIDE DEF Grows, Bounded
<1>6. Grows /\ Bounded
  BY <1>2, <1>3, <1>4, <1>5, WriteStep DEF Grows, Bounded
<1>7. QED
  BY <1>6 DEF Grows, Bounded

\* The place of a runner is kept.
LEMMA PlaceStep ==
  ASSUME DeliveryInv, JournalInv', [Next]_vars, DeliveryNext
  PROVE  Place'
<1>0. /\ JournalInv /\ StreamType /\ Place
      /\ runner \in [Attempts -> RunnerStates]
      /\ \A a \in Attempts : RunnerMove(a) /\ ContainerMove(a)
      /\ \A a \in Attempts : a > current => runner[a] = NoRunner /\ container[a] = "none"
      /\ \A a \in Attempts : RunnerPlace(runner[a], SpoolNext(a))
      /\ current \in Nat /\ current' \in {current, current + 1} /\ Attempts \subseteq Nat /\ MaxSeq \in Nat
  <2>1. JournalInv /\ StreamType /\ Place
    BY DEF DeliveryInv
  <2>2. \A a \in Attempts : RunnerMove(a) /\ ContainerMove(a)
    BY <2>1, RunnerMoves, ContainerMoves
  <2>3. current \in Nat /\ current' \in {current, current + 1} /\ MaxSeq \in Nat
    BY <2>1, CurrentStep, BoundsAssumption
  <2>4. QED
    BY <2>1, <2>2, <2>3, BoundsAssumption DEF StreamType, Place, Attempts
<1>1. ASSUME NEW a \in Attempts, a > current'
      PROVE  runner'[a] = NoRunner /\ container'[a] = "none"
  <2>1. a > current /\ ~Owns(a) /\ a # current' /\ a \notin 1 .. current
    BY <1>0, <1>1 DEF Owns
  <2>2. runner[a] = NoRunner /\ container[a] = "none"
    BY <1>0, <2>1
  <2>3. /\ NoRunner.phase = "none" /\ NoRunner.control = "off" /\ NoRunner.todo = {}
        /\ NoRunner.doing = NoId /\ NoRunner.outcome = "none"
    BY DEF NoRunner
  <2>4. runner'[a] = NoRunner
    <3>1. ~PhaseMove(a, runner[a], runner'[a])
      BY <2>1, <2>2, <2>3 DEF PhaseMove
    <3>2. ~RunMove(a, runner[a], runner'[a])
      BY <2>1, <2>2, <2>3 DEF RunMove, Streaming, Started
    <3>3. ~ControlMove(a, runner[a], runner'[a])
      BY <2>1, <2>2, <2>3 DEF ControlMove
    <3>4. QED
      BY <1>0, <2>2, <3>1, <3>2, <3>3 DEF RunnerMove
  <2>5. container'[a] = "none"
    BY <1>0, <2>1, <2>2, <2>3 DEF ContainerMove
  <2>6. QED
    BY <2>4, <2>5
<1>2. ASSUME NEW a \in Attempts PROVE RunnerPlace(runner'[a], SpoolNext(a)')
  <2> DEFINE s == runner[a]
             t == runner'[a]
             n == SpoolNext(a)
             m == SpoolNext(a)'
  <2>1. n \in Nat /\ m \in Nat /\ m >= n /\ m <= MaxSeq + 1 /\ RunnerPlace(s, n) /\ RunnerMove(a)
    BY <1>0, SpoolStep DEF StreamType
  <2>2. \/ m = n
        \/ m <= MaxSeq /\ m > 0
        \/ s.phase = "finalizing" /\ t.phase = "flushing"
    <3>1. CASE UNCHANGED <<spool, acked>> \/ \E p \in Attempts, through \in Int : UNCHANGED spool
      BY <3>1 DEF SpoolNext
    <3>2. ASSUME NEW p \in Attempts, NEW kind \in {"run.started", "record"}, Append(p, kind, "none"),
                 SpoolNext(p) < MaxSeq, Body(SpoolNext(p), kind, "none") \in Bodies
          PROVE  m = n \/ (m <= MaxSeq /\ m > 0)
      <4>1. SpoolNext(p) \in Nat
        BY <1>0 DEF StreamType
      <4>2. /\ SpoolNext(p)' = SpoolNext(p) + 1
            /\ \A q \in Attempts : q # p => SpoolNext(q)' = SpoolNext(q)
        BY <1>0, <3>2, <4>1, AppendedSpool
      <4>3. CASE p = a
        BY <1>0, <3>2, <4>1, <4>2, <4>3
      <4>4. CASE p # a
        BY <4>2, <4>4
      <4>5. QED
        BY <4>3, <4>4
    <3>3. ASSUME NEW p \in Attempts, NEW verdict, Append(p, "run.finished", verdict), SpoolNext(p) <= MaxSeq,
                 Body(SpoolNext(p), "run.finished", verdict) \in Bodies, runner[p].phase = "finalizing",
                 Move(p, "flushing")
          PROVE  m = n \/ (s.phase = "finalizing" /\ t.phase = "flushing")
      <4>1. CASE p = a
        BY <1>0, <3>3, <4>1, ChangedFields DEF Move, Passes, Looks
      <4>2. CASE p # a
        BY <1>0, <3>3, <4>2, AppendedSpool
      <4>3. QED
        BY <4>1, <4>2
    <3>4. QED
      BY <3>1, <3>2, <3>3, WriteStep
  <2>3. s.outcome = "none" /\ n = 0 /\ Append(a, "run.started", "none") => m > 0
    <3>1. ASSUME n = 0, Append(a, "run.started", "none") PROVE m > 0
      <4>1. Body(n, "run.started", "none") \in Bodies /\ n <= MaxSeq
        BY <1>0, <3>1, BodiesKnown
      <4>2. m = n + 1
        BY <1>0, <3>1, <4>1, AppendedSpool
      <4>3. QED
        BY <2>1, <4>2
    <3>2. QED
      BY <3>1
  <2>4. a = current + 1 => s.phase = "none"
    BY <1>0 DEF NoRunner
  <2>5. Streaming(a) => s.phase \in {"running", "expiring", "closing"}
    BY DEF Streaming, Started
  <2>6. RunnerPlace(t, m)
    <3> HIDE DEF n, m, s, t
    <3>1. ASSUME t = s PROVE RunnerPlace(t, m)
      BY <1>0, <2>1, <2>2, <3>1 DEF RunnerPlace
    <3>2. ASSUME PhaseMove(a, s, t) PROVE RunnerPlace(t, m)
      BY <1>0, <2>1, <2>2, <2>4, <3>2 DEF PhaseMove, Passes, Looks, RunnerPlace
    <3>3. ASSUME RunMove(a, s, t) PROVE RunnerPlace(t, m)
      BY <1>0, <2>1, <2>2, <2>3, <2>5, <3>3 DEF RunMove, Looks, RunnerPlace, Final, n
    <3>4. ASSUME ControlMove(a, s, t) PROVE RunnerPlace(t, m)
      BY <1>0, <2>1, <2>2, <3>4 DEF ControlMove, Looks, RunnerPlace
    <3>5. QED
      BY <2>1, <3>1, <3>2, <3>3, <3>4 DEF RunnerMove, s, t
  <2>7. QED
    BY <2>6
<1>3. \A r \in Recoverers : recovery'[r].pc # "idle" => recovery'[r].attempt \in 1 .. current'
  BY <1>0, RecoveryTyped
<1>4. QED
  BY <1>1, <1>2, <1>3 DEF Place

\* The types, the journal's own invariant and the places of records and jobs are
\* inductive together.
LEMMA DeliveryInvStep == DeliveryInv /\ [DeliveryNext]_allVars => DeliveryInv'
<1> SUFFICES ASSUME DeliveryInv, [DeliveryNext]_allVars PROVE DeliveryInv'
  OBVIOUS
<1>1. JournalInv /\ StreamType /\ Place
  BY DEF DeliveryInv
<1>2. [Next]_vars /\ JournalInv'
  BY <1>1, JournalStep, InvStep
<1>3. CASE DeliveryNext
  <2>1. runner' \in [Attempts -> RunnerStates]
    BY <1>1, <1>3, RunnerStep DEF StreamType
  <2>2. container' \in [Attempts -> Up \cup {"none", "down"}]
    BY <1>1, <1>3, ContainerStep DEF StreamType
  <2>3. ledger' \in [Commands -> Receipts \cup {"absent", "executing"}]
    BY <1>1, <1>3, LedgerStep DEF StreamType
  <2>4. /\ post' \in [Attempts -> Batches \cup {NoBatch}]
        /\ answer' \in [Attempts -> Answers]
        /\ \A a \in Attempts : answer'[a] # NoAnswer => post'[a] # NoBatch
        /\ wire' \subseteq [attempt : Attempts, batch : Batches]
    BY <1>1, <1>2, <1>3, NetStep DEF JournalInv
  <2>5. recovery' \in [Recoverers -> Recoveries]
    BY <1>1, <1>2, <1>3, RecoveryTyped
  <2>6. StreamType'
    BY <1>3, <2>1, <2>2, <2>3, <2>4, <2>5, SpoolStep DEF StreamType
  <2>7. Place'
    BY <1>2, <1>3, PlaceStep
  <2>8. QED
    BY <1>2, <2>6, <2>7 DEF DeliveryInv
<1>4. CASE UNCHANGED allVars
  BY <1>1, <1>2, <1>4 DEF DeliveryInv, StreamType, Place, allVars, runnerVars, vars, disk, net, SpoolNext
<1>5. QED
  BY <1>3, <1>4

\* They hold in every reachable state.
LEMMA DeliveryInvariant == DeliverySpec => []DeliveryInv
<1>1. DeliveryInit => DeliveryInv
  <2> SUFFICES ASSUME DeliveryInit PROVE DeliveryInv
    OBVIOUS
  <2>1. JournalInv
    BY BoundsAssumption DEF DeliveryInit, Init, JournalInv, TypeOK, SingleActiveAttempt, VerdictIsJournalled,
       CommandsEndWithAttempt, ArchivePinsAttempt, TaskShowsCurrent, Attempts, NoCommand, Active, Final
  <2>2. NoRunner \in RunnerStates /\ NoRunner.phase = "none" /\ NoRunner.outcome = "none"
    BY DEF NoRunner, RunnerStates
  <2>3. \A a \in Attempts : SpoolNext(a) = 0
    <3>1. ASSUME NEW a \in Attempts PROVE SpoolNext(a) = 0
      <4>1. DOMAIN spool[a] = {}
        BY DEF DeliveryInit
      <4>2. QED
        BY <4>1, FS_EmptySet DEF SpoolNext
    <3>2. QED
      BY <3>1
  <2>4. StreamType
    BY <2>2, <2>3, BoundsAssumption DEF DeliveryInit, StreamType, Recoveries, NoRecovery, Answers, NoAnswer,
       Recoverers
  <2>5. Place
    BY <2>2, <2>3, BoundsAssumption DEF DeliveryInit, Place, RunnerPlace, NoRecovery
  <2>6. QED
    BY <2>1, <2>4, <2>5 DEF DeliveryInv
<1>2. QED
  BY <1>1, DeliveryInvStep, PTL DEF DeliverySpec

\* The runner, the spool, the network and the reconciler use the journal as its
\* specification allows: what is proved of the journal holds of the whole system.
THEOREM DeliveryImplementsJournal == DeliverySpec => Spec
<1>1. DeliveryInit => Init
  BY DEF DeliveryInit
<1>2. DeliveryInv /\ [DeliveryNext]_allVars => [Next]_vars
  BY JournalStep DEF DeliveryInv
<1>3. QED
  BY <1>1, <1>2, DeliveryInvariant, PTL DEF DeliverySpec, Spec

\* Every variable of the runner, the spool, the network and the recoveries keeps
\* its type, and nothing is acknowledged that is not in the spool.
THEOREM DeliveryTypeCorrect == DeliverySpec => []DeliveryTypeOK
<1>1. DeliveryInv => DeliveryTypeOK
  BY BatchShape, BoundsAssumption DEF DeliveryInv, StreamType, DeliveryTypeOK, Recoveries
<1>2. QED
  BY <1>1, DeliveryInvariant, PTL
-----------------------------------------------------------------------------
(* The journal is a prefix of the spool                                    *)

\* A batch that repeats what the spool holds.
FromSpool(a, b) ==
  b.last < SpoolNext(a) /\ \A n \in b.first .. b.last : b.body[n] = spool[a][n]

\* Requests on the wire repeat the spool, however old they are, and every receipt
\* on its way to a spool is for records the server has.
Flow ==
  /\ \A a \in Attempts :
       /\ nextSeq[a] <= SpoolNext(a) /\ acked[a] < nextSeq[a]
       /\ \A n \in 0 .. nextSeq[a] - 1 : rows[a][n] = spool[a][n]
       /\ answer[a].kind = "receipt" => answer[a].through < nextSeq[a]
  /\ \A m \in wire : FromSpool(m.attempt, m.batch)
  /\ \A r \in Recoverers :
       recovery[r].pc = "drop" => recovery[r].through < nextSeq[recovery[r].attempt]

\* Only records of the spool reach the journal.
LEMMA RowsStep ==
  ASSUME DeliveryInv, Flow, DeliveryNext
  PROVE  \/ UNCHANGED <<nextSeq, rows>>
         \/ \E a \in Attempts, b \in Batches : IngestEvents(a, b) /\ FromSpool(a, b)
<1> DEFINE Written == \/ UNCHANGED <<nextSeq, rows>>
                      \/ \E a \in Attempts, b \in Batches : IngestEvents(a, b) /\ FromSpool(a, b)
<1>0. StreamType
  BY DEF DeliveryInv
<1>1. ASSUME NEW m \in wire, NEW again \in BOOLEAN, HandleEvents(m, again) PROVE Written
  BY <1>0, <1>1 DEF HandleEvents, StreamType, Flow, vars
<1>2. ASSUME NEW r \in Recoverers, ReplayBatch(r) PROVE Written
  <2> DEFINE a == recovery[r].attempt
  <2>1. Unacked(a) # {} /\ (UNCHANGED vars \/ IngestEvents(a, Batch(a)))
    BY <1>2 DEF ReplayBatch
  <2>2. CASE IngestEvents(a, Batch(a))
    <3>1. a \in Attempts
      BY <2>2 DEF IngestEvents, Accepts, Owns
    <3>2. Batch(a) \in Batches /\ FromSpool(a, Batch(a))
      BY <1>0, <2>1, <3>1, BatchIsRun DEF FromSpool
    <3>3. QED
      BY <2>2, <3>1, <3>2
  <2>3. QED
    BY <2>1, <2>2 DEF vars
<1>3. ASSUME NEW r \in Recoverers, RecoveryStep(r) PROVE Written
  BY <1>2, <1>3 DEF RecoveryStep, DropBatch, ReplayReceipt, AcknowledgeCommand, DropReceipt, ReplayDone,
     ReplayFails, FinishRecovery, FinishInterrupted, vars
<1>4. ASSUME NEW a \in Attempts, Launch(a) \/ SpawnStep(a) \/ StartupStep(a) \/ MainStep(a) PROVE Written
  BY <1>4 DEF Launch, CreateAttempt, SpawnStep, SpawnSucceeds, SpawnFails, FinishInterrupted, StartupStep,
     FirstHeartbeat, FirstHeartbeatLost, FirstHeartbeatRejected, Heartbeat, Prepare, PrepareConfiguration,
     Start, StartupFails, MainStep, ConnectorRecord, ConnectorFinishes, ConsumerDone, RunFails, Deadline,
     GraceEnds, CloseConnector, EmitArtifact, JournalVerdict, LeaveRun, vars
<1>5. ASSUME NEW a \in Attempts, DeliveryStep(a) \/ ControlStep(a) \/ JobRecovers(a) \/ ReconcileStep(a)
             \/ SweepContainer(a) \/ \E left \in BOOLEAN : Crash(a, left)
      PROVE  Written
  BY <1>5 DEF DeliveryStep, SendBatch, GiveUp, TakeAnswer, ControlStep, SendReceipt, Poll, Heartbeat,
     AcknowledgeCommand, ControlRejected, UseFirstHeartbeat, BeginCommand, SendControl, FinishCommand,
     ListDone, JobRecovers, ReconcileStep, Reconcile, SweepContainer, Crash, vars
<1>6. Written
  BY <1>1, <1>3, <1>4, <1>5 DEF DeliveryNext, Environment, QueueCommand, HeartbeatAges, ArchiveResults,
     ReconcilerCrash, vars
<1>7. QED
  BY <1>6

\* A spool forgets only what a receipt names.
LEMMA AckedStep ==
  ASSUME DeliveryInv, Flow, DeliveryNext, NEW p \in Attempts
  PROVE  acked'[p] = acked[p] \/ acked'[p] < nextSeq[p]
<1> DEFINE Named == acked'[p] = acked[p] \/ acked'[p] < nextSeq[p]
<1>0. /\ acked \in [Attempts -> -1 .. MaxSeq] /\ recovery \in [Recoverers -> Recoveries]
      /\ answer \in [Attempts -> Answers]
  BY DEF DeliveryInv, StreamType
<1>1. ASSUME UNCHANGED acked PROVE Named
  BY <1>1
<1>2. ASSUME NEW a \in Attempts, NEW through, Drop(a, through), through < nextSeq[a] PROVE Named
  BY <1>0, <1>2 DEF Drop
<1>3. ASSUME NEW a \in Attempts, DeliveryStep(a) PROVE Named
  <2>1. CASE TakeAnswer(a)
    <3>1. CASE ReceiptFits(a)
      BY <1>2, <2>1, <3>1 DEF TakeAnswer, ReceiptFits, Flow
    <3>2. CASE ~ReceiptFits(a)
      BY <1>1, <2>1, <3>2 DEF TakeAnswer
    <3>3. QED
      BY <3>1, <3>2
  <2>2. QED
    BY <1>1, <1>3, <2>1 DEF DeliveryStep, SendBatch, GiveUp, disk
<1>4. ASSUME NEW r \in Recoverers, RecoveryStep(r) PROVE Named
  <2>1. CASE DropBatch(r)
    <3>1. CASE recovery[r].through < SpoolNext(recovery[r].attempt)
      <4>1. recovery[r].attempt \in Attempts
        BY <2>1, BoundsAssumption DEF DropBatch, At, DeliveryInv, Place, JournalInv, TypeOK, Attempts
      <4>2. QED
        BY <1>2, <2>1, <3>1, <4>1 DEF DropBatch, At, Flow
    <3>2. CASE ~(recovery[r].through < SpoolNext(recovery[r].attempt))
      BY <1>1, <2>1, <3>2 DEF DropBatch
    <3>3. QED
      BY <3>1, <3>2
  <2>2. QED
    BY <1>1, <1>4, <2>1 DEF RecoveryStep, ReplayBatch, ReplayReceipt, DropReceipt, ReplayDone,
       ReplayFails, FinishRecovery, disk
<1>5. ASSUME NEW a \in Attempts, Launch(a) \/ SpawnStep(a) \/ StartupStep(a) \/ MainStep(a) PROVE Named
  BY <1>1, <1>5 DEF Launch, SpawnStep, SpawnSucceeds, SpawnFails, StartupStep, FirstHeartbeat,
     FirstHeartbeatLost, FirstHeartbeatRejected, Prepare, Start, StartupFails, MainStep, ConnectorRecord,
     ConnectorFinishes, ConsumerDone, RunFails, Deadline, GraceEnds, CloseConnector, EmitArtifact,
     JournalVerdict, LeaveRun, disk
<1>6. ASSUME NEW a \in Attempts, ControlStep(a) \/ JobRecovers(a) \/ ReconcileStep(a)
             \/ SweepContainer(a) \/ \E left \in BOOLEAN : Crash(a, left)
      PROVE  Named
  BY <1>1, <1>6 DEF ControlStep, SendReceipt, Poll, ControlRejected, UseFirstHeartbeat, BeginCommand,
     SendControl, FinishCommand, ListDone, JobRecovers, ReconcileStep, Reconcile, SweepContainer, Crash, disk
<1>7. Named
  BY <1>1, <1>3, <1>4, <1>5, <1>6 DEF DeliveryNext, Environment, runnerVars, HandleEvents, ReconcilerCrash, disk
<1>8. QED
  BY <1>7

\* A receipt that sets out names the last record the server has, and a request
\* carries the oldest pending records.
LEMMA MessageStep ==
  ASSUME DeliveryInv, DeliveryNext
  PROVE  /\ \A p \in Attempts : answer'[p].kind = "receipt" =>
              answer'[p] = answer[p] \/ answer'[p].through = nextSeq'[p] - 1
         /\ \A r \in Recoverers : recovery'[r].pc = "drop" =>
              \/ recovery'[r] = recovery[r]
              \/ recovery'[r].through = nextSeq'[recovery'[r].attempt] - 1
         /\ \A m \in wire' : \/ m \in wire
                             \/ \E a \in Attempts : /\ m = [attempt |-> a, batch |-> Batch(a)]
                                                    /\ Unacked(a) # {} /\ spool' = spool
<1> DEFINE Answered == \A p \in Attempts : answer'[p].kind = "receipt" =>
                         answer'[p] = answer[p] \/ answer'[p].through = nextSeq'[p] - 1
           Dropped == \A r \in Recoverers : recovery'[r].pc = "drop" =>
                        \/ recovery'[r] = recovery[r]
                        \/ recovery'[r].through = nextSeq'[recovery'[r].attempt] - 1
           Sent == \A m \in wire' : \/ m \in wire
                                    \/ \E a \in Attempts : /\ m = [attempt |-> a, batch |-> Batch(a)]
                                                           /\ Unacked(a) # {} /\ spool' = spool
<1>0. /\ answer \in [Attempts -> Answers] /\ recovery \in [Recoverers -> Recoveries]
      /\ NoAnswer.kind = "none" /\ NoRecovery.pc = "idle"
      /\ \A m \in wire : m.attempt \in Attempts
  BY DEF DeliveryInv, StreamType, NoAnswer, NoRecovery
<1>1. ASSUME UNCHANGED answer PROVE Answered
  BY <1>1
<1>2. ASSUME NEW a \in Attempts, answer' = [answer EXCEPT ![a] = NoAnswer] PROVE Answered
  BY <1>0, <1>2
<1>3. ASSUME UNCHANGED recovery PROVE Dropped
  BY <1>3
<1>4. ASSUME NEW r \in Recoverers, NEW s, recovery' = [recovery EXCEPT ![r] = s], s.pc # "drop" PROVE Dropped
  BY <1>0, <1>4
<1>5. ASSUME wire' \subseteq wire PROVE Sent
  BY <1>5
<1>6. ASSUME NEW a \in Attempts, DeliveryStep(a) PROVE Answered /\ Dropped /\ Sent
  <2>1. CASE SendBatch(a)
    <3>1. Sent
      BY <2>1 DEF SendBatch, disk
    <3>2. QED
      BY <1>1, <1>3, <2>1, <3>1 DEF SendBatch
  <2>2. CASE TakeAnswer(a) \/ \E lost \in BOOLEAN : GiveUp(a, lost)
    BY <1>2, <1>3, <1>5, <2>2 DEF TakeAnswer, GiveUp
  <2>3. QED
    BY <1>6, <2>1, <2>2 DEF DeliveryStep
<1>7. ASSUME NEW m \in wire, NEW again \in BOOLEAN, HandleEvents(m, again) PROVE Answered /\ Dropped /\ Sent
  <2>1. Dropped /\ Sent
    BY <1>3, <1>5, <1>7 DEF HandleEvents
  <2>2. Answered
    <3>1. CASE Accepts(m.attempt, m.batch)
      <4>1. answer' = IF post[m.attempt] # m.batch THEN answer
                      ELSE [answer EXCEPT ![m.attempt] = [kind |-> "receipt",
                                                          through |-> nextSeq'[m.attempt] - 1]]
        BY <1>7, <3>1, Zenon DEF HandleEvents
      <4>2. QED
        BY <1>0, <4>1
    <3>2. CASE ~Accepts(m.attempt, m.batch)
      <4>1. answer' = IF post[m.attempt] # m.batch THEN answer
                      ELSE [answer EXCEPT ![m.attempt] = [kind |-> "rejected", through |-> -1]]
        BY <1>7, <3>2, Zenon DEF HandleEvents
      <4>2. QED
        BY <1>0, <4>1
    <3>3. QED
      BY <3>1, <3>2
  <2>3. QED
    BY <2>1, <2>2
<1>8. ASSUME NEW r \in Recoverers, RecoveryStep(r) PROVE Answered /\ Dropped /\ Sent
  <2>1. Answered /\ Sent
    BY <1>1, <1>5, <1>8 DEF RecoveryStep, ReplayBatch, DropBatch, ReplayReceipt, DropReceipt, ReplayDone,
       ReplayFails, FinishRecovery, net
  <2>2. recovery[r] \in Recoveries
    BY <1>0
  <2>3. ASSUME NEW pc \in {"replay", "finish"}, GoTo(r, pc) PROVE Dropped
    <3>1. [recovery[r] EXCEPT !.pc = pc].pc # "drop" /\ recovery' = [recovery EXCEPT ![r] = [recovery[r] EXCEPT !.pc = pc]]
      BY <1>0, <2>2, <2>3 DEF GoTo, Recoveries
    <3>2. QED
      BY <1>4, <3>1
  <2>4. ASSUME ReplayBatch(r) PROVE Dropped
    <3>1. CASE Accepts(recovery[r].attempt, Batch(recovery[r].attempt))
      <4> DEFINE through == nextSeq'[recovery[r].attempt] - 1
                 s == [recovery[r] EXCEPT !.pc = "drop", !.through = through]
      <4>1. recovery' = [recovery EXCEPT ![r] = s]
        BY <1>0, <2>2, <2>4, <3>1 DEF ReplayBatch, Recoveries
      <4>2. s.through = through /\ s.attempt = recovery[r].attempt
        BY <2>2 DEF Recoveries
      <4> HIDE DEF s
      <4>3. QED
        BY <1>0, <4>1, <4>2
    <3>2. CASE ~Accepts(recovery[r].attempt, Batch(recovery[r].attempt))
      BY <2>3, <2>4, <3>2 DEF ReplayBatch
    <3>3. QED
      BY <3>1, <3>2
  <2>5. ASSUME NEW c \in Commands, ReplayReceipt(r, c) PROVE Dropped
    <3>1. CASE AckAccepts(recovery[r].attempt, c, ledger[c])
      <4>1. [recovery[r] EXCEPT !.pc = "forget", !.cmd = c].pc # "drop"
            /\ recovery' = [recovery EXCEPT ![r] = [recovery[r] EXCEPT !.pc = "forget", !.cmd = c]]
        BY <1>0, <2>2, <2>5, <3>1 DEF ReplayReceipt, Recoveries
      <4>2. QED
        BY <1>4, <4>1
    <3>2. CASE ~AckAccepts(recovery[r].attempt, c, ledger[c])
      BY <2>3, <2>5, <3>2 DEF ReplayReceipt
    <3>3. QED
      BY <3>1, <3>2
  <2>6. ASSUME DropReceipt(r) PROVE Dropped
    <3>1. [recovery[r] EXCEPT !.pc = "replay", !.cmd = NoId].pc # "drop"
          /\ recovery' = [recovery EXCEPT ![r] = [recovery[r] EXCEPT !.pc = "replay", !.cmd = NoId]]
      BY <1>0, <2>2, <2>6 DEF DropReceipt, Recoveries
    <3>2. QED
      BY <1>4, <3>1
  <2>7. ASSUME DropBatch(r) \/ ReplayDone(r) \/ ReplayFails(r) PROVE Dropped
    BY <2>3, <2>7 DEF DropBatch, ReplayDone, ReplayFails
  <2>8. ASSUME NEW valid \in BOOLEAN, NEW stopped \in BOOLEAN, FinishRecovery(r, valid, stopped) PROVE Dropped
    BY <1>0, <1>4, <2>8 DEF FinishRecovery
  <2>9. QED
    BY <1>8, <2>1, <2>4, <2>5, <2>6, <2>7, <2>8 DEF RecoveryStep
<1>9. ASSUME NEW a \in Attempts, Launch(a) \/ SpawnStep(a) \/ StartupStep(a) \/ MainStep(a)
      PROVE  Answered /\ Dropped /\ Sent
  BY <1>1, <1>2, <1>3, <1>5, <1>9 DEF Launch, SpawnStep, SpawnSucceeds, SpawnFails, StartupStep,
     FirstHeartbeat, FirstHeartbeatLost, FirstHeartbeatRejected, Prepare, Start, StartupFails, MainStep,
     ConnectorRecord, ConnectorFinishes, ConsumerDone, RunFails, Deadline, GraceEnds, CloseConnector,
     EmitArtifact, JournalVerdict, LeaveRun, net
<1>10. ASSUME NEW a \in Attempts, ControlStep(a) \/ SweepContainer(a) PROVE Answered /\ Dropped /\ Sent
  BY <1>1, <1>3, <1>5, <1>10 DEF ControlStep, SendReceipt, Poll, ControlRejected, UseFirstHeartbeat,
     BeginCommand, SendControl, FinishCommand, ListDone, SweepContainer, net
<1>11. ASSUME NEW a \in Attempts, JobRecovers(a) \/ ReconcileStep(a) PROVE Answered /\ Dropped /\ Sent
  <2>1. PICK r \in Recoverers, pc \in {"replay", "finish"} :
          recovery' = [recovery EXCEPT ![r] = [NoRecovery EXCEPT !.pc = pc, !.attempt = a]]
    <3>1. 0 \in Recoverers /\ a \in Recoverers
      BY BoundsAssumption DEF Recoverers, Attempts
    <3>2. CASE Owns(a)
      BY <1>11, <3>1, <3>2 DEF JobRecovers, ReconcileStep, Reconcile
    <3>3. CASE ~Owns(a)
      BY <1>11, <3>1, <3>3 DEF JobRecovers, ReconcileStep, Reconcile
    <3>4. QED
      BY <3>2, <3>3
  <2>2. [NoRecovery EXCEPT !.pc = pc, !.attempt = a].pc # "drop"
    BY DEF NoRecovery
  <2>3. QED
    BY <1>1, <1>4, <1>5, <1>11, <2>1, <2>2 DEF JobRecovers, ReconcileStep, Reconcile, net
<1>12. ASSUME NEW a \in Attempts, NEW left \in BOOLEAN, Crash(a, left) PROVE Answered /\ Dropped /\ Sent
  <2>1. a \in Recoverers
    BY BoundsAssumption DEF Recoverers, Attempts
  <2>2. QED
    BY <1>0, <1>2, <1>4, <1>5, <1>12, <2>1 DEF Crash
<1>13. ASSUME ReconcilerCrash PROVE Answered /\ Dropped /\ Sent
  <2>1. 0 \in Recoverers
    BY BoundsAssumption DEF Recoverers
  <2>2. QED
    BY <1>0, <1>1, <1>4, <1>5, <1>13, <2>1 DEF ReconcilerCrash, net
<1> HIDE DEF Answered, Dropped, Sent
<1>14. Answered /\ Dropped /\ Sent
  <2>1. CASE Environment
    BY <1>1, <1>3, <1>5, <2>1 DEF Environment, runnerVars, net
  <2>2. QED
    BY <1>6, <1>7, <1>8, <1>9, <1>10, <1>11, <1>12, <1>13, <2>1 DEF DeliveryNext
<1>15. QED
  BY <1>14 DEF Answered, Dropped, Sent

\* A journal keeps its rows and grows from the spool only.
LEMMA PrefixStep ==
  ASSUME DeliveryInv, Flow, DeliveryNext, TypeOK', NEW p \in Attempts
  PROVE  /\ nextSeq'[p] >= nextSeq[p] /\ nextSeq'[p] <= SpoolNext(p)'
         /\ \A n \in 0 .. nextSeq'[p] - 1 : rows'[p][n] = spool'[p][n]
<1>0. /\ TypeOK /\ StreamType
      /\ nextSeq[p] \in 0 .. MaxSeq + 1 /\ nextSeq'[p] \in 0 .. MaxSeq + 1 /\ MaxSeq \in Nat
      /\ SpoolNext(p) \in 0 .. MaxSeq + 1 /\ SpoolNext(p)' \in 0 .. MaxSeq + 1
      /\ spool[p] \in [0 .. SpoolNext(p) - 1 -> Bodies]
      /\ nextSeq[p] <= SpoolNext(p)
      /\ \A n \in 0 .. nextSeq[p] - 1 : rows[p][n] = spool[p][n]
  BY SpoolStep, BoundsAssumption DEF DeliveryInv, JournalInv, TypeOK, StreamType, Flow
<1>1. SpoolNext(p)' >= SpoolNext(p) /\ \A n \in 0 .. SpoolNext(p) - 1 : spool'[p][n] = spool[p][n]
  BY <1>0, SpoolStep
<1>2. CASE nextSeq'[p] = nextSeq[p] /\ rows'[p] = rows[p]
  BY <1>0, <1>1, <1>2
<1>3. ASSUME NEW a \in Attempts, NEW b \in Batches, IngestEvents(a, b), FromSpool(a, b)
      PROVE  (nextSeq'[p] = nextSeq[p] /\ rows'[p] = rows[p]) \/ p = a
  BY <1>0, <1>3 DEF IngestEvents, TypeOK
<1>4. ASSUME NEW b \in Batches, IngestEvents(p, b), FromSpool(p, b)
      PROVE  /\ nextSeq'[p] >= nextSeq[p] /\ nextSeq'[p] <= SpoolNext(p)'
             /\ \A n \in 0 .. nextSeq'[p] - 1 : rows'[p][n] = spool'[p][n]
  <2>1. /\ b.first \in Nat /\ b.last \in Nat /\ nextSeq[p] <= b.last /\ b.last < SpoolNext(p)
        /\ b.first <= nextSeq[p]
    BY <1>0, <1>4, BatchShape DEF IngestEvents, IsNew, FromSpool, Accepts, NewRecordsFit
  <2>2. nextSeq'[p] = b.last + 1 /\ rows'[p] = Extended(p, b)
    BY <1>0, <1>4 DEF IngestEvents, TypeOK
  <2>3. /\ \A n \in 0 .. nextSeq[p] - 1 : Extended(p, b)[n] = rows[p][n]
        /\ \A n \in nextSeq[p] .. b.last : Extended(p, b)[n] = b.body[n]
    BY <1>0, <1>4, ExtendedJournal DEF IngestEvents
  <2>4. \A n \in b.first .. b.last : b.body[n] = spool[p][n]
    BY <1>4 DEF FromSpool
  <2>5. ASSUME NEW n \in 0 .. b.last PROVE rows'[p][n] = spool'[p][n]
    <3>1. CASE n < nextSeq[p]
      <4>1. n \in 0 .. nextSeq[p] - 1 /\ n \in 0 .. SpoolNext(p) - 1
        BY <1>0, <2>1, <2>5, <3>1
      <4>2. rows'[p][n] = rows[p][n] /\ rows[p][n] = spool[p][n] /\ spool'[p][n] = spool[p][n]
        BY <1>0, <1>1, <2>2, <2>3, <4>1
      <4>3. QED
        BY <4>2
    <3>2. CASE n >= nextSeq[p]
      BY <1>0, <1>1, <2>1, <2>2, <2>3, <2>4, <2>5, <3>2
    <3>3. QED
      BY <1>0, <2>5, <3>1, <3>2
  <2>6. QED
    BY <1>0, <1>1, <2>1, <2>2, <2>5
<1>5. QED
  BY <1>2, <1>3, <1>4, RowsStep

\* Journal, wire, answers and acked_through agree with the spool after every step.
LEMMA FlowStep == DeliveryInv /\ DeliveryInv' /\ Flow /\ [DeliveryNext]_allVars => Flow'
<1> SUFFICES ASSUME DeliveryInv, DeliveryInv', Flow, [DeliveryNext]_allVars PROVE Flow'
  OBVIOUS
<1>1. CASE DeliveryNext
  <2>0. /\ TypeOK /\ TypeOK' /\ StreamType /\ Place'
        /\ \A p \in Attempts : nextSeq[p] \in Int /\ nextSeq'[p] \in Int
        /\ \A p \in Attempts : acked[p] \in Int /\ acked'[p] \in Int
    <3>1. TypeOK /\ TypeOK' /\ StreamType /\ StreamType' /\ Place'
      BY DEF DeliveryInv, JournalInv
    <3>2. \A p \in Attempts : nextSeq[p] \in Int /\ nextSeq'[p] \in Int
      BY <3>1 DEF TypeOK
    <3>3. \A p \in Attempts : acked[p] \in Int /\ acked'[p] \in Int
      BY <3>1 DEF StreamType
    <3>4. QED
      BY <3>1, <3>2, <3>3
  <2>1. \A p \in Attempts :
          /\ nextSeq'[p] >= nextSeq[p] /\ nextSeq'[p] <= SpoolNext(p)'
          /\ \A n \in 0 .. nextSeq'[p] - 1 : rows'[p][n] = spool'[p][n]
    BY <1>1, <2>0, PrefixStep
  <2>2. ASSUME NEW p \in Attempts PROVE acked'[p] < nextSeq'[p]
    BY <1>1, <2>0, <2>1, AckedStep DEF Flow
  <2>3. ASSUME NEW p \in Attempts, answer'[p].kind = "receipt" PROVE answer'[p].through < nextSeq'[p]
    <3>1. answer'[p] = answer[p] \/ answer'[p].through = nextSeq'[p] - 1
      BY <1>1, <2>3, MessageStep
    <3>2. answer[p].through \in Int
      <4>1. answer[p] \in Answers
        BY <2>0 DEF StreamType
      <4>2. QED
        BY <4>1 DEF Answers
    <3>3. QED
      BY <2>0, <2>1, <2>3, <3>1, <3>2 DEF Flow
  <2>4. ASSUME NEW m \in wire' PROVE FromSpool(m.attempt, m.batch)'
    <3>1. /\ m.attempt \in Attempts /\ m.batch \in Batches
          /\ FromSpool(m.attempt, m.batch)
      <4>1. CASE m \in wire
        BY <2>0, <4>1 DEF StreamType, Flow
      <4>2. CASE m \notin wire
        BY <1>1, <2>0, <2>4, <4>2, MessageStep, BatchIsRun DEF FromSpool
      <4>3. QED
        BY <4>1, <4>2
    <3>2. m.batch.first \in Nat /\ m.batch.last \in Nat
      BY <3>1, BatchShape
    <3>3. /\ SpoolNext(m.attempt) \in Nat /\ SpoolNext(m.attempt)' \in Nat
          /\ SpoolNext(m.attempt)' >= SpoolNext(m.attempt)
          /\ \A n \in 0 .. SpoolNext(m.attempt) - 1 : spool'[m.attempt][n] = spool[m.attempt][n]
      BY <1>1, <2>0, <3>1, SpoolStep, BoundsAssumption DEF StreamType
    <3>4. QED
      BY <3>1, <3>2, <3>3 DEF FromSpool
  <2>5. ASSUME NEW r \in Recoverers, recovery'[r].pc = "drop"
        PROVE  recovery'[r].through < nextSeq'[recovery'[r].attempt]
    <3>1. \/ recovery'[r] = recovery[r]
          \/ recovery'[r].through = nextSeq'[recovery'[r].attempt] - 1
      BY <1>1, <2>5, MessageStep
    <3>2. recovery'[r].attempt \in Attempts
      BY <2>0, <2>5, BoundsAssumption DEF Place, TypeOK, Attempts
    <3>3. recovery[r].through \in Int
      <4>1. recovery[r] \in Recoveries
        BY <2>0 DEF StreamType
      <4>2. QED
        BY <4>1 DEF Recoveries
    <3>4. QED
      BY <2>0, <2>1, <2>5, <3>1, <3>2, <3>3 DEF Flow
  <2>6. QED
    BY <2>1, <2>2, <2>3, <2>4, <2>5 DEF Flow
<1>2. CASE UNCHANGED allVars
  BY <1>2 DEF Flow, FromSpool, SpoolNext, allVars, runnerVars, vars, disk, net
<1>3. QED
  BY <1>1, <1>2

\* What the server stores is a prefix of what the runner committed, and nothing
\* leaves the spool before that: batches lost, repeated, delayed, sent by two
\* processes at once or replayed by a recovery all respect it.
THEOREM JournalIsSpoolPrefix == DeliverySpec => []JournalMatchesSpool
<1>1. DeliveryInit /\ DeliveryInv => Flow
  <2> SUFFICES ASSUME DeliveryInit, DeliveryInv PROVE Flow
    OBVIOUS
  <2>1. NoAnswer.kind = "none" /\ NoRecovery.pc = "idle"
    BY DEF NoAnswer, NoRecovery
  <2>2. \A a \in Attempts : SpoolNext(a) \in Nat
    BY BoundsAssumption DEF DeliveryInv, StreamType
  <2>3. QED
    BY <2>1, <2>2 DEF DeliveryInit, Init, Flow
<1>2. DeliveryInv /\ Flow => JournalMatchesSpool
  <2> SUFFICES ASSUME DeliveryInv, Flow, NEW a \in Attempts
               PROVE  /\ DOMAIN rows[a] \subseteq DOMAIN spool[a]
                      /\ \A n \in DOMAIN rows[a] : rows[a][n] = spool[a][n]
                      /\ acked[a] < nextSeq[a]
    BY DEF JournalMatchesSpool
  <2>1. /\ DOMAIN rows[a] = 0 .. nextSeq[a] - 1 /\ DOMAIN spool[a] = 0 .. SpoolNext(a) - 1
        /\ nextSeq[a] \in Nat /\ SpoolNext(a) \in Nat
    BY BoundsAssumption DEF DeliveryInv, JournalInv, TypeOK, StreamType
  <2>2. QED
    BY <2>1 DEF Flow
<1>3. QED
  BY <1>1, <1>2, FlowStep, DeliveryInvariant, PTL DEF DeliverySpec
-----------------------------------------------------------------------------
(* Success is earned                                                       *)

Succeeds(a) == \E n \in DOMAIN spool[a] : spool[a][n].status = "success"

\* How an undisturbed run gets to its verdict: the settings are saved before the
\* start, no verdict is written before the run has been finalized, and then the
\* control task has ended and cannot cancel it any more.
EarnedAt(a) ==
  LET s == runner[a] IN
  /\ s.phase \in {"closing", "finalizing", "flushing"} => s.control = "off"
  /\ s.phase \notin {"flushing", "leaving", "gone"} =>
       \A n \in DOMAIN spool[a] : spool[a][n].status = "none"
  /\ \/ s.phase \in {"prepared", "running", "expiring"}
     \/ s.phase \in {"closing", "finalizing"} /\ s.failure = "none"
     \/ Succeeds(a)
     => config[a] # NoConfig
  /\ s.phase = "flushing" /\ Succeeds(a) =>
       s.outcome = "success" /\ s.failure = "none" /\ ~s.cancelled

Earned == \A a \in Attempts : EarnedAt(a)

\* Saved settings stay saved.
LEMMA ConfigStays ==
  ASSUME JournalInv, [Next]_vars, NEW p \in Attempts, config[p] # NoConfig
  PROVE  config'[p] # NoConfig
<1>1. UNCHANGED config \/ \E a \in Attempts, cfg \in Configs : PrepareConfiguration(a, cfg)
  BY DEF Next, vars, CreateAttempt, QueueCommand, Heartbeat, AcknowledgeCommand, IngestEvents,
     FinishInterrupted, HeartbeatAges, ArchiveResults, RetentionPrunes
<1>2. QED
  BY <1>1, NamesAssumption DEF PrepareConfiguration, JournalInv, TypeOK

\* A verdict is written by a runner that finalizes, once, and it is the run's own
\* or a failure.
LEMMA StatusStep ==
  ASSUME DeliveryInv, DeliveryNext, NEW p \in Attempts, NEW n \in DOMAIN spool'[p]
  PROVE  \/ n \in DOMAIN spool[p] /\ spool'[p][n] = spool[p][n]
         \/ spool'[p][n].status = "none" /\ runner[p].phase \in {"running", "expiring", "closing", "finalizing"}
         \/ /\ spool'[p][n].status \in {Verdict(p), "failed"}
            /\ runner[p].phase = "finalizing" /\ Passes(runner[p], runner'[p], "flushing")
<1> DEFINE Known == \/ n \in DOMAIN spool[p] /\ spool'[p][n] = spool[p][n]
                    \/ /\ spool'[p][n].status = "none"
                       /\ runner[p].phase \in {"running", "expiring", "closing", "finalizing"}
                    \/ /\ spool'[p][n].status \in {Verdict(p), "failed"}
                       /\ runner[p].phase = "finalizing" /\ Passes(runner[p], runner'[p], "flushing")
<1>0. /\ StreamType /\ runner \in [Attempts -> RunnerStates]
      /\ \A a \in Attempts : SpoolNext(a) \in 0 .. MaxSeq + 1 /\ DOMAIN spool[a] = 0 .. SpoolNext(a) - 1
      /\ MaxSeq \in Nat
  BY BoundsAssumption DEF DeliveryInv, StreamType
<1>1. CASE UNCHANGED spool
  BY <1>1
<1>2. ASSUME NEW a \in Attempts, NEW kind, NEW verdict, Append(a, kind, verdict),
             SpoolNext(a) <= MaxSeq, Body(SpoolNext(a), kind, verdict) \in Bodies
      PROVE  Known \/ (p = a /\ spool'[p][n].status = verdict)
  <2>1. /\ spool'[a] \in [0 .. SpoolNext(a) -> Bodies]
        /\ \A i \in DOMAIN spool[a] : spool'[a][i] = spool[a][i]
        /\ spool'[a][SpoolNext(a)] = Body(SpoolNext(a), kind, verdict)
        /\ \A q \in Attempts : q # a => spool'[q] = spool[q]
    BY <1>0, <1>2, AppendedSpool
  <2>2. CASE p # a
    BY <2>1, <2>2
  <2>3. CASE p = a /\ n \in DOMAIN spool[a]
    BY <2>1, <2>3
  <2>4. CASE p = a /\ n \notin DOMAIN spool[a]
    <3>1. n = SpoolNext(a)
      BY <1>0, <2>1, <2>4
    <3>2. QED
      BY <2>1, <2>4, <3>1 DEF Body
  <2>5. QED
    BY <2>2, <2>3, <2>4
<1>3. ASSUME NEW a \in Attempts, NEW kind \in {"run.started", "record"}, Append(a, kind, "none"),
             SpoolNext(a) < MaxSeq, Body(SpoolNext(a), kind, "none") \in Bodies,
             runner[a].phase \in {"running", "expiring", "closing", "finalizing"}
      PROVE  Known
  <2>1. SpoolNext(a) <= MaxSeq
    BY <1>0, <1>3
  <2>2. QED
    BY <1>2, <1>3, <2>1
<1>4. ASSUME NEW a \in Attempts, NEW verdict \in {Verdict(a), "failed"}, Append(a, "run.finished", verdict),
             runner[a].phase = "finalizing", SpoolNext(a) <= MaxSeq,
             Body(SpoolNext(a), "run.finished", verdict) \in Bodies, Move(a, "flushing")
      PROVE  Known
  <2>1. Passes(runner[a], runner'[a], "flushing")
    BY <1>0, <1>4, ChangedFields DEF Move
  <2>2. QED
    BY <1>2, <1>4, <2>1
<1> HIDE DEF Known
<1>5. Known
  BY <1>1, <1>3, <1>4, WriteStep DEF Known
<1>6. QED
  BY <1>5 DEF Known

\* How success is earned is preserved by every step of the runner and the server.
LEMMA EarnedStep == DeliveryInv /\ DeliveryInv' /\ Earned /\ [DeliveryNext]_allVars => Earned'
<1> SUFFICES ASSUME DeliveryInv, DeliveryInv', Earned, [DeliveryNext]_allVars, NEW a \in Attempts
             PROVE  EarnedAt(a)'
  BY DEF Earned
<1>1. CASE DeliveryNext
  <2> DEFINE s == runner[a]
             t == runner'[a]
             Silent == \A n \in DOMAIN spool[a] : spool[a][n].status = "none"
             SilentNext == \A n \in DOMAIN spool'[a] : spool'[a][n].status = "none"
             Won == Succeeds(a)
             WonNext == Succeeds(a)'
  <2>1. /\ EarnedAt(a) /\ JournalInv /\ StreamType /\ Place /\ [Next]_vars
        /\ RunnerMove(a)
    BY <1>1, JournalStep, RunnerMoves DEF DeliveryInv, Earned
  <2>2. config[a] # NoConfig => config'[a] # NoConfig
    BY <2>1, ConfigStays
  <2>3. /\ a = current + 1 => s.phase = "none" /\ s.control = "off"
        /\ s.failure \in {"none", "error", "deadline", "shutdown"}
    <3>1. a = current + 1 => runner[a] = NoRunner
      BY <2>1 DEF Place, JournalInv, TypeOK
    <3>2. s \in RunnerStates
      BY <2>1 DEF StreamType
    <3>3. s.failure \in {"none", "error", "deadline", "shutdown"}
      BY <3>2, Zenon DEF RunnerStates
    <3>4. QED
      BY <3>1, <3>3 DEF NoRunner
  <2>4. Streaming(a) => s.phase \in {"running", "expiring", "closing"}
    BY DEF Streaming, Started
  <2>5. Verdict(a) = "success" => s.outcome = "success" /\ s.failure = "none" /\ ~s.cancelled
    BY <2>3 DEF Verdict
  <2>6. (Silent => SilentNext) \/ (s.phase = "finalizing" /\ Passes(s, t, "flushing"))
    BY <1>1, StatusStep
  <2>7. /\ WonNext => Won \/ (Verdict(a) = "success" /\ s.phase = "finalizing" /\ Passes(s, t, "flushing"))
        /\ Silent => ~Won
    BY <1>1, StatusStep DEF Succeeds
  <2>8. /\ s.phase \in {"closing", "finalizing", "flushing"} => s.control = "off"
        /\ s.phase \notin {"flushing", "leaving", "gone"} => Silent
        /\ \/ s.phase \in {"prepared", "running", "expiring"}
           \/ s.phase \in {"closing", "finalizing"} /\ s.failure = "none"
           \/ Won
           => config[a] # NoConfig
        /\ s.phase = "flushing" /\ Won => s.outcome = "success" /\ s.failure = "none" /\ ~s.cancelled
    BY <2>1 DEF EarnedAt
  <2>9. /\ t.phase \in {"closing", "finalizing", "flushing"} => t.control = "off"
        /\ t.phase \notin {"flushing", "leaving", "gone"} => SilentNext
        /\ \/ t.phase \in {"prepared", "running", "expiring"}
           \/ t.phase \in {"closing", "finalizing"} /\ t.failure = "none"
           \/ WonNext
           => config'[a] # NoConfig
        /\ t.phase = "flushing" /\ WonNext => t.outcome = "success" /\ t.failure = "none" /\ ~t.cancelled
    <3> HIDE DEF Silent, SilentNext, Won, WonNext, s, t
    <3> USE <2>2, <2>3, <2>4, <2>5, <2>6, <2>7, <2>8
    <3>1. CASE t = s
      BY <3>1 DEF Passes, Looks
    <3>2. CASE PhaseMove(a, s, t)
      BY <3>2 DEF PhaseMove, Passes, Looks
    <3>3. CASE RunMove(a, s, t)
      BY <3>3 DEF RunMove, Passes, Looks
    <3>4. CASE ControlMove(a, s, t)
      BY <3>4 DEF ControlMove, Passes, Looks
    <3>5. QED
      BY <2>1, <3>1, <3>2, <3>3, <3>4 DEF RunnerMove, s, t
  <2>10. QED
    BY <2>9 DEF EarnedAt
<1>2. CASE UNCHANGED allVars
  BY <1>2 DEF Earned, EarnedAt, Succeeds, allVars, runnerVars, vars, disk
<1>3. QED
  BY <1>1, <1>2

\* A task counts as successful only for a run that was started under saved
\* settings, reported success, and was neither cancelled nor cut short.
THEOREM SuccessEarned == DeliverySpec => []SuccessIsEarned
<1>1. DeliveryInit => Earned
  <2> SUFFICES ASSUME DeliveryInit, NEW a \in Attempts PROVE EarnedAt(a)
    BY DEF Earned
  <2>1. runner[a].phase = "none" /\ DOMAIN spool[a] = {}
    BY DEF DeliveryInit, NoRunner
  <2>2. QED
    BY <2>1 DEF EarnedAt, Succeeds
<1>2. DeliveryInv /\ Earned /\ JournalMatchesSpool => SuccessIsEarned
  <2> SUFFICES ASSUME DeliveryInv, Earned, JournalMatchesSpool, NEW a \in Attempts
               PROVE  /\ status[a] = "success" => Succeeds(a) /\ config[a] # NoConfig
                      /\ Succeeds(a) /\ runner[a].phase = "flushing" =>
                           /\ runner[a].outcome = "success"
                           /\ runner[a].failure = "none"
                           /\ ~runner[a].cancelled
    BY DEF SuccessIsEarned, Succeeds
  <2>1. status[a] = "success" => Succeeds(a)
    BY DEF DeliveryInv, JournalInv, VerdictIsJournalled, JournalMatchesSpool, Final, Succeeds
  <2>2. QED
    BY <2>1 DEF Earned, EarnedAt
<1>3. QED
  BY <1>1, <1>2, EarnedStep, DeliveryInvariant, JournalIsSpoolPrefix, PTL DEF DeliverySpec
-----------------------------------------------------------------------------
(* One connector executes                                                  *)

\* Only the container of the current attempt executes, and one that is left
\* behind by an earlier attempt can never be told to: its runner is gone.
Exclusive ==
  \A a \in Attempts :
    /\ container[a] = "busy" => a = current
    /\ container[a] = "idle" /\ a < current => runner[a].phase = "gone"

\* No step lets a container of an earlier attempt start beside another one.
LEMMA ExclusiveStep == DeliveryInv /\ Exclusive /\ [DeliveryNext]_allVars => Exclusive'
<1> SUFFICES ASSUME DeliveryInv, Exclusive, [DeliveryNext]_allVars PROVE Exclusive'
  OBVIOUS
<1>1. CASE DeliveryNext
  <2>0. /\ JournalInv /\ StreamType /\ Place /\ [Next]_vars
        /\ current \in Nat /\ current' \in {current, current + 1} /\ Attempts \subseteq Nat
        /\ \A a \in Attempts : RunnerMove(a) /\ ContainerMove(a)
        /\ current' # current => container' = container /\ \A a \in Attempts : container[a] \notin Up
    <3>1. JournalInv /\ StreamType /\ Place
      BY DEF DeliveryInv
    <3>2. [Next]_vars
      BY <3>1, JournalStep
    <3>3. current \in Nat /\ current' \in {current, current + 1} /\ Attempts \subseteq Nat
      BY <3>1, <3>2, CurrentStep DEF Attempts
    <3>4. \A a \in Attempts : RunnerMove(a)
      BY <1>1, <3>1, RunnerMoves
    <3>5. /\ \A a \in Attempts : ContainerMove(a)
          /\ current' # current => container' = container /\ \A a \in Attempts : container[a] \notin Up
      BY <1>1, <3>1, ContainerMoves
    <3>6. QED
      BY <3>1, <3>2, <3>3, <3>4, <3>5
  <2>1. CASE current' # current
    BY <2>0, <2>1 DEF Exclusive, Up
  <2>2. ASSUME current' = current, NEW a \in Attempts
        PROVE  /\ container'[a] = "busy" => a = current
               /\ container'[a] = "idle" /\ a < current => runner'[a].phase = "gone"
    <3>1. ASSUME runner[a].phase = "gone", a <= current PROVE runner'[a].phase = "gone"
      <4>1. CASE PhaseMove(a, runner[a], runner'[a])
        BY <2>0, <3>1, <4>1 DEF PhaseMove, Passes, Looks
      <4>2. CASE RunMove(a, runner[a], runner'[a])
        BY <3>1, <4>2 DEF RunMove, Looks, Streaming, Started
      <4>3. CASE ControlMove(a, runner[a], runner'[a])
        BY <3>1, <4>3 DEF ControlMove, Looks
      <4>4. QED
        BY <2>0, <3>1, <4>1, <4>2, <4>3 DEF RunnerMove
    <3>2. container[a] = "busy" => a = current
      BY DEF Exclusive
    <3>3. container[a] = "idle" /\ a < current => runner[a].phase = "gone"
      BY DEF Exclusive
    <3>4. ContainerMove(a)
      BY <2>0
    <3>5. a \in Nat /\ current \in Nat /\ (a > current => container[a] = "none")
      BY <2>0 DEF Place
    <3>6. QED
      BY <2>2, <3>1, <3>2, <3>3, <3>4, <3>5 DEF ContainerMove, Owns
  <2>3. QED
    BY <2>1, <2>2 DEF Exclusive
<1>2. CASE UNCHANGED allVars
  BY <1>2 DEF Exclusive, allVars, runnerVars, vars
<1>3. QED
  BY <1>1, <1>2

\* Two connectors of a task never execute at the same time.
THEOREM OneExecution == DeliverySpec => []OneConnectorExecutes
<1>1. DeliveryInit => Exclusive
  BY DEF DeliveryInit, Exclusive
<1>2. Exclusive => OneConnectorExecutes
  BY DEF Exclusive, OneConnectorExecutes
<1>3. QED
  BY <1>1, <1>2, ExclusiveStep, DeliveryInvariant, PTL DEF DeliverySpec
-----------------------------------------------------------------------------
(* An answered abort excludes success                                      *)

\* A run that cannot end in success any more.
Doomed(a) ==
  (runner[a].cancelled \/ runner[a].phase \in {"leaving", "gone"}) /\ ~Succeeds(a)

\* The control task works on commands of its own attempt, while the run lasts.
OwnCommands(a) ==
  LET s == runner[a] IN
  /\ \A c \in s.todo : command[c].attempt = a
  /\ s.doing # NoId => /\ command[s.doing].attempt = a /\ s.control = "work"
                       /\ s.doing \in AbortCommands => s.cancelled
  /\ s.control # "off" => s.phase \in {"preparing", "prepared", "running", "expiring"}
  /\ s.phase \in {"none", "spawning", "starting"} => ~s.cancelled

\* A command the spool or the server has a receipt of belongs to an attempt, and
\* an abort to one that cannot succeed any more.
Receipted(c) ==
  /\ ledger[c] # "absent" => command[c].attempt \in Attempts
  /\ c \in AbortCommands /\ (ledger[c] # "absent" \/ command[c].receipt # "none") =>
       command[c].attempt \in Attempts /\ Doomed(command[c].attempt)

Aborts == (\A a \in Attempts : OwnCommands(a)) /\ (\A c \in Commands : Receipted(c))

\* A command keeps its attempt, and a receipt comes from a spool.
LEMMA CommandStep ==
  ASSUME DeliveryInv, DeliveryNext, NEW c \in Commands
  PROVE  \/ command'[c].attempt = command[c].attempt
            /\ (command'[c].receipt = command[c].receipt \/ ledger[c] # "absent")
         \/ command[c] = NoCommand /\ command'[c].receipt = "none"
<1> DEFINE Kept == command'[c].attempt = command[c].attempt /\ command'[c].receipt = command[c].receipt
           Known == \/ command'[c].attempt = command[c].attempt
                       /\ (command'[c].receipt = command[c].receipt \/ ledger[c] # "absent")
                    \/ command[c] = NoCommand /\ command'[c].receipt = "none"
<1>0. TypeOK /\ StreamType
  BY DEF DeliveryInv, JournalInv
<1>1. ASSUME NEW a, Heartbeat(a) PROVE Kept
  BY <1>0, <1>1 DEF Heartbeat, TypeOK
<1>2. ASSUME NEW a, command' \in {command, EndPending(a)} PROVE Kept
  BY <1>0, <1>2 DEF EndPending, TypeOK
<1>3. ASSUME NEW a, NEW d \in Completed(a), AcknowledgeCommand(a, d, ledger[d]) PROVE Known
  <2>1. ledger[d] # "absent" /\ command[d].attempt = a /\ d \in Commands
    BY <1>3 DEF Completed, Receipts
  <2>2. CASE d = c
    BY <1>0, <1>3, <2>1, <2>2 DEF AcknowledgeCommand, TypeOK
  <2>3. CASE d # c
    BY <1>0, <1>3, <2>1, <2>3 DEF AcknowledgeCommand, TypeOK
  <2>4. QED
    BY <2>2, <2>3
<1>4. ASSUME NEW a \in Attempts, NEW d \in Commands, QueueCommand(a, d) PROVE Known
  BY <1>0, <1>4 DEF QueueCommand, TypeOK
<1>5. ASSUME NEW a, NEW valid \in BOOLEAN, FinishInterrupted(a, valid) PROVE Kept
  BY <1>2, <1>5 DEF FinishInterrupted
<1>6. ASSUME NEW a, NEW b, IngestEvents(a, b) PROVE Kept
  BY <1>2, <1>6 DEF IngestEvents
<1>7. ASSUME UNCHANGED command PROVE Kept
  BY <1>7
<1> HIDE DEF Kept
<1>8. Kept => Known
  BY DEF Kept
<1>9. ASSUME NEW a \in Attempts, Launch(a) \/ SpawnStep(a) \/ StartupStep(a) \/ MainStep(a) PROVE Kept
  BY <1>1, <1>5, <1>7, <1>9 DEF Launch, CreateAttempt, SpawnStep, SpawnSucceeds, SpawnFails, StartupStep,
     FirstHeartbeat, FirstHeartbeatLost, FirstHeartbeatRejected, Prepare, PrepareConfiguration,
     Start, StartupFails, MainStep, ConnectorRecord, ConnectorFinishes, ConsumerDone, RunFails, Deadline,
     GraceEnds, CloseConnector, EmitArtifact, JournalVerdict, LeaveRun, vars
<1>10. ASSUME NEW a \in Attempts, DeliveryStep(a) \/ JobRecovers(a) \/ ReconcileStep(a)
              \/ SweepContainer(a) \/ \E left \in BOOLEAN : Crash(a, left)
       PROVE  Kept
  BY <1>7, <1>10 DEF DeliveryStep, SendBatch, GiveUp, TakeAnswer, JobRecovers, ReconcileStep, Reconcile,
     SweepContainer, Crash, vars
<1>11. ASSUME NEW a \in Attempts, ControlStep(a) PROVE Kept \/ Known
  BY <1>1, <1>3, <1>7, <1>11 DEF ControlStep, SendReceipt, Poll, ControlRejected, UseFirstHeartbeat,
     BeginCommand, SendControl, FinishCommand, ListDone, vars
<1>12. ASSUME NEW r \in Recoverers, RecoveryStep(r) PROVE Kept \/ Known
  BY <1>3, <1>5, <1>6, <1>7, <1>12 DEF RecoveryStep, ReplayBatch, DropBatch, ReplayReceipt, DropReceipt,
     ReplayDone, ReplayFails, FinishRecovery, vars
<1>13. ASSUME NEW m \in wire, NEW again \in BOOLEAN, HandleEvents(m, again) PROVE Kept
  BY <1>6, <1>7, <1>13 DEF HandleEvents, vars
<1>14. ASSUME Environment \/ ReconcilerCrash PROVE Kept \/ Known
  BY <1>4, <1>7, <1>14 DEF Environment, HeartbeatAges, ArchiveResults, ReconcilerCrash, vars
<1> HIDE DEF Known
<1>15. Known
  BY <1>8, <1>9, <1>10, <1>11, <1>12, <1>13, <1>14 DEF DeliveryNext
<1>16. QED
  BY <1>15 DEF Known

\* A command enters a spool as one its run has been told of, and an abort cancels
\* the run in the same step.
LEMMA LedgerMoves ==
  ASSUME DeliveryInv, DeliveryNext, NEW c \in Commands
  PROVE  \/ ledger'[c] \in {ledger[c], "absent"}
         \/ \E a \in Attempts :
              \/ c \in Offered(a) /\ runner[a].phase = "starting" /\ runner'[a].cancelled
              \/ /\ c \in runner[a].todo /\ runner[a].control = "work"
                 /\ c \in AbortCommands => runner'[a].cancelled
              \/ c = runner[a].doing
<1> DEFINE Known ==
         \/ ledger'[c] \in {ledger[c], "absent"}
         \/ \E a \in Attempts :
              \/ c \in Offered(a) /\ runner[a].phase = "starting" /\ runner'[a].cancelled
              \/ /\ c \in runner[a].todo /\ runner[a].control = "work"
                 /\ c \in AbortCommands => runner'[a].cancelled
              \/ c = runner[a].doing
<1>0. runner \in [Attempts -> RunnerStates] /\ ledger \in [Commands -> Receipts \cup {"absent", "executing"}]
  BY DEF DeliveryInv, StreamType
<1>1. ASSUME UNCHANGED ledger PROVE Known
  BY <1>1
<1>2. ASSUME NEW d, ledger' = [ledger EXCEPT ![d] = "absent"] PROVE Known
  BY <1>0, <1>2
<1>3. ASSUME NEW a \in Attempts, FirstHeartbeat(a) PROVE Known
  <2> DEFINE aborts == Offered(a) \cap AbortCommands
  <2>1. PICK control \in {"off", "first"} :
          runner' = [runner EXCEPT ![a] =
            [@ EXCEPT !.phase = "preparing", !.delivering = TRUE, !.cancelled = aborts # {},
                      !.todo = Offered(a), !.control = control]]
    BY <1>3 DEF FirstHeartbeat
  <2>2. runner'[a].cancelled = (aborts # {})
    BY <1>0, <2>1, ChangedFields DEF Looks
  <2>3. ledger' = [d \in Commands |-> IF d \in aborts THEN "before_start" ELSE ledger[d]]
        /\ runner[a].phase = "starting"
    BY <1>3 DEF FirstHeartbeat
  <2> HIDE DEF aborts
  <2>4. CASE c \in aborts
    BY <2>2, <2>3, <2>4 DEF aborts
  <2>5. CASE c \notin aborts
    BY <2>3, <2>5
  <2>6. QED
    BY <2>4, <2>5
<1>4. ASSUME NEW a \in Attempts, NEW d \in Commands, BeginCommand(a, d) PROVE Known
  <2> DEFINE stop == runner[a].cancelled \/ d \in AbortCommands
             t == [runner[a] EXCEPT !.todo = runner[a].todo \ {d}, !.doing = d, !.cancelled = stop]
  <2>1. runner' = [runner EXCEPT ![a] = t] /\ d \in runner[a].todo /\ runner[a].control = "work"
        /\ ledger' = [ledger EXCEPT ![d] = "executing"]
    BY <1>4 DEF BeginCommand
  <2>2. t.cancelled = stop
    BY <1>0, ChangedFields DEF Looks
  <2> HIDE DEF t
  <2>3. QED
    BY <1>0, <2>1, <2>2
<1>5. ASSUME NEW a \in Attempts, NEW receipt \in Receipts, FinishCommand(a, receipt) PROVE Known
  BY <1>0, <1>5 DEF FinishCommand
<1> HIDE DEF Known
<1>6. ASSUME NEW a \in Attempts, SpawnStep(a) \/ StartupStep(a) \/ MainStep(a) \/ Launch(a) PROVE Known
  BY <1>1, <1>3, <1>6 DEF SpawnStep, SpawnSucceeds, SpawnFails, StartupStep, FirstHeartbeatLost,
     FirstHeartbeatRejected, Prepare, Start, StartupFails, MainStep, ConnectorRecord, ConnectorFinishes,
     ConsumerDone, RunFails, Deadline, GraceEnds, CloseConnector, EmitArtifact, JournalVerdict, LeaveRun,
     Launch, disk
<1>7. ASSUME NEW a \in Attempts, DeliveryStep(a) \/ JobRecovers(a) \/ ReconcileStep(a)
             \/ SweepContainer(a) \/ \E left \in BOOLEAN : Crash(a, left)
      PROVE  Known
  BY <1>1, <1>7 DEF DeliveryStep, SendBatch, GiveUp, TakeAnswer, JobRecovers, ReconcileStep, Reconcile,
     SweepContainer, Crash, disk
<1>8. ASSUME NEW a \in Attempts, ControlStep(a) PROVE Known
  BY <1>1, <1>2, <1>4, <1>5, <1>8 DEF ControlStep, SendReceipt, Poll, ControlRejected, UseFirstHeartbeat,
     SendControl, ListDone, disk
<1>9. ASSUME NEW r \in Recoverers, RecoveryStep(r) PROVE Known
  BY <1>1, <1>2, <1>9 DEF RecoveryStep, ReplayBatch, DropBatch, ReplayReceipt, DropReceipt, ReplayDone,
     ReplayFails, FinishRecovery, disk
<1>10. Known
  BY <1>1, <1>6, <1>7, <1>8, <1>9 DEF DeliveryNext, Environment, runnerVars, HandleEvents, ReconcilerCrash, disk
<1>11. QED
  BY <1>10 DEF Known

\* A doomed run stays doomed.
LEMMA DoomedStep ==
  ASSUME DeliveryInv, DeliveryNext, NEW a \in Attempts, OwnCommands(a), Doomed(a)
  PROVE  Doomed(a)'
<1> DEFINE s == runner[a]
           t == runner'[a]
<1>1. RunnerMove(a) /\ StreamType /\ (a = current + 1 => ~s.cancelled /\ s.phase = "none")
  <2>1. JournalInv /\ StreamType /\ Place
    BY DEF DeliveryInv
  <2>2. RunnerMove(a)
    BY <2>1, RunnerMoves
  <2>3. a = current + 1 => runner[a] = NoRunner
    BY <2>1 DEF Place, JournalInv, TypeOK
  <2>4. QED
    BY <2>1, <2>2, <2>3 DEF NoRunner
<1>2. s.cancelled \/ s.phase \in {"leaving", "gone"}
  BY DEF Doomed
<1>3. s.phase = "starting" => ~s.cancelled
  BY DEF OwnCommands
<1>4. t.cancelled \/ t.phase \in {"leaving", "gone"}
  <2> HIDE DEF s, t
  <2>1. CASE t = s
    BY <1>2, <2>1
  <2>2. CASE PhaseMove(a, s, t)
    BY <1>1, <1>2, <1>3, <2>2 DEF PhaseMove, Passes, Looks
  <2>3. CASE RunMove(a, s, t)
    BY <1>2, <2>3 DEF RunMove, Looks, Streaming, Started, s
  <2>4. CASE ControlMove(a, s, t)
    <3>1. /\ (s.cancelled => t.cancelled) \/ s.phase = "starting"
          /\ t.phase = s.phase \/ s.phase = "starting"
      BY <2>4 DEF ControlMove, Looks
    <3>2. QED
      BY <1>2, <1>3, <3>1
  <2>5. QED
    BY <1>1, <2>1, <2>2, <2>3, <2>4 DEF RunnerMove, s, t
<1>5. ~Succeeds(a)'
  <2>1. ASSUME NEW n \in DOMAIN spool'[a], spool'[a][n].status = "success" PROVE FALSE
    <3>1. \/ n \in DOMAIN spool[a] /\ spool'[a][n] = spool[a][n]
          \/ Verdict(a) = "success" /\ s.phase = "finalizing"
      BY <2>1, StatusStep
    <3>2. ~(Verdict(a) = "success" /\ s.phase = "finalizing")
      BY <1>2 DEF Verdict
    <3>3. QED
      BY <2>1, <3>1, <3>2 DEF Doomed, Succeeds
  <2>2. QED
    BY <2>1 DEF Succeeds
<1>6. QED
  BY <1>4, <1>5 DEF Doomed

\* A control task never works on a command of another attempt.
LEMMA OwnCommandsStep ==
  ASSUME DeliveryInv, DeliveryNext, NEW a \in Attempts, OwnCommands(a)
  PROVE  OwnCommands(a)'
<1> DEFINE s == runner[a]
           t == runner'[a]
           Mine(c) == command'[c].attempt = a
<1>1. RunnerMove(a) /\ StreamType /\ (a = current + 1 => s = NoRunner)
  <2>1. JournalInv /\ StreamType /\ Place
    BY DEF DeliveryInv
  <2>2. QED
    BY <2>1, RunnerMoves DEF Place, JournalInv, TypeOK
<1>2. s \in RunnerStates /\ NoId \notin Commands
  BY <1>1, DeliveryAssumption DEF StreamType
<1>3. s.todo \subseteq Commands /\ s.doing \in Commands \cup {NoId}
  BY <1>2, Zenon DEF RunnerStates
<1>4. ASSUME NEW c \in Commands, command[c].attempt = a PROVE Mine(c)
  <2>1. a # 0
    BY BoundsAssumption DEF Attempts
  <2>2. QED
    BY <1>4, <2>1, CommandStep DEF NoCommand
<1>5. \A c \in Offered(a) : Mine(c)
  BY <1>4 DEF Offered, Pending
<1>6. \A c \in s.todo : Mine(c)
  BY <1>3, <1>4 DEF OwnCommands
<1>7. /\ s.doing # NoId => /\ Mine(s.doing) /\ s.control = "work"
                           /\ s.doing \in AbortCommands => s.cancelled
      /\ s.control # "off" => s.phase \in {"preparing", "prepared", "running", "expiring"}
      /\ s.phase \in {"none", "spawning", "starting"} => ~s.cancelled
  BY <1>3, <1>4 DEF OwnCommands
<1>8. a = current + 1 => s.phase = "none" /\ s.doing = NoId /\ s.control = "off"
  BY <1>1 DEF NoRunner
<1>9. Streaming(a) => s.phase \in {"running", "expiring", "closing"}
  BY DEF Streaming, Started
<1>10. NoId \notin s.todo
  BY <1>2, <1>3
<1>11. /\ \A c \in t.todo : Mine(c)
       /\ t.doing # NoId => /\ Mine(t.doing) /\ t.control = "work"
                            /\ t.doing \in AbortCommands => t.cancelled
       /\ t.control # "off" => t.phase \in {"preparing", "prepared", "running", "expiring"}
       /\ t.phase \in {"none", "spawning", "starting"} => ~t.cancelled
  <2> HIDE DEF s, t, Mine
  <2>1. CASE t = s
    BY <1>6, <1>7, <2>1
  <2>2. CASE PhaseMove(a, s, t)
    BY <1>6, <1>7, <1>8, <2>2 DEF PhaseMove, Passes, Looks
  <2>3. CASE RunMove(a, s, t)
    BY <1>6, <1>7, <1>9, <2>3 DEF RunMove, Looks
  <2>4. CASE ControlMove(a, s, t)
    BY <1>5, <1>6, <1>7, <1>10, <2>4 DEF ControlMove, Looks
  <2>5. QED
    BY <1>1, <2>1, <2>2, <2>3, <2>4 DEF RunnerMove, s, t
<1>12. QED
  BY <1>11 DEF OwnCommands

\* A receipted abort keeps excluding success, whoever moves next.
LEMMA ReceiptedStep ==
  ASSUME DeliveryInv, DeliveryInv', Earned, Aborts, DeliveryNext, NEW c \in Commands
  PROVE  Receipted(c)'
<1>0. /\ \A a \in Attempts : OwnCommands(a)
      /\ Receipted(c)
      /\ 0 \notin Attempts
  BY DEF Aborts, Attempts
<1>1. ASSUME NEW a \in Attempts, command[c].attempt = a PROVE command'[c].attempt = a
  BY <1>0, <1>1, CommandStep DEF NoCommand
<1>2. ASSUME NEW a \in Attempts, command'[c].attempt = a, c \in AbortCommands => Doomed(a)'
      PROVE  Receipted(c)'
  BY <1>2 DEF Receipted, Doomed, Succeeds
<1>3. ASSUME ledger'[c] = "absent", c \notin AbortCommands \/ command'[c].receipt = "none"
      PROVE  Receipted(c)'
  BY <1>3 DEF Receipted
<1>4. CASE c \in AbortCommands /\ (ledger[c] # "absent" \/ command[c].receipt # "none")
  <2>1. command[c].attempt \in Attempts /\ Doomed(command[c].attempt)
    BY <1>0, <1>4 DEF Receipted
  <2>2. QED
    BY <1>0, <1>1, <1>2, <2>1, DoomedStep
<1>5. CASE c \notin AbortCommands /\ ledger[c] # "absent"
  <2>1. command[c].attempt \in Attempts
    BY <1>0, <1>5 DEF Receipted
  <2>2. QED
    BY <1>1, <1>2, <1>5, <2>1
<1>6. CASE ledger[c] = "absent" /\ (c \notin AbortCommands \/ command[c].receipt = "none")
  <2>1. c \notin AbortCommands \/ command'[c].receipt = "none"
    BY <1>6, CommandStep
  <2>2. CASE ledger'[c] = "absent"
    BY <1>3, <2>1, <2>2
  <2>3. CASE ledger'[c] # "absent"
    <3>1. PICK a \in Attempts :
            \/ c \in Offered(a) /\ runner[a].phase = "starting" /\ runner'[a].cancelled
            \/ /\ c \in runner[a].todo /\ runner[a].control = "work"
               /\ c \in AbortCommands => runner'[a].cancelled
            \/ c = runner[a].doing
      BY <1>6, <2>3, LedgerMoves
    <3>2. c # NoId
      BY DeliveryAssumption
    <3>3. command[c].attempt = a
      BY <1>0, <3>1, <3>2 DEF OwnCommands, Offered, Pending
    <3>4. runner[a].phase \in {"starting", "preparing", "prepared", "running", "expiring"}
      BY <1>0, <3>1, <3>2 DEF OwnCommands
    <3>5. ~Succeeds(a)
      BY <3>4 DEF Earned, EarnedAt, Succeeds
    <3>6. CASE c = runner[a].doing
      <4>1. c \in AbortCommands => Doomed(a)
        BY <1>0, <3>2, <3>5, <3>6 DEF OwnCommands, Doomed
      <4>2. QED
        BY <1>0, <1>1, <1>2, <3>3, <4>1, DoomedStep
    <3>7. CASE c # runner[a].doing
      <4>1. c \in AbortCommands => runner'[a].cancelled
        BY <3>1, <3>7
      <4>2. ~Succeeds(a)'
        <5>1. ASSUME NEW n \in DOMAIN spool'[a], spool'[a][n].status = "success" PROVE FALSE
          <6>1. n \in DOMAIN spool[a] /\ spool'[a][n] = spool[a][n]
            BY <3>4, <5>1, StatusStep
          <6>2. QED
            BY <3>5, <5>1, <6>1 DEF Succeeds
        <5>2. QED
          BY <5>1 DEF Succeeds
      <4>3. c \in AbortCommands => Doomed(a)'
        BY <4>1, <4>2 DEF Doomed
      <4>4. QED
        BY <1>1, <1>2, <3>3, <4>3
    <3>8. QED
      BY <3>6, <3>7
  <2>4. QED
    BY <2>2, <2>3
<1>7. QED
  BY <1>4, <1>5, <1>6

\* Commands stay with their attempts, and a receipted abort with a doomed run.
LEMMA AbortsInvariant == DeliverySpec => []Aborts
<1>1. DeliveryInit => Earned /\ Aborts
  <2> SUFFICES ASSUME DeliveryInit PROVE Earned /\ Aborts
    OBVIOUS
  <2>1. \A a \in Attempts : runner[a] = NoRunner /\ DOMAIN spool[a] = {}
    BY DEF DeliveryInit
  <2>2. Earned
    BY <2>1 DEF Earned, EarnedAt, Succeeds, NoRunner
  <2>3. Aborts
    BY <2>1 DEF Aborts, OwnCommands, Receipted, NoRunner, DeliveryInit, Init, NoCommand
  <2>4. QED
    BY <2>2, <2>3
<1>2. DeliveryInv /\ DeliveryInv' /\ Earned /\ Aborts /\ [DeliveryNext]_allVars => Aborts'
  <2> SUFFICES ASSUME DeliveryInv, DeliveryInv', Earned, Aborts, [DeliveryNext]_allVars PROVE Aborts'
    OBVIOUS
  <2>1. CASE DeliveryNext
    <3>1. ASSUME NEW a \in Attempts PROVE OwnCommands(a)'
      BY <2>1, OwnCommandsStep DEF Aborts
    <3>2. ASSUME NEW c \in Commands PROVE Receipted(c)'
      BY <2>1, ReceiptedStep
    <3>3. QED
      BY <3>1, <3>2 DEF Aborts
  <2>2. CASE UNCHANGED allVars
    BY <2>2 DEF Aborts, OwnCommands, Receipted, Doomed, Succeeds, allVars, runnerVars, vars, disk
  <2>3. QED
    BY <2>1, <2>2
<1>3. QED
  BY <1>1, <1>2, EarnedStep, DeliveryInvariant, PTL DEF DeliverySpec

\* An abort that was answered, before the start, by the connector or in its place,
\* is never contradicted by a success.
THEOREM AbortExcluded == DeliverySpec => []AbortExcludesSuccess
<1>1. Aborts /\ SuccessIsEarned => AbortExcludesSuccess
  <2> SUFFICES ASSUME Aborts, SuccessIsEarned, NEW c \in AbortCommands, command[c].receipt # "none"
               PROVE  status[command[c].attempt] # "success"
    BY DEF AbortExcludesSuccess
  <2>1. command[c].attempt \in Attempts /\ ~Succeeds(command[c].attempt)
    BY NamesAssumption DEF Aborts, Receipted, Doomed
  <2>2. QED
    BY <2>1 DEF SuccessIsEarned, Succeeds
<1>2. QED
  BY <1>1, AbortsInvariant, SuccessEarned, PTL
=============================================================================
