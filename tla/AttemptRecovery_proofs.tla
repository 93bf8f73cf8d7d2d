----------------------- MODULE AttemptRecovery_proofs -----------------------
(***************************************************************************)
(* A verdict that reached the spool reaches the task: with one reconciling *)
(* process and readable journals nothing that recovers an attempt declares *)
(* it lost behind its run.finished.  The argument follows a recovery from  *)
(* its claim on a spool nobody writes any more to its last step.           *)
(* The last part is about commands: none is executed twice.                *)
(***************************************************************************)
EXTENDS AttemptDelivery_proofs

\* Phases in which a runner has journalled its verdict, and those in which it is
\* past writing anything.
Ended == {"flushing", "leaving", "gone"}
Left == {"leaving", "gone"}

\* Phases never go back: what a runner has left behind it does not return to.
LEMMA PhaseOrder ==
  ASSUME DeliveryInv, DeliveryNext, NEW a \in Attempts
  PROVE  /\ runner[a].phase \in Ended => runner'[a].phase \in Ended
         /\ runner[a].phase \in Left => runner'[a].phase \in Left
         /\ runner[a].phase = "gone" => runner'[a].phase = "gone"
         /\ runner[a].phase # "none" => runner'[a].phase # "none"
<1>1. RunnerMove(a)
  BY RunnerMoves DEF DeliveryInv
<1>2. a = current + 1 => runner[a].phase = "none"
  <2>1. current \in Nat /\ (a > current => runner[a] = NoRunner)
    BY DEF DeliveryInv, JournalInv, TypeOK, Place
  <2>2. QED
    BY <2>1 DEF NoRunner
<1> DEFINE s == runner[a]
           t == runner'[a]
           Forward == /\ s.phase \in Ended => t.phase \in Ended
                      /\ s.phase \in Left => t.phase \in Left
                      /\ s.phase = "gone" => t.phase = "gone"
                      /\ s.phase # "none" => t.phase # "none"
<1>3. CASE PhaseMove(a, s, t)
  <2> HIDE DEF s, t
  <2>1. a = current + 1 => s.phase = "none"
    BY <1>2 DEF s
  <2>2. Forward
    BY <1>3, <2>1 DEF PhaseMove, Passes, Looks, Ended, Left
  <2>3. QED
    BY <2>2 DEF s, t
<1>4. CASE RunMove(a, s, t)
  <2>1. Streaming(a) => s.phase \in {"running", "expiring", "closing"}
    BY DEF Streaming, Started
  <2> HIDE DEF s, t
  <2>2. Forward
    BY <1>4, <2>1 DEF RunMove, Looks, Ended, Left
  <2>3. QED
    BY <2>2 DEF s, t
<1>5. CASE ControlMove(a, s, t)
  <2> HIDE DEF s, t
  <2>1. t.phase = s.phase \/ (s.phase = "starting" /\ t.phase = "preparing")
    BY <1>5 DEF ControlMove, Looks
  <2>2. Forward
    BY <2>1 DEF Ended, Left
  <2>3. QED
    BY <2>2 DEF s, t
<1>6. QED
  BY <1>1, <1>3, <1>4, <1>5 DEF RunnerMove
-----------------------------------------------------------------------------
(* What is in a spool                                                      *)

\* Records are numbered in the order they were written, the first one and no other
\* starts the run, and a run.finished is the last one, of a run that has ended.
Written ==
  \A a \in Attempts : \A n \in DOMAIN spool[a] :
    /\ spool[a][n].id = n
    /\ spool[a][n].kind = "run.started" <=> n = 0
    /\ spool[a][n].kind = "run.finished" => n = SpoolNext(a) - 1 /\ runner[a].phase \in Ended

\* Nobody writes to the spool of a run that has ended.
LEMMA SpoolClosed ==
  ASSUME DeliveryInv, DeliveryNext, NEW a \in Attempts, runner[a].phase \in Ended
  PROVE  spool'[a] = spool[a] /\ SpoolNext(a)' = SpoolNext(a)
<1>1. ASSUME NEW p \in Attempts, NEW kind, NEW verdict, Append(p, kind, verdict), p # a
      PROVE  spool'[a] = spool[a]
  BY <1>1 DEF Append
<1>2. spool'[a] = spool[a]
  BY <1>1, WriteStep DEF Ended
<1>3. QED
  BY <1>2 DEF SpoolNext

\* The shape of a spool survives whatever is written.
LEMMA WrittenStep ==
  ASSUME DeliveryInv, Written, DeliveryNext
  PROVE  Written'
<1> DEFINE Shape(a) == \A n \in DOMAIN spool'[a] :
                         /\ spool'[a][n].id = n
                         /\ spool'[a][n].kind = "run.started" <=> n = 0
                         /\ spool'[a][n].kind = "run.finished" =>
                              n = SpoolNext(a)' - 1 /\ runner'[a].phase \in Ended
<1>0. /\ StreamType /\ runner \in [Attempts -> RunnerStates]
      /\ \A a \in Attempts : SpoolNext(a) \in 0 .. MaxSeq + 1 /\ DOMAIN spool[a] = 0 .. SpoolNext(a) - 1
      /\ MaxSeq \in Nat
  BY BoundsAssumption DEF DeliveryInv, StreamType
<1>1. ASSUME NEW a \in Attempts, spool'[a] = spool[a] PROVE Shape(a)
  <2>1. SpoolNext(a)' = SpoolNext(a)
    BY <1>1 DEF SpoolNext
  <2>2. runner[a].phase \in Ended => runner'[a].phase \in Ended
    BY PhaseOrder
  <2>3. QED
    BY <1>1, <2>1, <2>2 DEF Written
<1>2. ASSUME NEW a \in Attempts, NEW kind, NEW verdict, Append(a, kind, verdict),
             SpoolNext(a) <= MaxSeq, Body(SpoolNext(a), kind, verdict) \in Bodies,
             runner[a].phase \notin Ended, kind = "run.started" <=> SpoolNext(a) = 0,
             kind = "run.finished" => runner'[a].phase \in Ended
      PROVE  \A p \in Attempts : Shape(p)
  <2>1. /\ SpoolNext(a)' = SpoolNext(a) + 1
        /\ spool'[a] \in [0 .. SpoolNext(a) -> Bodies]
        /\ \A n \in DOMAIN spool[a] : n \in DOMAIN spool'[a] /\ spool'[a][n] = spool[a][n]
        /\ spool'[a][SpoolNext(a)] = Body(SpoolNext(a), kind, verdict)
        /\ \A p \in Attempts : p # a => spool'[p] = spool[p]
    BY <1>0, <1>2, AppendedSpool
  <2>2. ASSUME NEW n \in DOMAIN spool'[a]
        PROVE  /\ spool'[a][n].id = n
               /\ spool'[a][n].kind = "run.started" <=> n = 0
               /\ spool'[a][n].kind = "run.finished" =>
                    n = SpoolNext(a)' - 1 /\ runner'[a].phase \in Ended
    <3>1. CASE n \in DOMAIN spool[a]
      BY <1>2, <2>1, <3>1 DEF Written
    <3>2. CASE n \notin DOMAIN spool[a]
      <4>1. n = SpoolNext(a)
        BY <1>0, <2>1, <3>2
      <4>2. QED
        BY <1>0, <1>2, <2>1, <4>1 DEF Body
    <3>3. QED
      BY <3>1, <3>2
  <2>3. ASSUME NEW p \in Attempts, p # a PROVE Shape(p)
    BY <1>1, <2>1, <2>3
  <2>4. QED
    BY <2>2, <2>3
<1> HIDE DEF Shape
<1>3. ASSUME NEW a \in Attempts, NEW verdict, Move(a, "flushing") PROVE runner'[a].phase \in Ended
  BY <1>0, <1>3 DEF Move, Ended
<1>4. \A a \in Attempts : Shape(a)
  <2>1. CASE UNCHANGED spool
    BY <1>1, <2>1
  <2>2. ASSUME NEW a \in Attempts, NEW kind \in {"run.started", "record"}, Append(a, kind, "none"),
               kind = "run.started" <=> SpoolNext(a) = 0, SpoolNext(a) < MaxSeq,
               Body(SpoolNext(a), kind, "none") \in Bodies,
               runner[a].phase \in {"running", "expiring", "closing", "finalizing"}
        PROVE  \A p \in Attempts : Shape(p)
    <3>1. SpoolNext(a) <= MaxSeq /\ runner[a].phase \notin Ended /\ kind # "run.finished"
      BY <1>0, <2>2 DEF Ended
    <3>2. QED
      BY <1>2, <2>2, <3>1
  <2>3. ASSUME NEW a \in Attempts, NEW verdict, Append(a, "run.finished", verdict),
               runner[a].phase = "finalizing", SpoolNext(a) \in 1 .. MaxSeq,
               Body(SpoolNext(a), "run.finished", verdict) \in Bodies, Move(a, "flushing")
        PROVE  \A p \in Attempts : Shape(p)
    <3>1. /\ SpoolNext(a) <= MaxSeq /\ SpoolNext(a) # 0 /\ runner[a].phase \notin Ended
          /\ runner'[a].phase \in Ended
      BY <1>0, <1>3, <2>3 DEF Ended
    <3>2. QED
      BY <1>2, <2>3, <3>1
  <2>4. QED
    BY <2>1, <2>2, <2>3, WriteStep
<1>5. QED
  BY <1>4 DEF Written, Shape
-----------------------------------------------------------------------------
(* Launches, faults and losses                                             *)

\* A new attempt is launched with a runner.
LEMMA LaunchStep ==
  ASSUME DeliveryInv, DeliveryNext
  PROVE  current' = current \/ \E a \in Attempts : Launch(a)
<1> DEFINE Known == current' = current \/ \E a \in Attempts : Launch(a)
<1>1. ASSUME NEW a \in Attempts, SpawnStep(a) \/ StartupStep(a) \/ MainStep(a) PROVE Known
  BY <1>1 DEF SpawnStep, SpawnSucceeds, SpawnFails, FinishInterrupted, StartupStep,
     FirstHeartbeat, FirstHeartbeatLost, FirstHeartbeatRejected, Heartbeat, Prepare, PrepareConfiguration,
     Start, StartupFails, MainStep, ConnectorRecord, ConnectorFinishes, ConsumerDone, RunFails, Deadline,
     GraceEnds, CloseConnector, EmitArtifact, JournalVerdict, LeaveRun, vars
<1>2. ASSUME NEW a \in Attempts, DeliveryStep(a) \/ ControlStep(a) \/ JobRecovers(a) \/ ReconcileStep(a)
             \/ SweepContainer(a) \/ \E left \in BOOLEAN : Crash(a, left)
      PROVE  Known
  BY <1>2 DEF DeliveryStep, SendBatch, GiveUp, TakeAnswer, ControlStep, SendReceipt, Poll, Heartbeat,
     AcknowledgeCommand, ControlRejected, UseFirstHeartbeat, BeginCommand, SendControl, FinishCommand,
     ListDone, JobRecovers, ReconcileStep, Reconcile, SweepContainer, Crash, vars
<1>3. ASSUME NEW r \in Recoverers, RecoveryStep(r) PROVE Known
  BY <1>3 DEF RecoveryStep, ReplayBatch, IngestEvents, DropBatch, ReplayReceipt, AcknowledgeCommand,
     DropReceipt, ReplayDone, ReplayFails, FinishRecovery, FinishInterrupted, vars
<1>4. ASSUME NEW m \in wire, NEW again \in BOOLEAN, HandleEvents(m, again) PROVE Known
  BY <1>4 DEF HandleEvents, IngestEvents, vars
<1>5. Known
  BY <1>1, <1>2, <1>3, <1>4 DEF DeliveryNext, Environment, QueueCommand, HeartbeatAges, ArchiveResults,
     ReconcilerCrash, vars
<1>6. QED
  BY <1>5

\* No spool file is found unreadable.
Readable == "fault" \in DOMAIN budget /\ budget["fault"] = 0

\* Journals that are readable stay so.
LEMMA ReadableStep ==
  ASSUME Readable, DeliveryNext
  PROVE  Readable' /\ \A r : ~ReplayFails(r)
<1>1. ASSUME Spend("crash") \/ Spend("loss") PROVE Readable'
  BY <1>1 DEF Spend, Readable
<1>2. ~Spend("fault")
  BY DEF Spend, Readable
<1>3. ASSUME UNCHANGED budget PROVE Readable'
  BY <1>3 DEF Readable
<1> HIDE DEF Readable
<1>4. \A r : ~ReplayFails(r)
  BY <1>2 DEF ReplayFails
<1>5. ASSUME NEW a \in Attempts, Launch(a) \/ SpawnStep(a) \/ StartupStep(a) \/ MainStep(a) PROVE Readable'
  BY <1>1, <1>3, <1>5 DEF Launch, SpawnStep, SpawnSucceeds, SpawnFails, StartupStep, FirstHeartbeat,
     FirstHeartbeatLost, FirstHeartbeatRejected, Prepare, Start, StartupFails, MainStep, ConnectorRecord,
     ConnectorFinishes, ConsumerDone, RunFails, Deadline, GraceEnds, CloseConnector, EmitArtifact,
     JournalVerdict, LeaveRun
<1>6. ASSUME NEW a \in Attempts, DeliveryStep(a) \/ ControlStep(a) PROVE Readable'
  BY <1>1, <1>3, <1>6 DEF DeliveryStep, SendBatch, GiveUp, TakeAnswer, ControlStep, SendReceipt, Poll,
     ControlRejected, UseFirstHeartbeat, BeginCommand, SendControl, FinishCommand, ListDone
<1>7. ASSUME NEW a \in Attempts, JobRecovers(a) \/ ReconcileStep(a) \/ SweepContainer(a)
             \/ \E left \in BOOLEAN : Crash(a, left)
      PROVE  Readable'
  BY <1>1, <1>3, <1>7 DEF JobRecovers, ReconcileStep, Reconcile, SweepContainer, Crash
<1>8. ASSUME NEW r \in Recoverers, RecoveryStep(r) PROVE Readable'
  BY <1>3, <1>4, <1>8 DEF RecoveryStep, ReplayBatch, DropBatch, ReplayReceipt, DropReceipt, ReplayDone,
     FinishRecovery
<1>9. ASSUME NEW m \in wire, NEW again \in BOOLEAN, HandleEvents(m, again) PROVE Readable'
  BY <1>1, <1>3, <1>9 DEF HandleEvents
<1>10. Readable'
  BY <1>1, <1>3, <1>5, <1>6, <1>7, <1>8, <1>9 DEF DeliveryNext, Environment, runnerVars, ReconcilerCrash
<1>11. QED
  BY <1>4, <1>10
-----------------------------------------------------------------------------
(* How a recovery moves                                                    *)

\* A recovery under way was under way before, in the same attempt, or has just been
\* begun by the job of its attempt or by the reconciler.
RecoveryMove(r) ==
  \/ recovery'[r] = recovery[r]
  \/ recovery'[r].pc = "idle"
  \/ /\ RecoveryStep(r) /\ recovery[r].pc \in {"replay", "drop", "forget"}
     /\ recovery'[r].attempt = recovery[r].attempt
  \/ /\ r \in Attempts /\ JobRecovers(r) /\ recovery'[r].attempt = r
     /\ recovery'[r].pc = "finish" => ~Owns(r)
  \/ \E a \in Attempts, stopped \in BOOLEAN :
       /\ r = 0 /\ Reconcile(a, stopped)
       /\ recovery'[r].attempt = a /\ recovery'[r].pc = "replay"

\* Recoveries move in no other way.
LEMMA RecoveryMoves ==
  ASSUME DeliveryInv, DeliveryNext, NEW r \in Recoverers
  PROVE  RecoveryMove(r)
<1>0. /\ recovery \in [Recoverers -> Recoveries]
      /\ NoRecovery.pc = "idle" /\ Attempts \subseteq Recoverers /\ 0 \notin Attempts /\ 0 \in Recoverers
  BY BoundsAssumption DEF DeliveryInv, StreamType, NoRecovery, Attempts, Recoverers
<1>1. ASSUME UNCHANGED recovery PROVE RecoveryMove(r)
  BY <1>1 DEF RecoveryMove
<1>2. ASSUME NEW q \in Recoverers, NEW s, recovery' = [recovery EXCEPT ![q] = s], q # r PROVE RecoveryMove(r)
  BY <1>0, <1>2 DEF RecoveryMove
<1>3. ASSUME NEW q \in Recoverers, recovery' = [recovery EXCEPT ![q] = NoRecovery] PROVE RecoveryMove(r)
  BY <1>0, <1>3 DEF RecoveryMove
<1>4. ASSUME NEW a \in Attempts, JobRecovers(a) PROVE RecoveryMove(r)
  <2> DEFINE s == [NoRecovery EXCEPT !.pc = IF Owns(a) THEN "replay" ELSE "finish", !.attempt = a]
  <2>1. recovery' = [recovery EXCEPT ![a] = s]
    BY <1>4 DEF JobRecovers
  <2>2. s.attempt = a /\ (s.pc = "finish" => ~Owns(a))
    BY DEF NoRecovery
  <2> HIDE DEF s
  <2>3. CASE a = r
    <3>1. recovery'[r] = s
      BY <1>0, <2>1, <2>3
    <3>2. QED
      BY <1>4, <2>2, <2>3, <3>1 DEF RecoveryMove
  <2>4. CASE a # r
    BY <1>0, <1>2, <2>1, <2>4
  <2>5. QED
    BY <2>3, <2>4
<1>5. ASSUME NEW a \in Attempts, NEW stopped \in BOOLEAN, Reconcile(a, stopped) PROVE RecoveryMove(r)
  <2> DEFINE s == [NoRecovery EXCEPT !.pc = "replay", !.attempt = a]
  <2>1. recovery' = [recovery EXCEPT ![0] = s]
    BY <1>5 DEF Reconcile
  <2>2. s.attempt = a /\ s.pc = "replay"
    BY DEF NoRecovery
  <2> HIDE DEF s
  <2>3. CASE r = 0
    <3>1. recovery'[r] = s
      BY <1>0, <2>1, <2>3
    <3>2. QED
      BY <1>5, <2>2, <2>3, <3>1 DEF RecoveryMove
  <2>4. CASE r # 0
    BY <1>0, <1>2, <2>1, <2>4
  <2>5. QED
    BY <2>3, <2>4
<1>6. ASSUME NEW q \in Recoverers, NEW pc, NEW through, NEW cmd, RecoveryStep(q),
             recovery[q].pc \in {"replay", "drop", "forget"},
             \/ recovery' = [recovery EXCEPT ![q].pc = pc]
             \/ recovery' = [recovery EXCEPT ![q].pc = pc, ![q].through = through]
             \/ recovery' = [recovery EXCEPT ![q].pc = pc, ![q].cmd = cmd]
      PROVE  RecoveryMove(r)
  <2>1. recovery[q] \in Recoveries
    BY <1>0
  <2> DEFINE s == [recovery[q] EXCEPT !.pc = pc]
             t == [recovery[q] EXCEPT !.pc = pc, !.through = through]
             u == [recovery[q] EXCEPT !.pc = pc, !.cmd = cmd]
  <2>2. recovery'[q] \in {s, t, u} /\ \A p \in Recoverers : p # q => recovery'[p] = recovery[p]
    BY <1>0, <1>6
  <2>3. \A v \in {s, t, u} : v.attempt = recovery[q].attempt
    BY <2>1 DEF Recoveries
  <2> HIDE DEF s, t, u
  <2>4. QED
    BY <1>6, <2>2, <2>3 DEF RecoveryMove
<1>7. ASSUME NEW q \in Recoverers, RecoveryStep(q) PROVE RecoveryMove(r)
  <2>1. CASE ReplayBatch(q)
    BY <1>6, <1>7, <2>1 DEF ReplayBatch, At, GoTo
  <2>2. CASE DropBatch(q)
    BY <1>6, <1>7, <2>2 DEF DropBatch, At, GoTo
  <2>3. ASSUME NEW c \in Commands, ReplayReceipt(q, c) PROVE RecoveryMove(r)
    BY <1>6, <1>7, <2>3 DEF ReplayReceipt, At, GoTo
  <2>4. CASE DropReceipt(q)
    BY <1>6, <1>7, <2>4 DEF DropReceipt, At
  <2>5. CASE ReplayDone(q) \/ ReplayFails(q)
    BY <1>6, <1>7, <2>5 DEF ReplayDone, ReplayFails, At, GoTo
  <2>6. ASSUME NEW valid \in BOOLEAN, NEW stopped \in BOOLEAN, FinishRecovery(q, valid, stopped)
        PROVE  RecoveryMove(r)
    BY <1>3, <2>6 DEF FinishRecovery
  <2>7. QED
    BY <1>7, <2>1, <2>2, <2>3, <2>4, <2>5, <2>6 DEF RecoveryStep
<1>8. ASSUME NEW a \in Attempts, NEW left \in BOOLEAN, Crash(a, left) PROVE RecoveryMove(r)
  BY <1>0, <1>3, <1>8 DEF Crash
<1>9. ASSUME NEW a \in Attempts, Launch(a) \/ SpawnStep(a) \/ StartupStep(a) \/ MainStep(a) PROVE RecoveryMove(r)
  BY <1>1, <1>9 DEF Launch, SpawnStep, SpawnSucceeds, SpawnFails, StartupStep, FirstHeartbeat,
     FirstHeartbeatLost, FirstHeartbeatRejected, Prepare, Start, StartupFails, MainStep, ConnectorRecord,
     ConnectorFinishes, ConsumerDone, RunFails, Deadline, GraceEnds, CloseConnector, EmitArtifact,
     JournalVerdict, LeaveRun
<1>10. ASSUME NEW a \in Attempts, DeliveryStep(a) \/ ControlStep(a) \/ SweepContainer(a) PROVE RecoveryMove(r)
  BY <1>1, <1>10 DEF DeliveryStep, SendBatch, GiveUp, TakeAnswer, ControlStep, SendReceipt, Poll,
     ControlRejected, UseFirstHeartbeat, BeginCommand, SendControl, FinishCommand, ListDone, SweepContainer
<1>11. QED
  BY <1>0, <1>1, <1>3, <1>4, <1>5, <1>7, <1>8, <1>9, <1>10 DEF DeliveryNext, ReconcileStep, Environment,
     runnerVars, HandleEvents, ReconcilerCrash

\* Every launched attempt has a runner or had one, and a recovery works on the spool of
\* a run that is over: a job on its own attempt's, the reconciler on one whose process
\* has gone.
Claimed ==
  /\ \A a \in Attempts : a <= current => runner[a].phase # "none"
  /\ \A r \in Recoverers : recovery[r].pc # "idle" =>
       /\ runner[recovery[r].attempt].phase \in Left
       /\ r = 0 => runner[recovery[r].attempt].phase = "gone"
       /\ r # 0 => recovery[r].attempt = r

\* With one reconciling process no claim is broken.
LEMMA ClaimedStep ==
  ASSUME DeliveryInv, DeliveryInv', Claimed, ~Replicas, DeliveryNext
  PROVE  Claimed'
<1>0. /\ current \in 0 .. MaxAttempts /\ current' \in 0 .. MaxAttempts /\ MaxAttempts \in Nat
      /\ \A r \in Recoverers : recovery[r].pc # "idle" => recovery[r].attempt \in Attempts
      /\ \A r \in Recoverers : recovery'[r].pc # "idle" => recovery'[r].attempt \in Attempts
      /\ runner \in [Attempts -> RunnerStates]
      /\ Attempts \subseteq Nat /\ Attempts \subseteq Recoverers /\ 0 \notin Attempts
  <2>1. /\ current \in 0 .. MaxAttempts /\ current' \in 0 .. MaxAttempts /\ MaxAttempts \in Nat
        /\ Place /\ Place' /\ StreamType
    BY BoundsAssumption DEF DeliveryInv, JournalInv, TypeOK
  <2>2. Attempts \subseteq Nat /\ Attempts \subseteq Recoverers /\ 0 \notin Attempts
    BY <2>1 DEF Attempts, Recoverers
  <2>3. \A r \in Recoverers : recovery[r].pc # "idle" => recovery[r].attempt \in Attempts
    BY <2>1 DEF Place, Attempts
  <2>4. \A r \in Recoverers : recovery'[r].pc # "idle" => recovery'[r].attempt \in Attempts
    BY <2>1 DEF Place, Attempts
  <2>5. runner \in [Attempts -> RunnerStates]
    BY <2>1 DEF StreamType
  <2>6. QED
    BY <2>1, <2>2, <2>3, <2>4, <2>5
<1>1. ASSUME NEW a \in Attempts, a <= current' PROVE runner'[a].phase # "none"
  <2>1. CASE a <= current
    BY <2>1, PhaseOrder DEF Claimed
  <2>2. CASE ~(a <= current)
    <3>1. PICK p \in Attempts : Launch(p)
      BY <1>1, <2>2, LaunchStep
    <3>2. p = current + 1 /\ current' = p /\ Move(p, "spawning")
      BY <3>1 DEF Launch, CreateAttempt
    <3>3. p = a
      BY <1>0, <1>1, <2>2, <3>2
    <3>4. runner'[a].phase = "spawning"
      BY <1>0, <3>2, <3>3, ChangedFields DEF Move, Passes, Looks
    <3>5. QED
      BY <3>4
  <2>3. QED
    BY <2>1, <2>2
<1>2. ASSUME NEW r \in Recoverers, recovery'[r].pc # "idle"
      PROVE  /\ runner'[recovery'[r].attempt].phase \in Left
             /\ r = 0 => runner'[recovery'[r].attempt].phase = "gone"
             /\ r # 0 => recovery'[r].attempt = r
  <2>1. RecoveryMove(r)
    BY RecoveryMoves
  <2>2. CASE recovery[r].pc # "idle" /\ recovery'[r].attempt = recovery[r].attempt
    BY <1>0, <2>2, PhaseOrder DEF Claimed
  <2>3. CASE r \in Attempts /\ JobRecovers(r) /\ recovery'[r].attempt = r
    <3>1. runner[r].phase \in Left
      BY <2>3 DEF JobRecovers, Left
    <3>2. QED
      BY <1>0, <2>3, <3>1, PhaseOrder
  <2>4. ASSUME NEW a \in Attempts, NEW stopped \in BOOLEAN, r = 0, Reconcile(a, stopped),
               recovery'[r].attempt = a
        PROVE  runner'[a].phase = "gone"
    <3>1. ~Live(a) /\ a <= current
      BY <1>0, <2>4 DEF Reconcile, Unfinished, Owns
    <3>2. runner[a].phase = "gone"
      BY <3>1 DEF Live, Claimed
    <3>3. QED
      BY <3>2, PhaseOrder
  <2>5. CASE recovery'[r] = recovery[r]
    BY <1>2, <2>2, <2>5
  <2>6. QED
    BY <1>2, <2>1, <2>2, <2>3, <2>4, <2>5 DEF RecoveryMove, Left
<1>3. QED
  BY <1>1, <1>2 DEF Claimed
-----------------------------------------------------------------------------
(* A replay ends where the spool ends                                      *)

\* The server accepts what the spool holds behind its own journal.
LEMMA BatchAccepted ==
  ASSUME DeliveryInv, Flow, Written, NEW a \in Attempts, Unacked(a) # {}, Owns(a), status[a] \in Active
  PROVE  Accepts(a, Batch(a))
<1> DEFINE b == Batch(a)
<1>0. /\ StreamType /\ TypeOK
      /\ nextSeq[a] \in Nat /\ nextSeq[a] <= SpoolNext(a) /\ acked[a] < nextSeq[a]
      /\ SpoolNext(a) \in Nat /\ DOMAIN spool[a] = 0 .. SpoolNext(a) - 1 /\ acked[a] \in Int
      /\ \A n \in 0 .. nextSeq[a] - 1 : rows[a][n] = spool[a][n]
  BY BoundsAssumption DEF DeliveryInv, JournalInv, TypeOK, StreamType, Flow
<1>1. /\ b \in Batches /\ b.last < SpoolNext(a)
      /\ \A n \in b.first .. b.last : n \in DOMAIN spool[a] /\ b.body[n] = spool[a][n]
  BY <1>0, BatchIsRun
<1>2. /\ b.first \in Nat /\ b.last \in Nat /\ b.first <= b.last
      /\ b.body \in [b.first .. b.last -> Bodies]
  BY <1>1, BatchShape
<1>3. b.first = acked[a] + 1
  BY DEF Batch
<1> HIDE DEF b
<1>4. RepeatsMatch(a, b)
  BY <1>0, <1>1, <1>2 DEF RepeatsMatch
<1>5. ASSUME NEW n \in nextSeq[a] .. b.last
      PROVE  /\ \A m \in 0 .. n - 1 : Extended(a, b)[m].id # b.body[n].id
             /\ n = 0 <=> b.body[n].kind = "run.started"
             /\ b.body[n].kind = "run.finished" => n = b.last
  <2>1. n \in b.first .. b.last /\ n \in DOMAIN spool[a] /\ b.body[n] = spool[a][n]
    BY <1>0, <1>1, <1>2, <1>3
  <2>2. b.body[n].id = n /\ (n = 0 <=> b.body[n].kind = "run.started")
    BY <2>1 DEF Written
  <2>3. b.body[n].kind = "run.finished" => n = b.last
    BY <1>0, <1>1, <1>2, <2>1 DEF Written
  <2>4. ASSUME NEW m \in 0 .. n - 1 PROVE Extended(a, b)[m].id # b.body[n].id
    <3>1. m \in DOMAIN spool[a] /\ m \in 0 .. b.last /\ m # n
      BY <1>0, <1>1, <1>2, <2>1
    <3>2. Extended(a, b)[m] = IF m < nextSeq[a] THEN rows[a][m] ELSE b.body[m]
      BY <3>1 DEF Extended
    <3>3. CASE m < nextSeq[a]
      BY <1>0, <2>2, <3>1, <3>2, <3>3 DEF Written
    <3>4. CASE ~(m < nextSeq[a])
      <4>1. m \in b.first .. b.last
        BY <1>0, <1>2, <1>3, <3>1, <3>4
      <4>2. QED
        BY <1>1, <2>2, <3>1, <3>2, <3>4, <4>1 DEF Written
    <3>5. QED
      BY <3>3, <3>4
  <2>5. QED
    BY <2>2, <2>3, <2>4
<1>6. b.first <= nextSeq[a]
  BY <1>0, <1>3
<1>7. NewRecordsFit(a, b)
  BY <1>5, <1>6 DEF NewRecordsFit
<1>8. QED
  BY <1>4, <1>7 DEF Accepts, b

\* A recovery that reaches its last step has delivered all of the spool, unless the
\* attempt ended or lost its task meanwhile.
CaughtUp ==
  \A r \in Recoverers :
    LET a == recovery[r].attempt IN
    recovery[r].pc = "finish" /\ Owns(a) /\ status[a] \in Active => nextSeq[a] = SpoolNext(a)

\* A replay that ends normally ends there.
LEMMA ReplayEnds ==
  ASSUME DeliveryInv, Flow, Written, Readable, DeliveryNext, NEW r \in Recoverers, RecoveryStep(r),
         recovery[r].pc \in {"replay", "drop", "forget"}, recovery'[r].pc = "finish",
         NEW a \in Attempts, a = recovery[r].attempt, Owns(a), status[a] \in Active
  PROVE  nextSeq[a] = SpoolNext(a)
<1>0. /\ nextSeq[a] \in Nat /\ nextSeq[a] <= SpoolNext(a) /\ acked[a] < nextSeq[a]
      /\ SpoolNext(a) \in Nat /\ acked[a] \in Int
      /\ recovery \in [Recoverers -> Recoveries] /\ recovery[r].through \in Int
  BY BoundsAssumption DEF DeliveryInv, JournalInv, TypeOK, StreamType, Flow, Recoveries
<1>1. Unacked(a) = {} => nextSeq[a] = SpoolNext(a)
  BY <1>0 DEF Unacked
<1>2. ASSUME NEW pc, NEW v, pc # "finish",
             \/ recovery' = [recovery EXCEPT ![r].pc = pc]
             \/ recovery' = [recovery EXCEPT ![r].pc = pc, ![r].through = v]
             \/ recovery' = [recovery EXCEPT ![r].pc = pc, ![r].cmd = v]
      PROVE  FALSE
  <2>1. recovery[r] \in Recoveries
    BY <1>0
  <2>2. /\ [recovery[r] EXCEPT !.pc = pc].pc = pc
        /\ [recovery[r] EXCEPT !.pc = pc, !.through = v].pc = pc
        /\ [recovery[r] EXCEPT !.pc = pc, !.cmd = v].pc = pc
    BY <2>1 DEF Recoveries
  <2>3. QED
    BY <1>0, <1>2, <2>2
<1>3. CASE ReplayBatch(r)
  <2>1. Unacked(a) # {}
    BY <1>3 DEF ReplayBatch
  <2>2. Accepts(a, Batch(a))
    BY <2>1, BatchAccepted
  <2>3. QED
    BY <1>2, <1>3, <2>2 DEF ReplayBatch
<1>4. CASE DropBatch(r)
  <2>1. recovery[r].through < SpoolNext(a)
    BY <1>0, <1>4 DEF DropBatch, At, Flow
  <2>2. QED
    BY <1>2, <1>4, <2>1 DEF DropBatch, GoTo
<1>5. ASSUME NEW c \in Commands, ReplayReceipt(r, c) PROVE nextSeq[a] = SpoolNext(a)
  BY <1>1, <1>5 DEF ReplayReceipt
<1>6. CASE DropReceipt(r)
  BY <1>2, <1>6 DEF DropReceipt
<1>7. CASE ReplayDone(r)
  BY <1>1, <1>7 DEF ReplayDone
<1>8. ASSUME NEW valid \in BOOLEAN, NEW stopped \in BOOLEAN, FinishRecovery(r, valid, stopped) PROVE FALSE
  BY <1>8 DEF FinishRecovery, At
<1>9. QED
  BY <1>3, <1>4, <1>5, <1>6, <1>7, <1>8, ReadableStep DEF RecoveryStep

\* An attempt that is current and active after a step, and not new, was so before.
LEMMA StillActive ==
  ASSUME DeliveryInv, [Next]_vars, NEW a \in 1 .. current, Owns(a)', status'[a] \in Active
  PROVE  Owns(a) /\ status[a] \in Active
<1>1. JournalInv /\ TypeOK /\ SingleActiveAttempt
  BY DEF DeliveryInv, JournalInv
<1>2. Owns(a)
  BY <1>1, CurrentStep DEF Owns
<1>3. status[a] \in Terminal => status'[a] = status[a]
  BY <1>1, <1>2, EvidenceStep DEF EvidenceKept, vars, Owns
<1>4. status[a] # "absent"
  BY <1>1, <1>2 DEF SingleActiveAttempt, Owns, TypeOK
<1>5. status[a] \in Active \cup Terminal \cup {"absent"}
  BY <1>1, <1>2 DEF TypeOK, Owns
<1>6. status[a] \notin Terminal
  BY <1>3 DEF Active, Terminal, Final
<1>7. QED
  BY <1>2, <1>4, <1>5, <1>6

\* Every recovery reaches its last step with the spool delivered.
LEMMA CaughtUpStep ==
  ASSUME DeliveryInv, DeliveryInv', Flow, Flow', Written, Readable, Claimed, CaughtUp, ~Replicas, DeliveryNext
  PROVE  CaughtUp'
<1> SUFFICES ASSUME NEW r \in Recoverers, NEW a, a = recovery'[r].attempt, recovery'[r].pc = "finish",
                    Owns(a)', status'[a] \in Active
             PROVE  nextSeq'[a] = SpoolNext(a)'
  BY DEF CaughtUp
<1>0. /\ [Next]_vars /\ a \in Attempts /\ TypeOK'
      /\ current \in Nat /\ current' \in {current, current + 1}
  BY JournalStep, CurrentStep DEF DeliveryInv, JournalInv, Owns
<1>1. CASE recovery[r].pc # "idle" /\ recovery[r].attempt = a
           /\ (recovery[r].pc = "finish" \/ (RecoveryStep(r) /\ recovery[r].pc \in {"replay", "drop", "forget"}))
  <2>1. a \in 1 .. current
    BY <1>1 DEF DeliveryInv, Place
  <2>2. Owns(a) /\ status[a] \in Active
    BY <1>0, <2>1, StillActive
  <2>3. nextSeq[a] = SpoolNext(a)
    <3>1. CASE recovery[r].pc = "finish"
      BY <1>1, <2>2, <3>1 DEF CaughtUp
    <3>2. CASE recovery[r].pc # "finish"
      BY <1>0, <1>1, <2>2, <3>2, ReplayEnds
    <3>3. QED
      BY <3>1, <3>2
  <2>4. SpoolNext(a)' = SpoolNext(a)
    BY <1>0, <1>1, SpoolClosed DEF Claimed, Left, Ended
  <2>5. nextSeq'[a] >= nextSeq[a] /\ nextSeq'[a] <= SpoolNext(a)'
    BY <1>0, PrefixStep
  <2>6. nextSeq[a] \in Int /\ nextSeq'[a] \in Int
    BY <1>0 DEF TypeOK, DeliveryInv, JournalInv
  <2>7. QED
    BY <2>3, <2>4, <2>5, <2>6
<1>2. CASE JobRecovers(r) /\ a = r /\ ~Owns(r)
  <2>1. current' = current
    BY <1>2 DEF JobRecovers, vars
  <2>2. QED
    BY <1>0, <1>2, <2>1 DEF Owns
<1>3. CASE recovery'[r] = recovery[r]
  BY <1>1, <1>3
<1>4. RecoveryMove(r)
  BY RecoveryMoves
<1>5. QED
  BY <1>1, <1>2, <1>3, <1>4 DEF RecoveryMove
-----------------------------------------------------------------------------
(* Lost attempts                                                           *)

\* An attempt that is declared lost has no verdict in its spool, and nobody is left
\* to write one.
LostWithoutVerdict ==
  \A a \in Attempts : status[a] = "lost" =>
    /\ runner[a].phase = "gone"
    /\ \A n \in DOMAIN spool[a] : spool[a][n].kind # "run.finished"

\* Only a failed spawn and the last step of a recovery declare an attempt lost.
LEMMA LostMoves ==
  ASSUME DeliveryInv, DeliveryNext, NEW p \in Attempts, status[p] # "lost", status'[p] = "lost"
  PROVE  /\ Owns(p) /\ status[p] \in Active
         /\ \/ \E left \in BOOLEAN : SpawnFails(p, left)
            \/ \E r \in Recoverers, valid, stopped \in BOOLEAN :
                 FinishRecovery(r, valid, stopped) /\ recovery[r].attempt = p
<1> DEFINE Known == /\ Owns(p) /\ status[p] \in Active
                    /\ \/ \E left \in BOOLEAN : SpawnFails(p, left)
                       \/ \E r \in Recoverers, valid, stopped \in BOOLEAN :
                            FinishRecovery(r, valid, stopped) /\ recovery[r].attempt = p
<1>0. /\ status \in [Attempts -> Active \cup Terminal \cup {"absent"}] /\ StreamType /\ TypeOK
  BY DEF DeliveryInv, JournalInv, TypeOK
<1>1. ASSUME UNCHANGED status PROVE FALSE
  BY <1>1
<1>2. ASSUME NEW a, NEW valid \in BOOLEAN, FinishInterrupted(a, valid)
      PROVE  a = p /\ Owns(p) /\ status[p] \in Active
  BY <1>0, <1>2 DEF FinishInterrupted, Owns
<1>3. ASSUME NEW a, NEW b \in Batches, IngestEvents(a, b) PROVE FALSE
  <2>1. b.body[b.last] \in Bodies
    BY BatchShape
  <2>2. Finishes(b) => b.body[b.last].status # "lost"
    BY <2>1, BodiesAssumption DEF Finishes, Final
  <2>3. status[a] \in Active
    BY <1>3 DEF IngestEvents, Accepts, NewRecordsFit
  <2>4. StatusAfter(a, b) # "lost"
    BY <2>2, <2>3 DEF StatusAfter, Active
  <2>5. a \in Attempts /\ status' = [status EXCEPT ![a] = StatusAfter(a, b)]
    BY <1>3 DEF IngestEvents, Accepts, Owns
  <2>6. QED
    BY <1>0, <2>4, <2>5
<1>4. ASSUME NEW a \in Attempts, Launch(a) PROVE FALSE
  BY <1>0, <1>4 DEF Launch, CreateAttempt
<1>5. ASSUME NEW a \in Attempts, NEW c \in Commands, QueueCommand(a, c) PROVE FALSE
  BY <1>0, <1>5 DEF QueueCommand
<1>6. ASSUME NEW a \in Attempts, NEW left \in BOOLEAN, SpawnFails(a, left) PROVE Known
  <2>1. FinishInterrupted(a, FALSE)
    BY <1>1, <1>6 DEF SpawnFails, vars
  <2>2. a = p /\ Owns(p) /\ status[p] \in Active
    BY <1>2, <2>1
  <2>3. QED
    BY <1>6, <2>2, Zenon
<1>7. ASSUME NEW r \in Recoverers, NEW valid \in BOOLEAN, NEW stopped \in BOOLEAN,
             FinishRecovery(r, valid, stopped)
      PROVE  Known
  <2>1. FinishInterrupted(recovery[r].attempt, valid)
    BY <1>1, <1>7 DEF FinishRecovery, vars
  <2>2. QED
    BY <1>2, <1>7, <2>1
<1> HIDE DEF Known
<1>8. ASSUME NEW a \in Attempts, Launch(a) \/ SpawnStep(a) \/ StartupStep(a) \/ MainStep(a) PROVE Known
  BY <1>1, <1>4, <1>6, <1>8 DEF SpawnStep, SpawnSucceeds, StartupStep, FirstHeartbeat, FirstHeartbeatLost,
     FirstHeartbeatRejected, Heartbeat, Prepare, PrepareConfiguration, Start, StartupFails, MainStep,
     ConnectorRecord, ConnectorFinishes, ConsumerDone, RunFails, Deadline, GraceEnds, CloseConnector,
     EmitArtifact, JournalVerdict, LeaveRun, vars
<1>9. ASSUME NEW a \in Attempts, DeliveryStep(a) \/ ControlStep(a) \/ JobRecovers(a) \/ ReconcileStep(a)
             \/ SweepContainer(a) \/ \E left \in BOOLEAN : Crash(a, left)
      PROVE  FALSE
  BY <1>1, <1>9 DEF DeliveryStep, SendBatch, GiveUp, TakeAnswer, ControlStep, SendReceipt, Poll, Heartbeat,
     AcknowledgeCommand, ControlRejected, UseFirstHeartbeat, BeginCommand, SendControl, FinishCommand,
     ListDone, JobRecovers, ReconcileStep, Reconcile, SweepContainer, Crash, vars
<1>10. ASSUME NEW r \in Recoverers, RecoveryStep(r) PROVE Known
  <2>1. ASSUME ReplayBatch(r) PROVE FALSE
    <3>1. /\ Unacked(recovery[r].attempt) # {} /\ (UNCHANGED vars \/ IngestEvents(recovery[r].attempt, Batch(recovery[r].attempt)))
      BY <2>1 DEF ReplayBatch
    <3>2. IngestEvents(recovery[r].attempt, Batch(recovery[r].attempt))
      BY <1>1, <3>1 DEF vars
    <3>3. recovery[r].attempt \in Attempts
      BY <3>2 DEF IngestEvents, Accepts, Owns
    <3>4. QED
      BY <1>0, <1>3, <3>1, <3>2, <3>3, BatchIsRun
  <2>2. QED
    BY <1>1, <1>7, <1>10, <2>1 DEF RecoveryStep, DropBatch, ReplayReceipt, AcknowledgeCommand,
       DropReceipt, ReplayDone, ReplayFails, vars
<1>11. ASSUME NEW m \in wire, NEW again \in BOOLEAN, HandleEvents(m, again) PROVE FALSE
  BY <1>0, <1>1, <1>3, <1>11 DEF HandleEvents, StreamType, vars
<1>12. Known
  BY <1>1, <1>5, <1>8, <1>9, <1>10, <1>11 DEF DeliveryNext, Environment, HeartbeatAges, ArchiveResults,
     ReconcilerCrash, vars
<1>13. QED
  BY <1>12 DEF Known

\* No step declares an attempt lost behind its verdict.
LEMMA LostStep ==
  ASSUME DeliveryInv, Flow, Written, Claimed, CaughtUp, LostWithoutVerdict, DeliveryNext
  PROVE  LostWithoutVerdict'
<1> SUFFICES ASSUME NEW p \in Attempts, status'[p] = "lost"
             PROVE  /\ runner'[p].phase = "gone"
                    /\ \A n \in DOMAIN spool'[p] : spool'[p][n].kind # "run.finished"
  BY DEF LostWithoutVerdict
<1>0. /\ JournalInv /\ TypeOK /\ StreamType /\ runner \in [Attempts -> RunnerStates]
  BY DEF DeliveryInv, JournalInv, StreamType
<1>1. CASE status[p] = "lost"
  <2>1. runner[p].phase = "gone" /\ \A n \in DOMAIN spool[p] : spool[p][n].kind # "run.finished"
    BY <1>1 DEF LostWithoutVerdict
  <2>2. QED
    BY <2>1, PhaseOrder, SpoolClosed DEF Ended
<1>2. ASSUME status[p] # "lost", NEW left \in BOOLEAN, SpawnFails(p, left)
      PROVE  /\ runner'[p].phase = "gone"
             /\ \A n \in DOMAIN spool'[p] : spool'[p][n].kind # "run.finished"
  <2>1. runner[p].phase = "spawning" /\ Move(p, "gone") /\ spool' = spool
    BY <1>2 DEF SpawnFails, disk
  <2>2. runner'[p].phase = "gone"
    BY <1>0, <2>1, ChangedFields DEF Move, Passes, Looks
  <2>3. QED
    BY <2>1, <2>2 DEF Written, Ended
<1>3. ASSUME Owns(p), status[p] \in Active, NEW r \in Recoverers, NEW valid \in BOOLEAN, NEW stopped \in BOOLEAN,
             FinishRecovery(r, valid, stopped), recovery[r].attempt = p
      PROVE  /\ runner'[p].phase = "gone"
             /\ \A n \in DOMAIN spool'[p] : spool'[p][n].kind # "run.finished"
  <2>1. /\ recovery[r].pc = "finish" /\ spool' = spool
        /\ IF r = p THEN Forget(p, "gone") ELSE UNCHANGED runner
    BY <1>3 DEF FinishRecovery, At, disk
  <2>2. nextSeq[p] = SpoolNext(p)
    BY <1>3, <2>1 DEF CaughtUp
  <2>3. /\ DOMAIN rows[p] = DOMAIN spool[p]
        /\ \A n \in DOMAIN rows[p] : rows[p][n] = spool[p][n]
    BY <1>0, <2>2 DEF TypeOK, StreamType, Flow
  <2>4. status[p] \notin Final
    BY <1>3 DEF Active, Final
  <2>5. \A n \in DOMAIN spool'[p] : spool'[p][n].kind # "run.finished"
    BY <1>0, <2>1, <2>3, <2>4, NoFinishedRow
  <2>6. runner'[p].phase = "gone"
    <3>1. CASE r = p
      <4>1. runner' = [runner EXCEPT ![p] = [NoRunner EXCEPT !.phase = "gone"]]
        BY <2>1, <3>1 DEF Forget
      <4>2. [NoRunner EXCEPT !.phase = "gone"].phase = "gone"
        BY DEF NoRunner
      <4>3. QED
        BY <1>0, <4>1, <4>2
    <3>2. CASE r # p
      BY <1>3, <2>1, <3>2 DEF Claimed
    <3>3. QED
      BY <3>1, <3>2
  <2>7. QED
    BY <2>5, <2>6
<1>4. QED
  BY <1>1, <1>2, <1>3, LostMoves

-----------------------------------------------------------------------------
(* The evidence is delivered                                               *)

\* What is in the spools and where the recoveries are, as every step keeps it.
RecoveryInv == Flow /\ Written /\ Readable /\ Claimed /\ CaughtUp /\ LostWithoutVerdict

\* It holds before anything has been launched.
LEMMA RecoveryInit ==
  ASSUME MaxFaults = 0, DeliveryInit, DeliveryInv
  PROVE  RecoveryInv
<1>1. \A a \in Attempts : DOMAIN spool[a] = {} /\ SpoolNext(a) \in Nat /\ status[a] = "absent"
  BY BoundsAssumption DEF DeliveryInv, StreamType, DeliveryInit, Init
<1>2. \A r \in Recoverers : recovery[r].pc = "idle"
  BY DEF DeliveryInit, NoRecovery
<1>3. Flow
  <2>1. NoAnswer.kind = "none"
    BY DEF NoAnswer
  <2>2. QED
    BY <1>1, <1>2, <2>1 DEF DeliveryInit, Init, Flow
<1>4. Written /\ LostWithoutVerdict
  BY <1>1 DEF Written, LostWithoutVerdict
<1>5. Readable
  BY DEF DeliveryInit, Readable
<1>6. Claimed /\ CaughtUp
  BY <1>2, BoundsAssumption DEF Claimed, CaughtUp, DeliveryInit, Init, Attempts
<1>7. QED
  BY <1>3, <1>4, <1>5, <1>6 DEF RecoveryInv

\* Every step of one reconciling process and its runners keeps it.
LEMMA RecoveryInvStep ==
  ASSUME ~Replicas, DeliveryInv, DeliveryInv', RecoveryInv, [DeliveryNext]_allVars
  PROVE  RecoveryInv'
<1>1. Flow'
  BY FlowStep DEF RecoveryInv
<1>2. CASE DeliveryNext
  BY <1>1, <1>2, WrittenStep, ReadableStep, ClaimedStep, CaughtUpStep, LostStep DEF RecoveryInv
<1>3. CASE UNCHANGED allVars
  <2>1. UNCHANGED <<current, status, nextSeq, runner, spool, recovery, budget>>
    BY <1>3 DEF allVars, vars, runnerVars, disk
  <2>2. \A a : SpoolNext(a)' = SpoolNext(a)
    BY <2>1 DEF SpoolNext
  <2>3. QED
    BY <1>1, <2>1, <2>2 DEF RecoveryInv, Written, Readable, Claimed, CaughtUp, LostWithoutVerdict, Owns
<1>4. QED
  BY <1>2, <1>3

\* With one reconciling process and readable journals the server stores what the
\* spool holds, in order and before the spool forgets it, and never declares an
\* attempt lost whose verdict is in its spool: no crash of a runner or of the
\* reconciler, and no lost, repeated or delayed delivery, changes that.
THEOREM EvidenceIsDelivered ==
  ASSUME ~Replicas, MaxFaults = 0
  PROVE  DeliverySpec => []EvidenceDelivered
<1>1. DeliveryInit /\ DeliveryInv => RecoveryInv
  BY RecoveryInit
<1>2. DeliveryInv /\ DeliveryInv' /\ RecoveryInv /\ [DeliveryNext]_allVars => RecoveryInv'
  BY RecoveryInvStep
<1>3. RecoveryInv => DurableVerdictKept
  BY DEF RecoveryInv, LostWithoutVerdict, DurableVerdictKept
<1>4. DeliverySpec => []RecoveryInv
  BY <1>1, <1>2, DeliveryInvariant, PTL DEF DeliverySpec
<1>5. JournalMatchesSpool /\ DurableVerdictKept => EvidenceDelivered
  BY DEF EvidenceDelivered
<1>6. QED
  BY <1>3, <1>4, <1>5, JournalIsSpoolPrefix, PTL

-----------------------------------------------------------------------------
(* Commands.  A command reaches the connector at most once, an abort that  *)
(* is answered before the start reaches none, and the receipts of spool    *)
(* and server agree: for every number of commands and attempts, with or    *)
(* without a reconciler beside the runner's process.  A command is         *)
(* followed through the list of its runner, the ledger of the spool, the   *)
(* connector and the server's row.                                         *)

Unstarted == {"none", "spawning", "starting", "preparing", "prepared"}

\* A run that executes no command any more, or never will.
Barred(s) ==
  (s.phase = "preparing" /\ s.cancelled) \/ s.phase \in {"closing", "finalizing"} \cup Ended

\* What holds between a run, the connector's state, the executions of one of its
\* commands and the receipts of that in spool and server: it is executed at most
\* once, while its row in the ledger, its receipt or the end of the control task
\* keeps it from being taken up again; taken up behind a receipt only by a run that
\* is barred; and answered "before start" only for such a run.
CommandIn(c, s, state, effect, row, receipt) ==
  /\ s.doing = c => effect = IF s.sent THEN 1 ELSE 0
  /\ c \in s.todo => effect = 0 /\ s.doing # c
  /\ effect # 0 => /\ s.phase \notin Unstarted
                   /\ \/ s.doing = c /\ s.sent
                      \/ row \in Receipts
                      \/ receipt # "none"
                      \/ s.control = "off"
  /\ c \in s.todo \/ s.doing = c => (row \in Receipts \/ receipt # "none" => Barred(s))
  /\ "before_start" \in {row, receipt} => effect = 0 /\ state # "busy" /\ Barred(s)
  /\ row \in Receipts => receipt \in {"none", row}
  /\ row # "absent" \/ receipt # "none" => s.phase \notin {"none", "spawning", "starting"}

CommandAt(a, c) == CommandIn(c, runner[a], container[a], effects[c], ledger[c], command[c].receipt)

\* Nothing is sent for no command, and a connector executes only after its start.
Idle(a) ==
  /\ runner[a].doing = NoId => ~runner[a].sent
  /\ runner[a].phase \in Unstarted => container[a] # "busy"

Tracked ==
  /\ effects \in [Commands -> {0, 1}]
  /\ \A a \in Attempts : Idle(a)
  /\ \A c \in Commands : command[c].attempt \in Attempts => CommandAt(command[c].attempt, c)
  /\ \A c \in Commands : command[c].attempt \notin Attempts =>
       effects[c] = 0 /\ ledger[c] = "absent" /\ command[c].receipt = "none"
  /\ \A r \in Recoverers : recovery[r].pc = "forget" =>
       recovery[r].cmd \in Commands /\ command[recovery[r].cmd].receipt # "none"
-----------------------------------------------------------------------------
(* What a step changes                                                     *)

\* The steps that hand a command over.
Handover(p) ==
  \/ FirstHeartbeat(p)
  \/ \E answered \in BOOLEAN : Poll(p, answered)
  \/ \E d \in Commands : BeginCommand(p, d)
  \/ SendControl(p)
  \/ \E receipt \in Receipts : FinishCommand(p, receipt)

Steps ==
  {<<"none", "spawning">>, <<"spawning", "starting">>, <<"spawning", "gone">>, <<"starting", "leaving">>,
   <<"starting", "preparing">>, <<"preparing", "prepared">>, <<"prepared", "running">>,
   <<"running", "expiring">>, <<"closing", "finalizing">>, <<"finalizing", "flushing">>}

\* The run goes on with the same commands.
Goes(s, t) ==
  /\ t.todo = s.todo /\ t.doing = s.doing /\ t.sent = s.sent
  /\ s.control = "off" => t.control = "off" \/ s.phase \in Unstarted
  /\ t.phase # s.phase => <<s.phase, t.phase>> \in Steps
  /\ s.phase = "preparing" /\ t.phase = "prepared" => ~s.cancelled
  /\ t.cancelled = s.cancelled \/ t.phase = "expiring"

\* The run stops, and its control task with it.
Stops(t) ==
  /\ t.phase \in {"closing", "leaving", "gone"}
  /\ t.todo = {} /\ t.doing = NoId /\ ~t.sent /\ t.control = "off"

Quiet(a) ==
  /\ \/ runner'[a] = runner[a]
     \/ Goes(runner[a], runner'[a])
     \/ Stops(runner'[a])
  /\ container'[a] = "busy" => container[a] = "busy" \/ runner'[a].phase = "running"

\* A receipt reaches the server, a receipt the server has leaves the spool.
ReceiptMove(c) ==
  \/ ledger'[c] = ledger[c] /\ command'[c].receipt = command[c].receipt
  \/ /\ ledger[c] \in Receipts /\ command[c].receipt \in {"none", ledger[c]}
     /\ command'[c].receipt = ledger[c] /\ ledger'[c] \in {ledger[c], "absent"}
  \/ /\ command[c].receipt # "none" /\ command'[c].receipt = command[c].receipt
     /\ ledger'[c] = "absent"

\* The record a runner's step makes, field by field.
LEMMA ChangedCommands ==
  ASSUME NEW s \in RunnerStates, NEW phase, NEW v, NEW todo, NEW c, NEW stop, phase # s.phase => <<s.phase, phase>> \in Steps,
         s.phase = "preparing" /\ phase = "prepared" => ~s.cancelled
  PROVE  /\ Goes(s, [s EXCEPT !.phase = phase])
         /\ Goes(s, [s EXCEPT !.delivering = FALSE])
         /\ Goes(s, [s EXCEPT !.outcome = v])
         /\ Goes(s, [s EXCEPT !.phase = phase, !.failure = v])
         /\ phase = "expiring" => Goes(s, [s EXCEPT !.phase = phase, !.cancelled = TRUE])
         /\ s.control # "off" => Goes(s, [s EXCEPT !.control = v])
         /\ phase = "preparing" /\ s.phase = "starting" =>
              Goes(s, [s EXCEPT !.phase = "preparing", !.delivering = TRUE, !.control = v])
BY DEF RunnerStates, Goes, Unstarted, Steps

\* The record of a run that stops.
LEMMA StoppedState ==
  ASSUME NEW s \in RunnerStates, NEW why, NEW phase \in {"leaving", "gone"}
  PROVE  /\ Stops([s EXCEPT !.phase = "closing", !.failure = why, !.control = "off", !.todo = {},
                            !.doing = NoId, !.sent = FALSE])
         /\ Stops([NoRunner EXCEPT !.phase = phase])
BY DEF RunnerStates, Stops, NoRunner

\* A step that hands no command over leaves every run with its commands, or stops it.
LEMMA QuietRuns ==
  ASSUME DeliveryInv, DeliveryNext, \A p \in Attempts : ~Handover(p), NEW a \in Attempts
  PROVE  Quiet(a)
<1> DEFINE Calm == \A q \in Attempts : container'[q] = "busy" => container[q] = "busy"
<1>0. /\ runner \in [Attempts -> RunnerStates] /\ container \in [Attempts -> Up \cup {"none", "down"}]
      /\ \A p \in Attempts : p = current + 1 => runner[p].phase = "none"
      /\ \A r \in Recoverers : recovery[r].pc # "idle" => recovery[r].attempt \in Attempts
  <2>1. /\ StreamType /\ Place /\ current \in 0 .. MaxAttempts /\ MaxAttempts \in Nat
    BY BoundsAssumption DEF DeliveryInv, JournalInv, TypeOK
  <2>2. QED
    BY <2>1 DEF StreamType, Place, NoRunner, Attempts
<1>1. ASSUME UNCHANGED runner, Calm PROVE Quiet(a)
  BY <1>1 DEF Quiet
<1>2. ASSUME NEW p \in Attempts, NEW t, runner' = [runner EXCEPT ![p] = t], Goes(runner[p], t) \/ Stops(t),
             Calm \/ (container' = [container EXCEPT ![p] = "busy"] /\ t.phase = "running")
      PROVE  Quiet(a)
  <2>1. CASE p = a
    BY <1>0, <1>2, <2>1 DEF Quiet
  <2>2. CASE p # a
    BY <1>0, <1>2, <2>2 DEF Quiet
  <2>3. QED
    BY <2>1, <2>2
<1>3. ASSUME UNCHANGED container PROVE Calm
  BY <1>3
<1>4. ASSUME NEW p \in Attempts, NEW state \in {"idle", "down"},
             container' = container \/ container' = [container EXCEPT ![p] = state]
      PROVE  Calm
  BY <1>0, <1>4
<1> HIDE DEF Calm
<1>5. ASSUME NEW p \in Attempts, NEW phase, Move(p, phase), <<runner[p].phase, phase>> \in Steps,
             runner[p].phase = "preparing" => ~runner[p].cancelled,
             Calm \/ (container' = [container EXCEPT ![p] = "busy"] /\ phase = "running")
      PROVE  Quiet(a)
  <2> DEFINE t == [runner[p] EXCEPT !.phase = phase]
  <2>1. runner' = [runner EXCEPT ![p] = t] /\ t.phase = phase
    BY <1>0, <1>5 DEF Move, RunnerStates
  <2>2. Goes(runner[p], t)
    BY <1>0, <1>5, ChangedCommands
  <2> HIDE DEF t
  <2>3. QED
    BY <1>2, <1>5, <2>1, <2>2
<1>6. ASSUME NEW p \in Attempts, NEW phase \in {"leaving", "gone"}, Forget(p, phase), Calm PROVE Quiet(a)
  <2> DEFINE t == [NoRunner EXCEPT !.phase = phase]
  <2>1. runner' = [runner EXCEPT ![p] = t]
    BY <1>6 DEF Forget
  <2>2. Stops(t)
    BY <1>0, StoppedState
  <2> HIDE DEF t
  <2>3. QED
    BY <1>2, <1>6, <2>1, <2>2
<1>7. ASSUME NEW p \in Attempts, NEW why, Fail(p, why), Calm PROVE Quiet(a)
  <2> DEFINE t == [runner[p] EXCEPT !.phase = "closing", !.failure = why, !.control = "off", !.todo = {},
                                    !.doing = NoId, !.sent = FALSE]
  <2>1. runner' = [runner EXCEPT ![p] = t]
    BY <1>7 DEF Fail
  <2>2. Stops(t)
    BY <1>0, StoppedState
  <2> HIDE DEF t
  <2>3. QED
    BY <1>2, <1>7, <2>1, <2>2
<1>8. ASSUME NEW p \in Attempts, Launch(p) \/ SpawnStep(p) PROVE Quiet(a)
  <2>1. CASE Launch(p)
    BY <1>0, <1>3, <1>5, <2>1 DEF Launch, CreateAttempt, Steps
  <2>2. CASE SpawnSucceeds(p)
    BY <1>4, <1>5, <2>2 DEF SpawnSucceeds, Steps
  <2>3. ASSUME NEW left \in BOOLEAN, SpawnFails(p, left) PROVE Quiet(a)
    BY <1>4, <1>5, <2>3 DEF SpawnFails, Steps
  <2>4. QED
    BY <1>8, <2>1, <2>2, <2>3 DEF SpawnStep
<1>9. ASSUME NEW p \in Attempts, StartupStep(p) PROVE Quiet(a)
  <2> DEFINE s == runner[p]
  <2>1. CASE FirstHeartbeat(p)
    BY <2>1 DEF Handover
  <2>2. CASE FirstHeartbeatLost(p)
    <3> DEFINE t == [s EXCEPT !.phase = "preparing", !.delivering = TRUE, !.control = "flush"]
    <3>1. runner' = [runner EXCEPT ![p] = t] /\ s.phase = "starting" /\ Calm
      BY <1>3, <2>2 DEF FirstHeartbeatLost
    <3>2. Goes(s, t)
      BY <1>0, <3>1, ChangedCommands DEF Steps
    <3> HIDE DEF t
    <3>3. QED
      BY <1>2, <3>1, <3>2
  <2>3. CASE FirstHeartbeatRejected(p)
    BY <1>3, <1>5, <2>3 DEF FirstHeartbeatRejected, Steps
  <2>4. ASSUME NEW answered \in BOOLEAN, Prepare(p, answered) PROVE Quiet(a)
    BY <1>1, <1>3, <1>5, <2>4 DEF Prepare, Steps
  <2>5. CASE Start(p)
    BY <1>5, <2>5 DEF Start, Steps
  <2>6. CASE StartupFails(p)
    BY <1>3, <1>7, <2>6 DEF StartupFails
  <2>7. QED
    BY <1>9, <2>1, <2>2, <2>3, <2>4, <2>5, <2>6 DEF StartupStep
<1>10. ASSUME NEW p \in Attempts, MainStep(p) PROVE Quiet(a)
  <2> DEFINE s == runner[p]
  <2>1. ASSUME NEW verdict \in Verdicts, ConnectorFinishes(p, verdict) PROVE Quiet(a)
    <3> DEFINE t == [s EXCEPT !.outcome = verdict]
    <3>1. runner' = [runner EXCEPT ![p] = t] /\ Calm
      BY <1>3, <2>1 DEF ConnectorFinishes
    <3>2. Goes(s, t)
      BY <1>0 DEF Goes, RunnerStates
    <3> HIDE DEF t
    <3>3. QED
      BY <1>2, <3>1, <3>2
  <2>2. CASE Deadline(p)
    <3> DEFINE t == [s EXCEPT !.phase = "expiring", !.cancelled = TRUE]
    <3>1. runner' = [runner EXCEPT ![p] = t] /\ s.phase = "running" /\ Calm
      BY <1>3, <2>2 DEF Deadline
    <3>2. Goes(s, t)
      BY <1>0, <3>1, ChangedCommands DEF Steps
    <3> HIDE DEF t
    <3>3. QED
      BY <1>2, <3>1, <3>2
  <2>3. ASSUME NEW confirmed \in BOOLEAN, CloseConnector(p, confirmed) PROVE Quiet(a)
    <3>1. PICK why \in {s.failure, "shutdown"} :
            runner' = [runner EXCEPT ![p] = [@ EXCEPT !.phase = "finalizing", !.failure = why]]
      BY <2>3 DEF CloseConnector
    <3> DEFINE t == [s EXCEPT !.phase = "finalizing", !.failure = why]
    <3>2. runner' = [runner EXCEPT ![p] = t] /\ s.phase = "closing" /\ Calm
      BY <1>3, <1>4, <2>3, <3>1 DEF CloseConnector
    <3>3. Goes(s, t)
      BY <1>0, <3>2, ChangedCommands DEF Steps
    <3> HIDE DEF t
    <3>4. QED
      BY <1>2, <3>2, <3>3
  <2>4. ASSUME NEW collected \in BOOLEAN, JournalVerdict(p, collected) PROVE Quiet(a)
    BY <1>3, <1>5, <2>4 DEF JournalVerdict, Steps
  <2>5. CASE ConsumerDone(p) \/ RunFails(p) \/ GraceEnds(p)
    BY <1>3, <1>7, <2>5 DEF ConsumerDone, RunFails, GraceEnds
  <2>6. CASE LeaveRun(p)
    BY <1>3, <1>6, <2>6 DEF LeaveRun
  <2>7. CASE ConnectorRecord(p) \/ EmitArtifact(p)
    BY <1>1, <1>3, <2>7 DEF ConnectorRecord, EmitArtifact
  <2>8. QED
    BY <1>10, <2>1, <2>2, <2>3, <2>4, <2>5, <2>6, <2>7 DEF MainStep
<1>11. ASSUME NEW p \in Attempts, DeliveryStep(p) PROVE Quiet(a)
  <2> DEFINE s == runner[p]
             t == [s EXCEPT !.delivering = FALSE]
  <2>1. Goes(s, t)
    BY <1>0 DEF Goes, RunnerStates
  <2>2. Calm /\ (UNCHANGED runner \/ runner' = [runner EXCEPT ![p] = t])
    BY <1>3, <1>11 DEF DeliveryStep, SendBatch, GiveUp, TakeAnswer
  <2> HIDE DEF t
  <2>3. QED
    BY <1>1, <1>2, <2>1, <2>2
<1>12. ASSUME NEW p \in Attempts, ControlStep(p) PROVE Quiet(a)
  <2> DEFINE s == runner[p]
  <2>1. ASSUME NEW control, runner' = [runner EXCEPT ![p].control = control], s.control # "off", Calm
        PROVE  Quiet(a)
    <3> DEFINE t == [s EXCEPT !.control = control]
    <3>1. runner' = [runner EXCEPT ![p] = t]
      BY <2>1
    <3>2. Goes(s, t)
      BY <1>0, <2>1 DEF Goes, RunnerStates
    <3> HIDE DEF t
    <3>3. QED
      BY <1>2, <2>1, <3>1, <3>2
  <2>2. CASE ControlRejected(p) \/ UseFirstHeartbeat(p) \/ ListDone(p)
    BY <1>3, <2>1, <2>2 DEF ControlRejected, UseFirstHeartbeat, ListDone
  <2>3. ASSUME NEW c \in Commands, NEW answered \in BOOLEAN, SendReceipt(p, c, answered) PROVE Quiet(a)
    BY <1>1, <1>3, <2>3 DEF SendReceipt
  <2>4. QED
    BY <1>12, <2>2, <2>3 DEF ControlStep, Handover
<1>13. ASSUME NEW r \in Recoverers, RecoveryStep(r) PROVE Quiet(a)
  <2>1. ASSUME NEW valid \in BOOLEAN, NEW stopped \in BOOLEAN, FinishRecovery(r, valid, stopped)
        PROVE  Quiet(a)
    <3>1. /\ recovery[r].attempt \in Attempts
          /\ UNCHANGED runner \/ Forget(recovery[r].attempt, "gone")
          /\ container' \in {container, [container EXCEPT ![recovery[r].attempt] = "down"]}
      BY <1>0, <2>1 DEF FinishRecovery, At
    <3>2. QED
      BY <1>1, <1>4, <1>6, <3>1
  <2>2. QED
    BY <1>1, <1>3, <1>13, <2>1 DEF RecoveryStep, ReplayBatch, DropBatch, ReplayReceipt, DropReceipt, ReplayDone,
       ReplayFails
<1>14. ASSUME NEW p \in Attempts, NEW left \in BOOLEAN, Crash(p, left) PROVE Quiet(a)
  BY <1>4, <1>6, <1>14 DEF Crash
<1>15. ASSUME NEW p \in Attempts, JobRecovers(p) \/ ReconcileStep(p) \/ SweepContainer(p) PROVE Quiet(a)
  BY <1>1, <1>3, <1>4, <1>15 DEF JobRecovers, ReconcileStep, Reconcile, SweepContainer
<1>16. QED
  BY <1>1, <1>3, <1>8, <1>9, <1>10, <1>11, <1>12, <1>13, <1>14, <1>15 DEF DeliveryNext, Environment,
     runnerVars, HandleEvents, ReconcilerCrash

\* Then receipts pass from the spool to the server, and leave the spool behind that.
LEMMA QuietReceipts ==
  ASSUME DeliveryInv, Tracked, DeliveryNext, \A p \in Attempts : ~Handover(p), NEW c \in Commands
  PROVE  ReceiptMove(c) /\ UNCHANGED effects
<1> DEFINE Known == ReceiptMove(c) /\ UNCHANGED effects
           Kept == command'[c].receipt = command[c].receipt
<1>0. /\ TypeOK /\ ledger \in [Commands -> Receipts \cup {"absent", "executing"}]
      /\ recovery \in [Recoverers -> Recoveries]
  BY DEF DeliveryInv, JournalInv, StreamType
<1>1. ASSUME UNCHANGED ledger, UNCHANGED effects, Kept PROVE Known
  BY <1>1 DEF ReceiptMove
<1>2. ASSUME UNCHANGED command PROVE Kept
  BY <1>2
<1>3. ASSUME NEW a, Heartbeat(a) PROVE Kept
  <2>1. command'[c] \in {command[c], [command[c] EXCEPT !.status = "delivered"]}
    BY <1>3 DEF Heartbeat
  <2>2. QED
    BY <1>0, <2>1 DEF TypeOK
<1>4. ASSUME NEW a, command' \in {command, EndPending(a)} PROVE Kept
  <2>1. command'[c] \in {command[c], [command[c] EXCEPT !.status = "unknown"]}
    BY <1>4 DEF EndPending
  <2>2. QED
    BY <1>0, <2>1 DEF TypeOK
<1>5. ASSUME NEW a \in Attempts, NEW d \in Commands, QueueCommand(a, d) PROVE Kept
  BY <1>0, <1>5 DEF QueueCommand, TypeOK, NoCommand
<1>6. ASSUME NEW a, NEW valid \in BOOLEAN, FinishInterrupted(a, valid) PROVE Kept
  BY <1>4, <1>6 DEF FinishInterrupted
<1>7. ASSUME NEW a, NEW b, IngestEvents(a, b) PROVE Kept
  BY <1>4, <1>7 DEF IngestEvents
<1>8. ASSUME NEW a, NEW d \in Completed(a), AcknowledgeCommand(a, d, ledger[d]), UNCHANGED effects,
             UNCHANGED ledger \/ ledger' = [ledger EXCEPT ![d] = "absent"]
      PROVE  Known
  <2>1. d \in Commands /\ ledger[d] \in Receipts /\ command[d].receipt \in {"none", ledger[d]}
    BY <1>8 DEF Completed, AcknowledgeCommand, AckAccepts
  <2>2. CASE d = c
    <3>1. command'[c].receipt = ledger[c] /\ ledger'[c] \in {ledger[c], "absent"}
      BY <1>0, <1>8, <2>1, <2>2 DEF AcknowledgeCommand, TypeOK
    <3>2. QED
      BY <1>8, <2>1, <2>2, <3>1 DEF ReceiptMove
  <2>3. CASE d # c
    <3>1. Kept /\ ledger'[c] = ledger[c]
      BY <1>0, <1>8, <2>1, <2>3 DEF AcknowledgeCommand, TypeOK
    <3>2. QED
      BY <1>8, <3>1 DEF ReceiptMove
  <2>4. QED
    BY <2>2, <2>3
<1>9. ASSUME NEW r \in Recoverers, DropReceipt(r) PROVE Known
  <2>1. /\ UNCHANGED effects /\ UNCHANGED command
        /\ ledger' = [ledger EXCEPT ![recovery[r].cmd] = "absent"]
        /\ recovery[r].cmd \in Commands /\ command[recovery[r].cmd].receipt # "none"
    BY <1>9 DEF DropReceipt, At, vars, Tracked
  <2>2. CASE recovery[r].cmd = c
    BY <1>0, <2>1, <2>2 DEF ReceiptMove
  <2>3. CASE recovery[r].cmd # c
    BY <1>0, <2>1, <2>3 DEF ReceiptMove
  <2>4. QED
    BY <2>2, <2>3
<1> HIDE DEF Kept, Known
<1>10. ASSUME NEW a \in Attempts, Launch(a) \/ SpawnStep(a) \/ StartupStep(a) \/ MainStep(a) PROVE Known
  <2>1. ~FirstHeartbeat(a)
    BY DEF Handover
  <2>2. QED
    BY <1>1, <1>2, <1>3, <1>6, <1>10, <2>1 DEF Launch, CreateAttempt, SpawnStep, SpawnSucceeds, SpawnFails,
       StartupStep, FirstHeartbeatLost, FirstHeartbeatRejected, Prepare, PrepareConfiguration, Start,
       StartupFails, MainStep, ConnectorRecord, ConnectorFinishes, ConsumerDone, RunFails, Deadline,
       GraceEnds, CloseConnector, EmitArtifact, JournalVerdict, LeaveRun, vars, disk
<1>11. ASSUME NEW a \in Attempts, DeliveryStep(a) \/ JobRecovers(a) \/ ReconcileStep(a)
              \/ SweepContainer(a) \/ \E left \in BOOLEAN : Crash(a, left)
       PROVE  Known
  BY <1>1, <1>2, <1>11 DEF DeliveryStep, SendBatch, GiveUp, TakeAnswer, JobRecovers, ReconcileStep, Reconcile,
     SweepContainer, Crash, vars, disk
<1>12. ASSUME NEW a \in Attempts, ControlStep(a) PROVE Known
  <2>1. ASSUME NEW d \in Commands, NEW answered \in BOOLEAN, SendReceipt(a, d, answered) PROVE Known
    BY <1>8, <2>1 DEF SendReceipt
  <2>2. CASE ControlRejected(a) \/ UseFirstHeartbeat(a) \/ ListDone(a)
    BY <1>1, <1>2, <2>2 DEF ControlRejected, UseFirstHeartbeat, ListDone, vars, disk
  <2>3. QED
    BY <1>12, <2>1, <2>2 DEF ControlStep, Handover
<1>13. ASSUME NEW r \in Recoverers, RecoveryStep(r) PROVE Known
  <2>1. ASSUME NEW d \in Commands, ReplayReceipt(r, d) PROVE Known
    BY <1>1, <1>2, <1>8, <2>1 DEF ReplayReceipt, vars, disk
  <2>2. CASE ReplayBatch(r)
    BY <1>1, <1>2, <1>7, <2>2 DEF ReplayBatch, vars, disk
  <2>3. ASSUME NEW valid \in BOOLEAN, NEW stopped \in BOOLEAN, FinishRecovery(r, valid, stopped) PROVE Known
    BY <1>1, <1>2, <1>6, <2>3 DEF FinishRecovery, vars, disk
  <2>4. CASE DropBatch(r) \/ ReplayDone(r) \/ ReplayFails(r)
    BY <1>1, <1>2, <2>4 DEF DropBatch, ReplayDone, ReplayFails, vars, disk
  <2>5. QED
    BY <1>9, <1>13, <2>1, <2>2, <2>3, <2>4 DEF RecoveryStep
<1>14. ASSUME NEW m \in wire, NEW again \in BOOLEAN, HandleEvents(m, again) PROVE Known
  BY <1>1, <1>2, <1>7, <1>14 DEF HandleEvents, vars, disk
<1>15. ASSUME Environment \/ ReconcilerCrash PROVE Known
  BY <1>1, <1>2, <1>5, <1>15 DEF Environment, HeartbeatAges, ArchiveResults, ReconcilerCrash, runnerVars,
     vars, disk
<1>16. Known
  BY <1>10, <1>11, <1>12, <1>13, <1>14, <1>15 DEF DeliveryNext
<1>17. QED
  BY <1>16 DEF Known

\* What is true of a command stays so while its run goes on or stops, and its receipt
\* passes to the server.
LEMMA QuietCommand ==
  ASSUME NEW c \in Commands, NEW s \in RunnerStates, NEW t, NEW state, NEW state2, NEW effect, NEW row, NEW row2,
         NEW receipt, NEW receipt2, CommandIn(c, s, state, effect, row, receipt),
         t = s \/ Goes(s, t) \/ Stops(t),
         state2 = "busy" => state = "busy" \/ t.phase = "running",
         \/ row2 = row /\ receipt2 = receipt
         \/ row \in Receipts /\ receipt \in {"none", row} /\ receipt2 = row /\ row2 \in {row, "absent"}
         \/ receipt # "none" /\ receipt2 = receipt /\ row2 = "absent",
         s.doing = NoId => ~s.sent,
         s.phase \in {"none", "spawning", "starting"} => ~s.cancelled
  PROVE  CommandIn(c, t, state2, effect, row2, receipt2)
<1>1. c # NoId /\ "none" \notin Receipts /\ "absent" \notin Receipts
  BY DeliveryAssumption DEF Receipts
<1>2. ASSUME Barred(s) PROVE Barred(t) /\ (t = s \/ t.phase # "running") /\ s.phase # "running"
  <2>1. CASE t = s
    BY <1>2, <2>1 DEF Barred, Ended
  <2>2. CASE Goes(s, t)
    BY <1>2, <2>2 DEF Barred, Ended, Goes, Steps
  <2>3. CASE Stops(t)
    BY <1>2, <2>3 DEF Barred, Ended, Stops
  <2>4. QED
    BY <2>1, <2>2, <2>3
<1>3. /\ c \in t.todo => c \in s.todo /\ t.doing = s.doing
      /\ t.doing = c => s.doing = c /\ t.sent = s.sent
      /\ s.phase \notin Unstarted => t.phase \notin Unstarted
      /\ s.phase \notin {"none", "spawning", "starting"} => t.phase \notin {"none", "spawning", "starting"}
      /\ s.phase \notin Unstarted /\ s.control = "off" => t.control = "off"
      /\ s.doing = c /\ s.sent => (t.doing = c /\ t.sent) \/ t.control = "off"
  <2>1. CASE t = s
    BY <1>1, <2>1
  <2>2. CASE Goes(s, t)
    BY <1>1, <2>2 DEF Goes, Steps, Unstarted
  <2>3. CASE Stops(t)
    BY <1>1, <2>3 DEF Stops, Unstarted
  <2>4. QED
    BY <2>1, <2>2, <2>3
<1>4. /\ row2 \in Receipts => row \in Receipts /\ row2 = row
      /\ receipt # "none" => receipt2 = receipt
      /\ row \in Receipts => row2 \in Receipts \/ receipt2 # "none"
      /\ row2 \in Receipts \/ receipt2 # "none" => row \in Receipts \/ receipt # "none"
      /\ row2 # "absent" \/ receipt2 # "none" => row # "absent" \/ receipt # "none"
      /\ "before_start" \in {row2, receipt2} => "before_start" \in {row, receipt}
  BY <1>1 DEF CommandIn, Receipts
<1>5. row2 \in Receipts => receipt2 \in {"none", row2}
  BY <1>1, <1>4 DEF CommandIn
<1>6. QED
  BY <1>2, <1>3, <1>4, <1>5 DEF CommandIn
-----------------------------------------------------------------------------
(* The five steps that hand a command over                                 *)

\* A heartbeat changes neither whose a command is nor its receipt.
LEMMA HeartbeatKeeps ==
  ASSUME TypeOK, NEW p, Heartbeat(p), NEW c \in Commands
  PROVE  command'[c].attempt = command[c].attempt /\ command'[c].receipt = command[c].receipt
<1>1. command'[c] \in {command[c], [command[c] EXCEPT !.status = "delivered"]}
  BY DEF Heartbeat
<1>2. QED
  BY <1>1 DEF TypeOK

\* The run of another attempt hands its own commands over.
LEMMA HandoverElsewhere ==
  ASSUME DeliveryInv, Aborts, NEW p \in Attempts, Handover(p), NEW c \in Commands, command[c].attempt # p
  PROVE  ledger'[c] = ledger[c] /\ effects'[c] = effects[c]
<1>0. ledger \in [Commands -> Receipts \cup {"absent", "executing"}] /\ NoId \notin Commands
  BY DeliveryAssumption DEF DeliveryInv, StreamType
<1>1. c \notin Offered(p) /\ c \notin runner[p].todo /\ (runner[p].doing # NoId => runner[p].doing # c)
  BY DEF Aborts, OwnCommands, Offered, Pending
<1>2. CASE FirstHeartbeat(p)
  BY <1>1, <1>2 DEF FirstHeartbeat
<1>3. ASSUME NEW answered \in BOOLEAN, Poll(p, answered) PROVE ledger' = ledger /\ effects' = effects
  BY <1>3 DEF Poll, disk
<1>4. ASSUME NEW d \in Commands, BeginCommand(p, d) PROVE ledger'[c] = ledger[c] /\ effects' = effects
  BY <1>0, <1>1, <1>4 DEF BeginCommand
<1>5. CASE SendControl(p)
  BY <1>0, <1>1, <1>5 DEF SendControl, disk
<1>6. ASSUME NEW receipt \in Receipts, FinishCommand(p, receipt)
      PROVE  ledger'[c] = ledger[c] /\ effects' = effects
  BY <1>0, <1>1, <1>6 DEF FinishCommand
<1>7. QED
  BY <1>2, <1>3, <1>4, <1>5, <1>6 DEF Handover

\* The run hands over what it has not executed, and what is answered is not executed
\* any more.
LEMMA HandoverCommand ==
  ASSUME DeliveryInv, Aborts, Tracked, ReceiptStatus, NEW p \in Attempts, Handover(p), NEW c \in Commands,
         command[c].attempt = p
  PROVE  CommandAt(p, c)' /\ effects'[c] \in {0, 1}
<1> DEFINE s == runner[p]
           t == runner'[p]
           effect == effects[c]
           row == ledger[c]
           receipt == command[c].receipt
           Goal == /\ CommandIn(c, t, container'[p], effects'[c], ledger'[c], receipt)
                   /\ effects'[c] \in {0, 1}
<1>0. /\ runner \in [Attempts -> RunnerStates] /\ s \in RunnerStates
      /\ ledger \in [Commands -> Receipts \cup {"absent", "executing"}] /\ row \in Receipts \cup {"absent", "executing"}
      /\ effects \in [Commands -> {0, 1}] /\ effect \in {0, 1}
      /\ TypeOK /\ c # NoId
      /\ s.todo \subseteq Commands /\ s.doing \in Commands \cup {NoId}
  <2>1. StreamType /\ TypeOK
    BY DEF DeliveryInv, JournalInv
  <2>2. s \in RunnerStates
    BY <2>1 DEF StreamType
  <2>3. s.todo \subseteq Commands /\ s.doing \in Commands \cup {NoId}
    BY <2>2, Zenon DEF RunnerStates
  <2>4. QED
    BY <2>1, <2>2, <2>3, DeliveryAssumption DEF StreamType, Tracked
<1>1. CommandIn(c, s, container[p], effect, row, receipt) /\ Idle(p)
  BY DEF Tracked, CommandAt
<1>2. /\ s.doing # NoId => s.control = "work" /\ (s.doing \in AbortCommands => s.cancelled)
      /\ s.control # "off" => s.phase \in {"preparing", "prepared", "running", "expiring"}
      /\ s.phase \in {"none", "spawning", "starting"} => ~s.cancelled
  BY DEF Aborts, OwnCommands
<1>3. c \in Offered(p) => receipt = "none"
  BY DEF Offered, Pending, ReceiptStatus
<1>4. CASE FirstHeartbeat(p)
  <2>1. /\ s.phase = "starting" /\ row = "absent" /\ receipt = "none" /\ effect = 0 /\ effects'[c] = 0
        /\ s.doing = NoId /\ ~s.sent /\ container'[p] # "busy"
    BY <1>0, <1>1, <1>2, <1>4 DEF FirstHeartbeat, CommandIn, Idle, Unstarted
  <2>2. t = [s EXCEPT !.phase = "preparing", !.delivering = TRUE,
                      !.cancelled = Offered(p) \cap AbortCommands # {}, !.todo = Offered(p),
                      !.control = IF status[p] \in Terminal THEN "off" ELSE "first"]
    BY <1>0, <1>4 DEF FirstHeartbeat
  <2>3. /\ t.phase = "preparing" /\ t.todo = Offered(p) /\ t.doing = NoId /\ ~t.sent
        /\ t.cancelled = (Offered(p) \cap AbortCommands # {})
    BY <1>0, <2>1, <2>2 DEF RunnerStates
  <2>4. ledger'[c] = IF c \in Offered(p) \cap AbortCommands THEN "before_start" ELSE "absent"
    BY <1>4, <2>1 DEF FirstHeartbeat
  <2>5. ledger'[c] = "absent" \/ (ledger'[c] = "before_start" /\ Barred(t))
    BY <2>3, <2>4 DEF Barred
  <2> HIDE DEF s, t, row, receipt, effect
  <2>6. Goal
    BY <1>0, <2>1, <2>3, <2>5 DEF CommandIn, Unstarted, Receipts
  <2>7. QED
    BY <1>0, <1>4, <2>6, HeartbeatKeeps DEF CommandAt, FirstHeartbeat, s, t, receipt
<1>5. ASSUME NEW answered \in BOOLEAN, Poll(p, answered) PROVE Goal
  <2>1. /\ s.control = "flush" /\ s.doing = NoId /\ ~s.sent /\ row \notin Receipts
        /\ effects'[c] = effect /\ ledger'[c] = row /\ container'[p] = container[p]
    BY <1>1, <1>2, <1>5 DEF Poll, Completed, disk, Idle
  <2>2. CASE t = s
    BY <1>0, <1>1, <2>1, <2>2 DEF Idle
  <2>3. CASE t = [s EXCEPT !.todo = Offered(p),
                           !.control = IF status[p] \in Terminal THEN "off" ELSE "work"]
    <3>1. /\ t.phase = s.phase /\ t.cancelled = s.cancelled /\ t.doing = NoId /\ ~t.sent
          /\ t.todo = Offered(p)
      BY <1>0, <2>1, <2>3 DEF RunnerStates
    <3>2. effect # 0 => receipt # "none"
      BY <1>0, <1>1, <2>1 DEF CommandIn
    <3>3. Barred(s) => Barred(t)
      BY <3>1 DEF Barred
    <3> HIDE DEF s, t, row, receipt, effect
    <3>4. QED
      BY <1>0, <1>1, <1>3, <2>1, <3>1, <3>2, <3>3 DEF CommandIn, Idle, s
  <2>4. QED
    BY <1>0, <1>5, <2>2, <2>3 DEF Poll
<1>6. ASSUME NEW d \in Commands, BeginCommand(p, d) PROVE Goal
  <2>1. /\ s.control = "work" /\ s.doing = NoId /\ ~s.sent /\ d \in s.todo /\ ledger[d] = "absent"
        /\ effects'[c] = effect /\ container'[p] = container[p]
        /\ t = [s EXCEPT !.todo = s.todo \ {d}, !.doing = d, !.cancelled = s.cancelled \/ d \in AbortCommands]
    BY <1>0, <1>1, <1>6 DEF BeginCommand, Idle
  <2>2. /\ t.phase = s.phase /\ t.control = s.control /\ t.doing = d /\ ~t.sent /\ t.todo = s.todo \ {d}
        /\ s.cancelled => t.cancelled
    BY <1>0, <2>1 DEF RunnerStates
  <2>3. Barred(s) => Barred(t)
    BY <2>2 DEF Barred
  <2>4. ledger'[c] = IF c = d THEN "executing" ELSE row
    BY <1>0, <1>6 DEF BeginCommand
  <2> HIDE DEF s, t, row, receipt, effect
  <2>5. CASE c = d
    <3>1. /\ row = "absent" /\ effect = 0 /\ ledger'[c] = "executing" /\ c \in s.todo
          /\ t.phase \in Unstarted => container'[p] # "busy"
      BY <1>1, <2>1, <2>2, <2>4, <2>5 DEF CommandIn, Idle, s, row
    <3>2. /\ receipt # "none" => Barred(t)
          /\ receipt = "before_start" => container'[p] # "busy"
          /\ t.phase \notin {"none", "spawning", "starting"}
      BY <1>1, <1>2, <2>1, <2>2, <2>3, <3>1 DEF CommandIn
    <3>3. QED
      BY <2>1, <2>2, <2>5, <3>1, <3>2, DeliveryAssumption DEF CommandIn, Receipts
  <2>6. CASE c # d
    BY <1>0, <1>1, <2>1, <2>2, <2>3, <2>4, <2>6, DeliveryAssumption DEF CommandIn, Idle, s
  <2>7. QED
    BY <2>5, <2>6
<1>7. CASE SendControl(p)
  <2>1. /\ s.phase \in {"running", "expiring"} /\ s.doing # NoId /\ ~s.sent
        /\ t = [s EXCEPT !.sent = TRUE] /\ ledger'[c] = row /\ container'[p] = container[p]
        /\ effects' = [effects EXCEPT ![s.doing] = @ + 1] /\ UNCHANGED vars
    BY <1>0, <1>7 DEF SendControl, Started, disk
  <2>2. /\ t.phase = s.phase /\ t.control = s.control /\ t.doing = s.doing /\ t.sent /\ t.todo = s.todo
        /\ t.cancelled = s.cancelled
    BY <1>0, <2>1 DEF RunnerStates
  <2>3. ~Barred(s) /\ Barred(t) = Barred(s)
    BY <2>1, <2>2 DEF Barred, Ended
  <2>4. effects'[c] = IF c = s.doing THEN effect + 1 ELSE effect
    BY <1>0, <2>1
  <2> HIDE DEF s, t, row, receipt, effect
  <2>5. Goal
    BY <1>0, <1>1, <2>1, <2>2, <2>3, <2>4 DEF CommandIn, Idle, Unstarted, Receipts
  <2>6. QED
    BY <2>1, <2>5 DEF CommandAt, vars, s, t, receipt
<1>8. ASSUME NEW answered \in Receipts, FinishCommand(p, answered) PROVE Goal
  <2>1. /\ s.phase \in {"running", "expiring"} /\ s.doing # NoId /\ answered # "before_start"
        /\ t = [s EXCEPT !.doing = NoId, !.sent = FALSE] /\ container'[p] = container[p] /\ effects'[c] = effect
    BY <1>0, <1>8 DEF FinishCommand, Started
  <2>2. /\ t.phase = s.phase /\ t.control = s.control /\ t.doing = NoId /\ ~t.sent /\ t.todo = s.todo
        /\ t.cancelled = s.cancelled
    BY <1>0, <2>1 DEF RunnerStates
  <2>3. ~Barred(s) /\ Barred(t) = Barred(s)
    BY <2>1, <2>2 DEF Barred, Ended
  <2>4. ledger'[c] = IF c = s.doing THEN answered ELSE row
    BY <1>0, <1>8 DEF FinishCommand
  <2> HIDE DEF s, t, row, receipt, effect
  <2>5. QED
    BY <1>0, <1>1, <2>1, <2>2, <2>3, <2>4 DEF CommandIn, Idle, Unstarted, Receipts
<1>9. command'[c].receipt = receipt
  BY <1>0, HeartbeatKeeps DEF Handover, FirstHeartbeat, Poll, BeginCommand, SendControl, FinishCommand, vars
<1>10. Goal => CommandAt(p, c)' /\ effects'[c] \in {0, 1}
  <2> HIDE DEF receipt
  <2>1. QED
    BY <1>9 DEF CommandAt
<1> HIDE DEF Goal
<1>11. QED
  BY <1>4, <1>5, <1>6, <1>7, <1>8, <1>10 DEF Handover

\* Handing a command over starts nothing.
LEMMA HandoverIdle ==
  ASSUME DeliveryInv, Aborts, NEW p \in Attempts, Idle(p), Handover(p)
  PROVE  Idle(p)'
<1> DEFINE s == runner[p]
           t == runner'[p]
           Goal == /\ t.doing = NoId => ~t.sent
                   /\ t.phase \in Unstarted => container'[p] # "busy"
<1>0. /\ runner \in [Attempts -> RunnerStates] /\ s \in RunnerStates /\ NoId \notin Commands
      /\ s.doing = NoId => ~s.sent
      /\ s.phase \in Unstarted => container[p] # "busy"
  BY DeliveryAssumption DEF DeliveryInv, StreamType, Idle
<1>1. CASE FirstHeartbeat(p)
  <2>1. /\ s.phase = "starting" /\ container' = container
        /\ t = [s EXCEPT !.phase = "preparing", !.delivering = TRUE,
                         !.cancelled = Offered(p) \cap AbortCommands # {}, !.todo = Offered(p),
                         !.control = IF status[p] \in Terminal THEN "off" ELSE "first"]
    BY <1>0, <1>1 DEF FirstHeartbeat
  <2>2. t.doing = s.doing /\ t.sent = s.sent
    BY <1>0, <2>1 DEF RunnerStates
  <2> HIDE DEF s, t
  <2>3. Goal
    BY <1>0, <2>1, <2>2 DEF Unstarted, s
  <2>4. QED
    BY <2>3 DEF Idle, s, t
<1>2. ASSUME NEW answered \in BOOLEAN, Poll(p, answered) PROVE Goal
  <2>1. container' = container
    BY <1>2 DEF Poll
  <2>2. CASE runner' = runner
    BY <1>0, <2>1, <2>2
  <2>3. CASE t = [s EXCEPT !.todo = Offered(p), !.control = IF status[p] \in Terminal THEN "off" ELSE "work"]
    <3>1. t.doing = s.doing /\ t.sent = s.sent /\ t.phase = s.phase
      BY <1>0, <2>3 DEF RunnerStates
    <3> HIDE DEF s, t
    <3>2. QED
      BY <1>0, <2>1, <3>1
  <2>4. QED
    BY <1>0, <1>2, <2>2, <2>3 DEF Poll
<1>3. ASSUME NEW d \in Commands, BeginCommand(p, d) PROVE Goal
  BY <1>0, <1>3 DEF BeginCommand, RunnerStates
<1>4. ASSUME SendControl(p) PROVE Goal
  BY <1>0, <1>4 DEF SendControl, RunnerStates, disk
<1>5. ASSUME NEW receipt \in Receipts, FinishCommand(p, receipt) PROVE Goal
  BY <1>0, <1>5 DEF FinishCommand, RunnerStates
<1>6. Goal => Idle(p)'
  BY DEF Idle
<1> HIDE DEF Goal
<1>7. QED
  BY <1>1, <1>2, <1>3, <1>4, <1>5, <1>6 DEF Handover
-----------------------------------------------------------------------------
(* Every step                                                              *)

\* A recovery forgets a command only after the server has taken its receipt.
LEMMA ForgetMoves ==
  ASSUME DeliveryInv, DeliveryNext, NEW r \in Recoverers, recovery'[r].pc = "forget"
  PROVE  \/ recovery'[r] = recovery[r]
         \/ recovery'[r].cmd \in Commands /\ command'[recovery'[r].cmd].receipt # "none"
<1> DEFINE Goal == \/ recovery'[r] = recovery[r]
                   \/ recovery'[r].cmd \in Commands /\ command'[recovery'[r].cmd].receipt # "none"
<1>0. /\ recovery \in [Recoverers -> Recoveries] /\ TypeOK
      /\ NoRecovery.pc = "idle" /\ Attempts \subseteq Recoverers /\ 0 \in Recoverers
  BY BoundsAssumption DEF DeliveryInv, JournalInv, StreamType, NoRecovery, Attempts, Recoverers
<1>1. ASSUME UNCHANGED recovery PROVE Goal
  BY <1>1
<1>2. ASSUME NEW q \in Recoverers, NEW s, recovery' = [recovery EXCEPT ![q] = s], s.pc # "forget" PROVE Goal
  BY <1>0, <1>2
<1>3. ASSUME NEW q \in Recoverers, NEW pc \in {"replay", "drop", "finish"}, NEW through, NEW cmd,
             \/ recovery' = [recovery EXCEPT ![q].pc = pc]
             \/ recovery' = [recovery EXCEPT ![q].pc = pc, ![q].through = through]
             \/ recovery' = [recovery EXCEPT ![q].pc = pc, ![q].cmd = cmd]
      PROVE  Goal
  <2>1. recovery[q] \in Recoveries
    BY <1>0
  <2>2. q # r => recovery'[r] = recovery[r]
    BY <1>0, <1>3
  <2>3. recovery'[q].pc = pc
    BY <1>0, <1>3, <2>1 DEF Recoveries
  <2>4. QED
    BY <2>2, <2>3
<1>4. ASSUME NEW q \in Recoverers, NEW c \in Commands, ReplayReceipt(q, c) PROVE Goal
  <2>1. CASE GoTo(q, "finish")
    BY <1>3, <2>1 DEF GoTo
  <2>2. CASE /\ AcknowledgeCommand(recovery[q].attempt, c, ledger[c])
             /\ recovery' = [recovery EXCEPT ![q].pc = "forget", ![q].cmd = c]
    <3>1. command'[c].receipt = ledger[c] /\ ledger[c] # "none"
      BY <1>0, <1>4, <2>2 DEF AcknowledgeCommand, TypeOK, ReplayReceipt, Completed, Receipts
    <3>2. recovery[q] \in Recoveries
      BY <1>0
    <3>3. CASE q = r
      BY <1>0, <2>2, <3>1, <3>2, <3>3 DEF Recoveries
    <3>4. CASE q # r
      BY <1>0, <2>2, <3>4
    <3>5. QED
      BY <3>3, <3>4
  <2>3. QED
    BY <1>4, <2>1, <2>2 DEF ReplayReceipt
<1> HIDE DEF Goal
<1>5. ASSUME NEW q \in Recoverers, RecoveryStep(q) PROVE Goal
  <2>1. ASSUME NEW valid \in BOOLEAN, NEW stopped \in BOOLEAN, FinishRecovery(q, valid, stopped) PROVE Goal
    BY <1>0, <1>2, <2>1 DEF FinishRecovery
  <2>2. CASE ReplayBatch(q)
    BY <1>3, <2>2 DEF ReplayBatch, GoTo
  <2>3. CASE DropBatch(q) \/ DropReceipt(q) \/ ReplayDone(q) \/ ReplayFails(q)
    BY <1>3, <2>3 DEF DropBatch, DropReceipt, ReplayDone, ReplayFails, GoTo
  <2>4. QED
    BY <1>4, <1>5, <2>1, <2>2, <2>3 DEF RecoveryStep
<1>6. ASSUME NEW a \in Attempts, JobRecovers(a) PROVE Goal
  <2>1. [NoRecovery EXCEPT !.pc = IF Owns(a) THEN "replay" ELSE "finish", !.attempt = a].pc # "forget"
    BY DEF NoRecovery
  <2>2. QED
    BY <1>0, <1>2, <1>6, <2>1 DEF JobRecovers
<1>7. ASSUME NEW a \in Attempts, NEW stopped \in BOOLEAN, Reconcile(a, stopped) PROVE Goal
  <2>1. [NoRecovery EXCEPT !.pc = "replay", !.attempt = a].pc # "forget"
    BY DEF NoRecovery
  <2>2. QED
    BY <1>0, <1>2, <1>7, <2>1 DEF Reconcile
<1>8. ASSUME NEW a \in Attempts, NEW left \in BOOLEAN, Crash(a, left) PROVE Goal
  BY <1>0, <1>1, <1>2, <1>8 DEF Crash
<1>9. ASSUME NEW a \in Attempts, Launch(a) \/ SpawnStep(a) \/ StartupStep(a) \/ MainStep(a) PROVE Goal
  BY <1>1, <1>9 DEF Launch, SpawnStep, SpawnSucceeds, SpawnFails, StartupStep, FirstHeartbeat,
     FirstHeartbeatLost, FirstHeartbeatRejected, Prepare, Start, StartupFails, MainStep, ConnectorRecord,
     ConnectorFinishes, ConsumerDone, RunFails, Deadline, GraceEnds, CloseConnector, EmitArtifact,
     JournalVerdict, LeaveRun
<1>10. ASSUME NEW a \in Attempts, DeliveryStep(a) \/ ControlStep(a) \/ SweepContainer(a) PROVE Goal
  BY <1>1, <1>10 DEF DeliveryStep, SendBatch, GiveUp, TakeAnswer, ControlStep, SendReceipt, Poll,
     ControlRejected, UseFirstHeartbeat, BeginCommand, SendControl, FinishCommand, ListDone, SweepContainer
<1>11. Goal
  BY <1>0, <1>1, <1>2, <1>5, <1>6, <1>7, <1>8, <1>9, <1>10 DEF DeliveryNext, ReconcileStep, Environment,
     runnerVars, HandleEvents, ReconcilerCrash
<1>12. QED
  BY <1>11 DEF Goal

\* Only the connector executes.
LEMMA EffectsStep ==
  ASSUME DeliveryNext
  PROVE  effects' = effects \/ \E p \in Attempts : SendControl(p)
<1>1. ASSUME NEW a \in Attempts, Launch(a) \/ SpawnStep(a) \/ StartupStep(a) \/ MainStep(a)
      PROVE  effects' = effects
  BY <1>1 DEF Launch, SpawnStep, SpawnSucceeds, SpawnFails, StartupStep, FirstHeartbeat, FirstHeartbeatLost,
     FirstHeartbeatRejected, Prepare, Start, StartupFails, MainStep, ConnectorRecord, ConnectorFinishes,
     ConsumerDone, RunFails, Deadline, GraceEnds, CloseConnector, EmitArtifact, JournalVerdict, LeaveRun
<1>2. ASSUME NEW a \in Attempts,
             DeliveryStep(a) \/ JobRecovers(a) \/ ReconcileStep(a) \/ SweepContainer(a)
             \/ \E left \in BOOLEAN : Crash(a, left)
      PROVE  effects' = effects
  BY <1>2 DEF DeliveryStep, SendBatch, GiveUp, TakeAnswer, JobRecovers, ReconcileStep, Reconcile,
     SweepContainer, Crash
<1>3. ASSUME NEW a \in Attempts, ControlStep(a) PROVE effects' = effects \/ SendControl(a)
  BY <1>3 DEF ControlStep, SendReceipt, Poll, ControlRejected, UseFirstHeartbeat, BeginCommand,
     FinishCommand, ListDone
<1>4. ASSUME NEW r \in Recoverers, RecoveryStep(r) PROVE effects' = effects
  BY <1>4 DEF RecoveryStep, ReplayBatch, DropBatch, ReplayReceipt, DropReceipt, ReplayDone, ReplayFails,
     FinishRecovery
<1>5. ASSUME NEW m \in wire, NEW again \in BOOLEAN, HandleEvents(m, again) PROVE effects' = effects
  BY <1>5 DEF HandleEvents
<1>6. ASSUME Environment \/ ReconcilerCrash PROVE effects' = effects
  BY <1>6 DEF Environment, ReconcilerCrash, runnerVars
<1>7. QED
  BY <1>1, <1>2, <1>3, <1>4, <1>5, <1>6 DEF DeliveryNext

\* A command that is queued is new to spool, connector and runs.
LEMMA QueuedCommand ==
  ASSUME DeliveryInv, Aborts, Tracked, DeliveryNext, \A p \in Attempts : ~Handover(p), NEW c \in Commands,
         command[c].attempt \notin Attempts, NEW a \in Attempts
  PROVE  CommandAt(a, c)'
<1>1. /\ ReceiptMove(c) /\ effects'[c] = 0 /\ ledger[c] = "absent" /\ command[c].receipt = "none"
  BY QuietReceipts DEF Tracked
<1>2. ledger'[c] = "absent" /\ command'[c].receipt = "none"
  BY <1>1 DEF ReceiptMove, Receipts
<1>3. c \notin runner[a].todo /\ runner[a].doing # c
  BY DeliveryAssumption DEF Aborts, OwnCommands
<1>4. c \notin runner'[a].todo /\ runner'[a].doing # c
  <2>1. Quiet(a) /\ c # NoId
    BY QuietRuns, DeliveryAssumption
  <2>2. QED
    BY <1>3, <2>1 DEF Quiet, Goes, Stops
<1>5. QED
  BY <1>1, <1>2, <1>4 DEF CommandAt, CommandIn, Receipts

\* A command that changes neither owner nor receipt is still accounted for by a run
\* that goes on.
LEMMA QuietStep ==
  ASSUME DeliveryInv, Aborts, Tracked, DeliveryNext, \A p \in Attempts : ~Handover(p),
         NEW a \in Attempts
  PROVE  /\ Idle(a)'
         /\ \A c \in Commands : command[c].attempt = a => CommandAt(a, c)'
<1>1. Quiet(a) /\ Idle(a) /\ runner[a] \in RunnerStates /\ OwnCommands(a)
  BY QuietRuns DEF Tracked, DeliveryInv, StreamType, Aborts
<1>2. Idle(a)'
  <2> DEFINE s == runner[a]
             t == runner'[a]
  <2>1. /\ t.doing = NoId => ~t.sent
        /\ t.phase \in Unstarted => t = s \/ s.phase \in Unstarted
    BY <1>1 DEF Quiet, Goes, Stops, Idle, Steps, Unstarted
  <2>2. t.phase \in Unstarted => t.phase # "running"
    BY DEF Unstarted
  <2>3. QED
    BY <1>1, <2>1, <2>2 DEF Idle, Quiet
<1>3. ASSUME NEW c \in Commands, command[c].attempt = a PROVE CommandAt(a, c)'
  <2>1. ReceiptMove(c) /\ effects' = effects
    BY QuietReceipts
  <2>2. CommandIn(c, runner[a], container[a], effects[c], ledger[c], command[c].receipt)
    BY <1>3 DEF Tracked, CommandAt
  <2>3. CommandIn(c, runner'[a], container'[a], effects[c], ledger'[c], command'[c].receipt)
    BY <1>1, <2>1, <2>2, QuietCommand DEF Quiet, Idle, OwnCommands, ReceiptMove
  <2>4. QED
    BY <2>1, <2>3 DEF CommandAt
<1>4. QED
  BY <1>2, <1>3

\* Whoever moves, every command is accounted for.
LEMMA TrackedStep ==
  ASSUME DeliveryInv, Aborts, ReceiptStatus, Tracked, DeliveryNext
  PROVE  Tracked'
<1>0. effects \in [Commands -> {0, 1}] /\ runner \in [Attempts -> RunnerStates] /\ 0 \notin Attempts /\ TypeOK
  BY DEF Tracked, DeliveryInv, JournalInv, StreamType, Attempts
<1>1. ASSUME NEW p \in Attempts, Handover(p) PROVE Tracked'
  <2>1. /\ \A a \in Attempts : a # p => runner'[a] = runner[a]
        /\ container' = container /\ recovery' = recovery
    BY <1>0, <1>1 DEF Handover, FirstHeartbeat, Poll, BeginCommand, SendControl, FinishCommand
  <2>2. ASSUME NEW c \in Commands
        PROVE  command'[c].attempt = command[c].attempt /\ command'[c].receipt = command[c].receipt
    BY <1>0, <1>1, HeartbeatKeeps DEF Handover, FirstHeartbeat, Poll, BeginCommand, SendControl, FinishCommand,
       vars
  <2>3. ASSUME NEW c \in Commands, command[c].attempt # p
        PROVE  ledger'[c] = ledger[c] /\ effects'[c] = effects[c]
    BY <1>1, <2>3, HandoverElsewhere
  <2>4. ASSUME NEW c \in Commands PROVE effects'[c] \in {0, 1}
    BY <1>0, <1>1, <2>3, HandoverCommand
  <2>5. effects' \in [Commands -> {0, 1}]
    <3>1. effects' = effects \/ \E q \in Attempts : SendControl(q)
      BY EffectsStep
    <3>2. QED
      BY <1>0, <2>4, <3>1 DEF SendControl
  <2>6. ASSUME NEW a \in Attempts PROVE Idle(a)'
    <3>1. CASE a = p
      BY <1>1, <3>1, HandoverIdle DEF Tracked
    <3>2. CASE a # p
      BY <2>1, <3>2 DEF Tracked, Idle
    <3>3. QED
      BY <3>1, <3>2
  <2>7. ASSUME NEW c \in Commands, NEW a \in Attempts, command'[c].attempt = a PROVE CommandAt(a, c)'
    <3>1. CASE a = p
      BY <1>1, <2>2, <2>7, <3>1, HandoverCommand
    <3>2. CASE a # p
      <4>1. command[c].attempt = a /\ ledger'[c] = ledger[c] /\ effects'[c] = effects[c]
            /\ command'[c].receipt = command[c].receipt
        BY <2>2, <2>3, <2>7, <3>2
      <4>2. CommandAt(a, c)
        BY <4>1 DEF Tracked
      <4>3. QED
        BY <2>1, <3>2, <4>1, <4>2 DEF CommandAt
    <3>3. QED
      BY <3>1, <3>2
  <2>8. ASSUME NEW c \in Commands, command'[c].attempt \notin Attempts
        PROVE  effects'[c] = 0 /\ ledger'[c] = "absent" /\ command'[c].receipt = "none"
    BY <2>2, <2>3, <2>8 DEF Tracked
  <2>9. ASSUME NEW r \in Recoverers, recovery'[r].pc = "forget"
        PROVE  recovery'[r].cmd \in Commands /\ command'[recovery'[r].cmd].receipt # "none"
    BY <2>1, <2>2, <2>9 DEF Tracked
  <2>10. QED
    BY <2>5, <2>6, <2>7, <2>8, <2>9 DEF Tracked
<1>2. CASE \A p \in Attempts : ~Handover(p)
  <2>1. effects' = effects
    BY <1>2, EffectsStep DEF Handover
  <2>2. ASSUME NEW c \in Commands
        PROVE  /\ ReceiptMove(c)
               /\ \/ command'[c].attempt = command[c].attempt
                  \/ command[c] = NoCommand
    BY <1>2, QuietReceipts, CommandStep
  <2>3. ASSUME NEW a \in Attempts PROVE Idle(a)'
    BY <1>2, QuietStep
  <2>4. ASSUME NEW c \in Commands, NEW a \in Attempts, command'[c].attempt = a PROVE CommandAt(a, c)'
    <3>1. CASE command[c].attempt = a
      BY <1>2, <3>1, QuietStep
    <3>2. CASE command[c].attempt # a
      <4>1. command[c].attempt \notin Attempts
        BY <1>0, <2>2, <2>4, <3>2 DEF NoCommand
      <4>2. QED
        BY <1>2, <4>1, QueuedCommand
    <3>3. QED
      BY <3>1, <3>2
  <2>5. ASSUME NEW c \in Commands, command'[c].attempt \notin Attempts
        PROVE  effects'[c] = 0 /\ ledger'[c] = "absent" /\ command'[c].receipt = "none"
    <3>1. command[c].attempt \notin Attempts
      BY <1>0, <2>2, <2>5 DEF NoCommand
    <3>2. effects[c] = 0 /\ ledger[c] = "absent" /\ command[c].receipt = "none"
      BY <3>1 DEF Tracked
    <3>3. QED
      BY <2>1, <2>2, <3>2 DEF ReceiptMove, Receipts
  <2>6. ASSUME NEW r \in Recoverers, recovery'[r].pc = "forget"
        PROVE  recovery'[r].cmd \in Commands /\ command'[recovery'[r].cmd].receipt # "none"
    <3>1. CASE recovery'[r] = recovery[r]
      <4>1. recovery[r].cmd \in Commands /\ command[recovery[r].cmd].receipt # "none"
        BY <2>6, <3>1 DEF Tracked
      <4>2. QED
        BY <2>2, <3>1, <4>1 DEF ReceiptMove, Receipts
    <3>2. QED
      BY <2>6, <3>1, ForgetMoves
  <2>7. QED
    BY <1>0, <2>1, <2>3, <2>4, <2>5, <2>6 DEF Tracked
<1>3. QED
  BY <1>1, <1>2

\* Retries, the replay and the old list of the first heartbeat included, a connector
\* executes a command at most once, an abort answered before the start reaches none
\* and excludes execution, and no receipt of a spool contradicts the server's.
THEOREM CommandsExecuted == DeliverySpec => []CommandsExecuteOnce
<1>1. DeliveryInit => Tracked
  <2> SUFFICES ASSUME DeliveryInit PROVE Tracked
    OBVIOUS
  <2>1. /\ runner = [a \in Attempts |-> NoRunner] /\ container = [a \in Attempts |-> "none"]
        /\ ledger = [c \in Commands |-> "absent"] /\ command = [c \in Commands |-> NoCommand]
        /\ recovery = [r \in Recoverers |-> NoRecovery] /\ effects = [c \in Commands |-> 0]
    BY DEF DeliveryInit, Init
  <2>2. 0 \notin Attempts /\ NoCommand.attempt = 0 /\ NoCommand.receipt = "none"
        /\ NoRecovery.pc = "idle" /\ ~NoRunner.sent
    BY DEF Attempts, NoCommand, NoRecovery, NoRunner
  <2>3. QED
    BY <2>1, <2>2 DEF Tracked, Idle
<1>2. DeliveryInv /\ Aborts /\ ReceiptStatus /\ Tracked /\ [DeliveryNext]_allVars => Tracked'
  <2> SUFFICES ASSUME DeliveryInv, Aborts, ReceiptStatus, Tracked, [DeliveryNext]_allVars PROVE Tracked'
    OBVIOUS
  <2>1. CASE DeliveryNext
    BY <2>1, TrackedStep
  <2>2. CASE UNCHANGED allVars
    BY <2>2 DEF Tracked, CommandAt, Idle, allVars, runnerVars, vars, disk
  <2>3. QED
    BY <2>1, <2>2
<1>3. Tracked => CommandsExecuteOnce
  <2> SUFFICES ASSUME Tracked PROVE CommandsExecuteOnce
    OBVIOUS
  <2>1. \A c \in Commands : effects[c] <= 1
    BY DEF Tracked
  <2>2. ASSUME NEW c \in Commands, command[c].receipt = "before_start"
        PROVE  effects[c] = 0 /\ container[command[c].attempt] # "busy"
    BY <2>2 DEF Tracked, CommandAt, CommandIn
  <2>3. ASSUME NEW a \in Attempts, NEW c \in Completed(a) PROVE command[c].receipt \in {"none", ledger[c]}
    BY <2>3 DEF Tracked, CommandAt, CommandIn, Completed
  <2>4. QED
    BY <2>1, <2>2, <2>3 DEF CommandsExecuteOnce
<1>4. QED
  BY <1>1, <1>2, <1>3, AbortsInvariant, ReceiptInvariant, DeliveryImplementsJournal, DeliveryInvariant, PTL
     DEF DeliverySpec
=============================================================================
