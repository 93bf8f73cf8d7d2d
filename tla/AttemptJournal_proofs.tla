------------------------ MODULE AttemptJournal_proofs ------------------------
(***************************************************************************)
(* Proofs about AttemptJournal for every number of attempts, every bound   *)
(* on sequence numbers and every set of records, configurations and        *)
(* commands.  The safety invariants support one another: their conjunction *)
(* JournalInv is the inductive invariant, and the action properties and    *)
(* the refinement follow from it.                                          *)
(***************************************************************************)
EXTENDS AttemptJournal, TLAPS

JournalInv ==
  /\ TypeOK
  /\ SingleActiveAttempt
  /\ VerdictIsJournalled
  /\ CommandsEndWithAttempt
  /\ ArchivePinsAttempt
  /\ TaskShowsCurrent

\* A batch is a non-empty contiguous run of records (receive_events).
LEMMA BatchShape ==
  ASSUME NEW b \in Batches
  PROVE  /\ b.first \in 0 .. MaxSeq /\ b.last \in 0 .. MaxSeq /\ b.first <= b.last
         /\ b.body \in [b.first .. b.last -> Bodies]
BY BoundsAssumption DEF Batches, BatchesFrom

\* What an accepted new batch leaves behind: a longer journal with the old
\* records in front, whose last record alone may be run.finished.
LEMMA ExtendedJournal ==
  ASSUME TypeOK, NEW a \in Attempts, NEW b \in Batches, Accepts(a, b), IsNew(a, b)
  PROVE  /\ nextSeq[a] \in 0 .. b.last
         /\ Extended(a, b) \in [0 .. b.last -> Bodies]
         /\ \A n \in 0 .. nextSeq[a] - 1 : Extended(a, b)[n] = rows[a][n]
         /\ \A n \in nextSeq[a] .. b.last : Extended(a, b)[n] = b.body[n]
         /\ \A n \in nextSeq[a] .. b.last :
              Extended(a, b)[n].kind = "run.finished" => n = b.last
<1>1. /\ b.first \in 0 .. MaxSeq /\ b.last \in 0 .. MaxSeq /\ b.first <= b.last
      /\ b.body \in [b.first .. b.last -> Bodies]
  BY BatchShape
<1>2. nextSeq[a] \in Nat /\ nextSeq[a] <= b.last /\ b.first <= nextSeq[a]
  BY BoundsAssumption DEF TypeOK, Accepts, NewRecordsFit, IsNew
<1>3. rows[a] \in [0 .. nextSeq[a] - 1 -> Bodies]
  BY DEF TypeOK
<1>4. Extended(a, b) \in [0 .. b.last -> Bodies]
  BY <1>1, <1>2, <1>3, BoundsAssumption DEF Extended
<1>5. /\ \A n \in 0 .. nextSeq[a] - 1 : Extended(a, b)[n] = rows[a][n]
      /\ \A n \in nextSeq[a] .. b.last : Extended(a, b)[n] = b.body[n]
  BY <1>1, <1>2, BoundsAssumption DEF Extended
<1>6. \A n \in nextSeq[a] .. b.last : b.body[n].kind = "run.finished" => n = b.last
  BY DEF Accepts, NewRecordsFit
<1>7. QED
  BY <1>1, <1>2, <1>4, <1>5, <1>6

\* No action breaks the types; only an accepted batch moves next_seq, and it
\* stores exactly the records up to it.
LEMMA TypeStep == TypeOK /\ [Next]_vars => TypeOK'
<1> SUFFICES ASSUME TypeOK, [Next]_vars PROVE TypeOK'
  OBVIOUS
<1>1. ASSUME NEW a \in Attempts, CreateAttempt(a) PROVE TypeOK'
  BY <1>1, BoundsAssumption DEF CreateAttempt, TypeOK, Attempts, Active
<1>2. ASSUME NEW a \in Attempts, NEW cfg \in Configs, PrepareConfiguration(a, cfg)
      PROVE  TypeOK'
  BY <1>2 DEF PrepareConfiguration, TypeOK
<1>3. ASSUME NEW a \in Attempts, NEW c \in Commands, QueueCommand(a, c)
      PROVE  TypeOK'
  BY <1>3 DEF QueueCommand, TypeOK, Attempts, Active
<1>4. ASSUME NEW a \in Attempts, Heartbeat(a) PROVE TypeOK'
  BY <1>4 DEF Heartbeat, TypeOK
<1>5. ASSUME NEW a \in Attempts, NEW c \in Commands, NEW r \in Receipts,
             AcknowledgeCommand(a, c, r)
      PROVE  TypeOK'
  BY <1>5 DEF AcknowledgeCommand, TypeOK, Attempts
<1>6. ASSUME NEW a \in Attempts, NEW b \in Batches, IngestEvents(a, b)
      PROVE  TypeOK'
  <2>1. /\ b.last \in 0 .. MaxSeq
        /\ Extended(a, b) \in [0 .. b.last -> Bodies]
    BY <1>6, BatchShape, ExtendedJournal DEF IngestEvents
  <2>2. StatusAfter(a, b) \in Active \cup Terminal \cup {"absent"}
    <3>1. b.body[b.last] \in Bodies
      BY BatchShape
    <3>2. Finishes(b) => b.body[b.last].status \in Final
      BY <3>1, BodiesAssumption DEF Finishes
    <3>3. QED
      BY <3>2 DEF TypeOK, StatusAfter, Active, Terminal
  <2>3. EndPending(a) \in [Commands -> [attempt : 0 .. MaxAttempts,
          status : {"absent", "queued", "delivered", "unknown", "acknowledged", "failed"},
          receipt : Receipts \cup {"none"}]]
    BY DEF TypeOK, EndPending
  <2>4. rows'[a] = Extended(a, b) /\ nextSeq'[a] = b.last + 1
    BY <1>6 DEF IngestEvents, TypeOK
  <2>5. ASSUME NEW p \in Attempts
        PROVE  rows'[p] \in [0 .. nextSeq'[p] - 1 -> Bodies]
    <3>1. b.last + 1 - 1 = b.last
      BY <2>1
    <3>2. p # a => rows'[p] = rows[p] /\ nextSeq'[p] = nextSeq[p]
      BY <1>6 DEF IngestEvents, TypeOK
    <3>3. rows[p] \in [0 .. nextSeq[p] - 1 -> Bodies]
      BY DEF TypeOK
    <3>4. QED
      BY <2>1, <2>4, <3>1, <3>2, <3>3
  <2>6. nextSeq' \in [Attempts -> 0 .. MaxSeq + 1] /\ DOMAIN rows' = Attempts
    BY <1>6, <2>1, BoundsAssumption DEF IngestEvents, TypeOK
  <2>7. QED
    BY <1>6, <2>2, <2>3, <2>5, <2>6 DEF IngestEvents, TypeOK
<1>7. ASSUME NEW a \in Attempts, NEW valid \in BOOLEAN, FinishInterrupted(a, valid)
      PROVE  TypeOK'
  <2>1. EndPending(a) \in [Commands -> [attempt : 0 .. MaxAttempts,
          status : {"absent", "queued", "delivered", "unknown", "acknowledged", "failed"},
          receipt : Receipts \cup {"none"}]]
    BY DEF TypeOK, EndPending
  <2>2. QED
    BY <1>7, <2>1 DEF FinishInterrupted, TypeOK, Terminal
<1>8. ASSUME NEW a \in Attempts, HeartbeatAges(a) PROVE TypeOK'
  BY <1>8 DEF HeartbeatAges, TypeOK
<1>9. CASE ArchiveResults \/ RetentionPrunes
  BY <1>9 DEF ArchiveResults, RetentionPrunes, TypeOK
<1>10. CASE UNCHANGED vars
  BY <1>10 DEF vars, TypeOK
<1>11. QED
  BY <1>1, <1>2, <1>3, <1>4, <1>5, <1>6, <1>7, <1>8, <1>9, <1>10 DEF Next

\* Type correctness: the rows of an attempt stay exactly the sequence numbers
\* below its next_seq, whichever requests arrive.
THEOREM TypeCorrect == Spec => []TypeOK
<1>1. Init => TypeOK
  BY BoundsAssumption DEF Init, TypeOK, Attempts, NoCommand
<1>2. QED
  BY <1>1, TypeStep, PTL DEF Spec
-----------------------------------------------------------------------------
(* The inductive invariant, one lemma per action that can disturb it.      *)

\* Only an attempt with a final verdict has run.finished in its journal.
LEMMA NoFinishedRow ==
  ASSUME JournalInv, NEW p \in Attempts, status[p] \notin Final,
         NEW n \in DOMAIN rows[p]
  PROVE  rows[p][n].kind # "run.finished"
<1> SUFFICES ASSUME rows[p][n].kind = "run.finished" PROVE FALSE
  OBVIOUS
<1>1. rows[p][n] \in Bodies
  BY DEF JournalInv, TypeOK
<1>2. status[p] = rows[p][n].status
  BY DEF JournalInv, VerdictIsJournalled
<1>3. QED
  BY <1>1, <1>2, BodiesAssumption

\* A step that stores no record keeps VerdictIsJournalled when it moves no
\* attempt to or from a final verdict.
LEMMA VerdictsStay ==
  ASSUME JournalInv, rows' = rows, nextSeq' = nextSeq,
         \A p \in Attempts : \/ status'[p] = status[p]
                             \/ status[p] \notin Final /\ status'[p] \notin Final
  PROVE  VerdictIsJournalled'
<1> SUFFICES ASSUME NEW p \in Attempts
             PROVE  /\ \A n \in DOMAIN rows[p] :
                         rows[p][n].kind = "run.finished" =>
                           n = nextSeq[p] - 1 /\ status'[p] = rows[p][n].status
                    /\ status'[p] \in Final =>
                         \E n \in DOMAIN rows[p] : rows[p][n].kind = "run.finished"
  BY DEF VerdictIsJournalled
<1>1. CASE status'[p] = status[p]
  BY <1>1 DEF JournalInv, VerdictIsJournalled
<1>2. CASE status[p] \notin Final /\ status'[p] \notin Final
  BY <1>2, NoFinishedRow
<1>3. QED
  BY <1>1, <1>2

LEMMA InvCreate ==
  ASSUME JournalInv, TypeOK', NEW a \in Attempts, CreateAttempt(a)
  PROVE  JournalInv'
<1> USE DEF CreateAttempt
<1>1. SingleActiveAttempt'
  BY DEF JournalInv, SingleActiveAttempt, TypeOK, Attempts, Active, Terminal, Final
<1>2. VerdictIsJournalled'
  <2>1. status[a] = "absent"
    BY DEF JournalInv, SingleActiveAttempt, TypeOK, Attempts
  <2>2. QED
    BY <2>1, VerdictsStay DEF JournalInv, TypeOK, Final
<1>3. CommandsEndWithAttempt'
  BY DEF JournalInv, CommandsEndWithAttempt, TypeOK, Attempts, Owns, Active, Terminal, Final
<1>4. ArchivePinsAttempt'
  BY DEF JournalInv, ArchivePinsAttempt, SingleActiveAttempt, TypeOK, Attempts, Active, Terminal, Final
<1>5. TaskShowsCurrent'
  BY SMTT(20) DEF JournalInv, TaskShowsCurrent, ArchivePinsAttempt, SingleActiveAttempt, TypeOK, Attempts, Terminal, Final
<1>6. QED
  BY <1>1, <1>2, <1>3, <1>4, <1>5 DEF JournalInv

LEMMA InvIngest ==
  ASSUME JournalInv, TypeOK', NEW a \in Attempts, NEW b \in Batches, IngestEvents(a, b)
  PROVE  JournalInv'
<1>1. /\ a = current
      /\ status[a] \in Active
      /\ status' = [status EXCEPT ![a] = StatusAfter(a, b)]
      /\ TypeOK
  BY DEF JournalInv, IngestEvents, Accepts, NewRecordsFit, Owns
<1>2. /\ b.last \in 0 .. MaxSeq
      /\ nextSeq[a] \in 0 .. b.last
      /\ Extended(a, b) \in [0 .. b.last -> Bodies]
      /\ \A n \in 0 .. nextSeq[a] - 1 : Extended(a, b)[n] = rows[a][n]
      /\ \A n \in nextSeq[a] .. b.last : Extended(a, b)[n] = b.body[n]
      /\ \A n \in nextSeq[a] .. b.last :
           Extended(a, b)[n].kind = "run.finished" => n = b.last
  BY <1>1, ExtendedJournal, BatchShape DEF IngestEvents
<1>3. /\ rows' = [rows EXCEPT ![a] = Extended(a, b)]
      /\ nextSeq' = [nextSeq EXCEPT ![a] = b.last + 1]
      /\ rows'[a] = Extended(a, b)
      /\ nextSeq'[a] = b.last + 1
      /\ status'[a] = StatusAfter(a, b)
  BY <1>1 DEF IngestEvents, TypeOK
<1>4. /\ b.body[b.last] \in Bodies
      /\ Extended(a, b)[b.last] = b.body[b.last]
  BY <1>2, BatchShape
<1>5. \/ Finishes(b) /\ StatusAfter(a, b) = b.body[b.last].status
                    /\ StatusAfter(a, b) \in Final
      \/ ~Finishes(b) /\ StatusAfter(a, b) \in Active
  BY <1>1, <1>4, BodiesAssumption DEF StatusAfter, Finishes, Active
<1>6. SingleActiveAttempt'
  BY <1>1, <1>3, <1>5 DEF JournalInv, SingleActiveAttempt, IngestEvents, TypeOK, Attempts,
     Active, Final
<1>7. VerdictIsJournalled'
  <2>1. ASSUME NEW p \in Attempts, p # a
        PROVE  rows'[p] = rows[p] /\ nextSeq'[p] = nextSeq[p] /\ status'[p] = status[p]
    BY <2>1, <1>1, <1>3 DEF TypeOK
  <2>2. \A n \in DOMAIN rows[a] : rows[a][n].kind # "run.finished"
    BY <1>1, NoFinishedRow DEF Active, Final
  <2>3. DOMAIN rows[a] = 0 .. nextSeq[a] - 1 /\ DOMAIN rows'[a] = 0 .. b.last
    BY <1>1, <1>2, <1>3 DEF TypeOK
  <2>4. ASSUME NEW n \in DOMAIN rows'[a], rows'[a][n].kind = "run.finished"
        PROVE  n = nextSeq'[a] - 1 /\ status'[a] = rows'[a][n].status
    <3>1. n \in nextSeq[a] .. b.last
      <4>1. n \in 0 .. b.last
        BY <2>3
      <4>2. n \in 0 .. nextSeq[a] - 1 => rows'[a][n] = rows[a][n]
        BY <1>2, <1>3
      <4>3. n \notin 0 .. nextSeq[a] - 1
        BY <4>2, <2>2, <2>3, <2>4
      <4>4. QED
        BY <4>1, <4>3, <1>2
    <3>2. n = b.last /\ Finishes(b)
      BY <3>1, <2>4, <1>2, <1>3, <1>4 DEF Finishes
    <3>3. QED
      BY <3>2, <1>2, <1>3, <1>4, <1>5
  <2>5. status'[a] \in Final =>
          \E n \in DOMAIN rows'[a] : rows'[a][n].kind = "run.finished"
    BY <2>3, <1>2, <1>3, <1>4, <1>5 DEF Finishes, Active, Final
  <2>6. QED
    BY <2>1, <2>4, <2>5 DEF JournalInv, VerdictIsJournalled
<1>8. CommandsEndWithAttempt'
  <2>1. CASE Finishes(b)
    BY <2>1, <1>1 DEF JournalInv, CommandsEndWithAttempt, IngestEvents, EndPending,
       Pending, Owns, TypeOK
  <2>2. CASE ~Finishes(b)
    BY <2>2, <1>1, <1>3, <1>5 DEF JournalInv, CommandsEndWithAttempt, IngestEvents,
       Owns, TypeOK, Active, Final
  <2>3. QED
    BY <2>1, <2>2
<1>9. ArchivePinsAttempt'
  BY <1>1, <1>3 DEF JournalInv, ArchivePinsAttempt, IngestEvents, TypeOK, Active,
     Terminal, Final
<1>10. TaskShowsCurrent'
  BY <1>1, <1>3 DEF JournalInv, TaskShowsCurrent, ArchivePinsAttempt, IngestEvents,
     TypeOK, Active, Terminal, Final, Attempts
<1>11. QED
  BY <1>6, <1>7, <1>8, <1>9, <1>10 DEF JournalInv

LEMMA InvFinish ==
  ASSUME JournalInv, TypeOK', NEW a \in Attempts, NEW valid \in BOOLEAN,
         FinishInterrupted(a, valid)
  PROVE  JournalInv'
<1> USE DEF FinishInterrupted, Owns
<1>1. SingleActiveAttempt'
  BY DEF JournalInv, SingleActiveAttempt, TypeOK, Attempts, Active
<1>2. VerdictIsJournalled'
  BY VerdictsStay DEF JournalInv, TypeOK, Active, Final
<1>3. CommandsEndWithAttempt'
  BY DEF JournalInv, CommandsEndWithAttempt, TypeOK, EndPending, Pending
<1>4. ArchivePinsAttempt'
  BY DEF JournalInv, ArchivePinsAttempt, SingleActiveAttempt, TypeOK, Attempts, Active,
     Terminal, Final
<1>5. TaskShowsCurrent'
  BY DEF JournalInv, TaskShowsCurrent, ArchivePinsAttempt, TypeOK, Attempts, Active,
     Terminal, Final
<1>6. QED
  BY <1>1, <1>2, <1>3, <1>4, <1>5 DEF JournalInv

\* The handlers that touch commands, settings, ages or the archive only.
LEMMA InvQueue ==
  ASSUME JournalInv, TypeOK', NEW a \in Attempts, NEW c \in Commands, QueueCommand(a, c)
  PROVE  JournalInv'
<1> USE DEF QueueCommand, Owns
<1>1. /\ SingleActiveAttempt'
      /\ ArchivePinsAttempt'
      /\ TaskShowsCurrent'
  BY DEF JournalInv, SingleActiveAttempt, ArchivePinsAttempt, TaskShowsCurrent, TypeOK,
     Attempts, Active, Terminal, Final
<1>2. VerdictIsJournalled'
  BY VerdictsStay DEF JournalInv, TypeOK, Active, Final
<1>3. CommandsEndWithAttempt'
  BY DEF JournalInv, CommandsEndWithAttempt, TypeOK, Active
<1>4. QED
  BY <1>1, <1>2, <1>3 DEF JournalInv

LEMMA InvCommands ==
  ASSUME JournalInv, TypeOK', NEW a \in Attempts,
         \/ Heartbeat(a)
         \/ \E c \in Commands, r \in Receipts : AcknowledgeCommand(a, c, r)
  PROVE  JournalInv'
<1>1. /\ SingleActiveAttempt'
      /\ VerdictIsJournalled'
      /\ ArchivePinsAttempt'
      /\ TaskShowsCurrent'
  BY DEF JournalInv, SingleActiveAttempt, VerdictIsJournalled, ArchivePinsAttempt,
     TaskShowsCurrent, Heartbeat, AcknowledgeCommand
<1>2. CommandsEndWithAttempt'
  <2>1. CASE Heartbeat(a)
    BY <2>1 DEF JournalInv, CommandsEndWithAttempt, TypeOK, Heartbeat, Offered, Pending, Owns
  <2>2. ASSUME NEW c \in Commands, NEW r \in Receipts, AcknowledgeCommand(a, c, r)
        PROVE  CommandsEndWithAttempt'
    BY <2>2 DEF JournalInv, CommandsEndWithAttempt, TypeOK, AcknowledgeCommand, Owns
  <2>3. QED
    BY <2>1, <2>2
<1>3. QED
  BY <1>1, <1>2 DEF JournalInv

LEMMA InvStep == JournalInv /\ [Next]_vars => JournalInv'
<1> SUFFICES ASSUME JournalInv, [Next]_vars PROVE JournalInv'
  OBVIOUS
<1>1. TypeOK'
  BY TypeStep DEF JournalInv
<1>2. ASSUME NEW a \in Attempts, NEW cfg \in Configs, PrepareConfiguration(a, cfg)
      PROVE  JournalInv'
  BY <1>1, <1>2 DEF PrepareConfiguration, JournalInv, SingleActiveAttempt, VerdictIsJournalled,
     CommandsEndWithAttempt, ArchivePinsAttempt, TaskShowsCurrent, Owns
<1>3. ASSUME NEW a \in Attempts, HeartbeatAges(a) PROVE JournalInv'
  BY <1>1, <1>3 DEF HeartbeatAges, JournalInv, SingleActiveAttempt, VerdictIsJournalled,
     CommandsEndWithAttempt, ArchivePinsAttempt, TaskShowsCurrent, Owns
<1>4. CASE ArchiveResults \/ RetentionPrunes
  BY <1>1, <1>4 DEF ArchiveResults, RetentionPrunes, JournalInv, SingleActiveAttempt,
     VerdictIsJournalled, CommandsEndWithAttempt, ArchivePinsAttempt, TaskShowsCurrent, Owns
<1>5. CASE UNCHANGED vars
  BY <1>1, <1>5 DEF vars, JournalInv, SingleActiveAttempt, VerdictIsJournalled,
     CommandsEndWithAttempt, ArchivePinsAttempt, TaskShowsCurrent, Owns
<1>6. QED
  BY <1>1, <1>2, <1>3, <1>4, <1>5, InvCreate, InvIngest, InvFinish, InvQueue, InvCommands
     DEF Next

LEMMA JournalInvariant == Spec => []JournalInv
<1>1. Init => JournalInv
  BY BoundsAssumption DEF Init, JournalInv, TypeOK, SingleActiveAttempt, VerdictIsJournalled,
     CommandsEndWithAttempt, ArchivePinsAttempt, TaskShowsCurrent, Attempts, NoCommand,
     Active, Final
<1>2. QED
  BY <1>1, InvStep, PTL DEF Spec

\* Attempts, task and archive agree on one current attempt, in every instance.
THEOREM CurrentAttemptAgreed == Spec => []OneCurrentAttempt
<1>1. JournalInv => OneCurrentAttempt
  BY DEF JournalInv, OneCurrentAttempt
<1>2. QED
  BY <1>1, JournalInvariant, PTL

\* Verdicts are backed by their record and no command is left open behind an
\* ended attempt, in every instance.
THEOREM EndsSettled == Spec => []EndSettlesAttempt
<1>1. JournalInv => EndSettlesAttempt
  BY DEF JournalInv, EndSettlesAttempt
<1>2. QED
  BY <1>1, JournalInvariant, PTL
-----------------------------------------------------------------------------
(* Action properties.                                                      *)

EvidenceKept ==
  \A a \in Attempts :
    /\ \A n \in DOMAIN rows[a] : n \in DOMAIN rows'[a] /\ rows'[a][n] = rows[a][n]
    /\ status[a] \in Terminal => status'[a] = status[a] /\ rows'[a] = rows[a]
    /\ a < current => config'[a] = config[a] /\ settled'[a] = settled[a]

\* A request keeps records, verdicts and superseded attempts as they are.
LEMMA EvidenceStep == JournalInv /\ [Next]_vars => [EvidenceKept]_vars
<1> SUFFICES ASSUME JournalInv, Next PROVE EvidenceKept
  OBVIOUS
<1> USE DEF JournalInv
<1>1. ASSUME NEW a \in Attempts, CreateAttempt(a) PROVE EvidenceKept
  BY <1>1 DEF CreateAttempt, EvidenceKept, TypeOK, SingleActiveAttempt, Attempts,
     Terminal, Final
<1>2. ASSUME NEW a \in Attempts, NEW cfg \in Configs, PrepareConfiguration(a, cfg)
      PROVE  EvidenceKept
  BY <1>2 DEF PrepareConfiguration, PrepareAccepts, Owns, EvidenceKept, TypeOK, Attempts
<1>3. ASSUME NEW a \in Attempts, NEW c \in Commands, QueueCommand(a, c)
      PROVE  EvidenceKept
  BY <1>3 DEF QueueCommand, EvidenceKept, TypeOK, Active, Terminal, Final
<1>4. ASSUME NEW a \in Attempts, NEW b \in Batches, IngestEvents(a, b)
      PROVE  EvidenceKept
  <2>1. /\ nextSeq[a] \in 0 .. b.last
        /\ Extended(a, b) \in [0 .. b.last -> Bodies]
        /\ \A n \in 0 .. nextSeq[a] - 1 : Extended(a, b)[n] = rows[a][n]
    BY <1>4, ExtendedJournal DEF IngestEvents
  <2>2. /\ a = current /\ status[a] \in Active
        /\ rows' = [rows EXCEPT ![a] = Extended(a, b)]
        /\ status' = [status EXCEPT ![a] = StatusAfter(a, b)]
        /\ config' = config /\ settled' = settled
    BY <1>4 DEF IngestEvents, Accepts, NewRecordsFit, Owns
  <2>3. DOMAIN rows[a] = 0 .. nextSeq[a] - 1 /\ b.last \in 0 .. MaxSeq
    BY <1>4, BatchShape DEF TypeOK
  <2>4. \A n \in DOMAIN rows[a] : n \in DOMAIN rows'[a] /\ rows'[a][n] = rows[a][n]
    BY <2>1, <2>2, <2>3 DEF TypeOK
  <2>5. \A p \in Attempts : p # a => rows'[p] = rows[p] /\ status'[p] = status[p]
    BY <2>2 DEF TypeOK
  <2>6. status[a] \notin Terminal
    BY <2>2 DEF Active, Terminal, Final
  <2>7. QED
    BY <2>2, <2>4, <2>5, <2>6 DEF EvidenceKept
<1>5. ASSUME NEW a \in Attempts, NEW valid \in BOOLEAN, FinishInterrupted(a, valid)
      PROVE  EvidenceKept
  <2>1. a = current /\ rows' = rows /\ config' = config
    BY <1>5 DEF FinishInterrupted, Owns
  <2>2. \A p \in Attempts : status[p] \in Terminal => status'[p] = status[p]
    BY <1>5 DEF FinishInterrupted, TypeOK, Active, Terminal, Final
  <2>3. \A p \in Attempts : p < current => settled'[p] = settled[p]
    <3>1. \A p \in Attempts : p < current => p # a
      BY <2>1 DEF TypeOK, Attempts
    <3>2. \A p \in Attempts : p # a => settled'[p] = settled[p]
      <4>1. settled' = [settled EXCEPT ![a] = TRUE] /\ settled \in [Attempts -> BOOLEAN]
        BY <1>5 DEF FinishInterrupted, TypeOK
      <4>2. QED
        BY <4>1, Zenon
    <3>3. QED
      BY <3>1, <3>2
  <2>4. QED
    BY <2>1, <2>2, <2>3 DEF EvidenceKept
<1>6. ASSUME rows' = rows, status' = status, config' = config, settled' = settled
      PROVE  EvidenceKept
  BY <1>6 DEF EvidenceKept
<1>7. QED
  BY <1>1, <1>2, <1>3, <1>4, <1>5, <1>6 DEF Next, Heartbeat, AcknowledgeCommand,
     HeartbeatAges, ArchiveResults, RetentionPrunes

\* No request, however late or repeated, changes a stored record, a verdict or
\* anything of a superseded attempt.
THEOREM EvidenceIsFrozen == Spec => EvidenceFrozen
BY EvidenceStep, JournalInvariant, PTL DEF Spec, EvidenceFrozen, EvidenceKept

\* A command's status and its receipt tell the same story: the strengthening
\* under which a repeated receipt rewrites the row with what it already holds.
ReceiptStatus ==
  \A c \in Commands :
    IF command[c].receipt = "none"
      THEN command[c].status \notin {"acknowledged", "failed"}
      ELSE command[c].status = IF command[c].receipt = "error" THEN "failed"
                                                               ELSE "acknowledged"

LEMMA ReceiptInvariant == Spec => []ReceiptStatus
<1>1. Init => ReceiptStatus
  BY DEF Init, ReceiptStatus, NoCommand
<1>2. TypeOK /\ ReceiptStatus /\ [Next]_vars => ReceiptStatus'
  <2> SUFFICES ASSUME TypeOK, ReceiptStatus, [Next]_vars PROVE ReceiptStatus'
    OBVIOUS
  <2>1. ASSUME NEW a \in Attempts, NEW c \in Commands, QueueCommand(a, c)
        PROVE  ReceiptStatus'
    BY <2>1 DEF QueueCommand, ReceiptStatus, TypeOK
  <2>2. ASSUME NEW a \in Attempts, Heartbeat(a) PROVE ReceiptStatus'
    BY <2>2 DEF Heartbeat, Offered, Pending, ReceiptStatus, TypeOK
  <2>3. ASSUME NEW a \in Attempts, NEW c \in Commands, NEW r \in Receipts,
               AcknowledgeCommand(a, c, r)
        PROVE  ReceiptStatus'
    BY <2>3 DEF AcknowledgeCommand, ReceiptStatus, TypeOK, Receipts
  <2>4. ASSUME NEW a \in Attempts, command' = EndPending(a) PROVE ReceiptStatus'
    BY <2>4 DEF EndPending, Pending, ReceiptStatus, TypeOK
  <2>5. ASSUME command' = command PROVE ReceiptStatus'
    BY <2>5 DEF ReceiptStatus
  <2>6. QED
    BY <2>1, <2>2, <2>3, <2>4, <2>5 DEF Next, CreateAttempt, PrepareConfiguration,
       IngestEvents, FinishInterrupted, HeartbeatAges, ArchiveResults, RetentionPrunes, vars
<1>3. QED
  BY <1>1, <1>2, TypeCorrect, PTL DEF Spec

ReceiptsKept ==
  /\ \A a \in Attempts :
       config'[a] # config[a] => config[a] = NoConfig /\ nextSeq'[a] = 0
  /\ \A c \in Commands : command[c].receipt # "none" => command'[c] = command[c]

\* Applied settings are fixed before the first record, and a receipt is final.
THEOREM ReceiptsAreFrozen == Spec => ReceiptsFrozen
<1>1. TypeOK /\ ReceiptStatus /\ [Next]_vars => [ReceiptsKept]_vars
  <2> SUFFICES ASSUME TypeOK, ReceiptStatus, Next PROVE ReceiptsKept
    OBVIOUS
  <2>1. \A a \in Attempts :
          config'[a] # config[a] => config[a] = NoConfig /\ nextSeq'[a] = 0
    BY DEF Next, CreateAttempt, PrepareConfiguration, PrepareAccepts, QueueCommand, Heartbeat,
       AcknowledgeCommand, IngestEvents, FinishInterrupted, HeartbeatAges, ArchiveResults,
       RetentionPrunes, TypeOK
  <2>2. ASSUME NEW c \in Commands, command[c].receipt # "none"
        PROVE  command'[c] = command[c]
    <3>1. /\ \A a \in Attempts : c \notin Pending(a)
          /\ command[c] # NoCommand
      BY <2>2 DEF ReceiptStatus, Pending, NoCommand
    <3>2. ASSUME NEW a \in Attempts, NEW d \in Commands, QueueCommand(a, d)
          PROVE  command'[c] = command[c]
      BY <3>1, <3>2 DEF QueueCommand, TypeOK
    <3>3. ASSUME NEW a \in Attempts, Heartbeat(a) PROVE command'[c] = command[c]
      BY <3>1, <3>3 DEF Heartbeat, Offered, TypeOK
    <3>4. ASSUME NEW a \in Attempts, NEW d \in Commands, NEW r \in Receipts,
                 AcknowledgeCommand(a, d, r)
          PROVE  command'[c] = command[c]
      <4>1. CASE c # d
        BY <4>1, <3>4 DEF AcknowledgeCommand, TypeOK
      <4>2. CASE c = d
        <5>1. command[c].attempt = a /\ command[c].receipt = r
          BY <4>2, <3>4, <2>2 DEF AcknowledgeCommand, AckAccepts
        <5>2. command[c].status = IF r = "error" THEN "failed" ELSE "acknowledged"
          BY <5>1, <2>2 DEF ReceiptStatus
        <5>3. command'[c] = [attempt |-> a, receipt |-> r,
                             status |-> IF r = "error" THEN "failed" ELSE "acknowledged"]
          BY <4>2, <3>4 DEF AcknowledgeCommand, TypeOK
        <5>4. command[c] \in [attempt : 0 .. MaxAttempts,
                              status : {"absent", "queued", "delivered", "unknown",
                                        "acknowledged", "failed"},
                              receipt : Receipts \cup {"none"}]
          BY DEF TypeOK
        <5>5. QED
          BY <5>1, <5>2, <5>3, <5>4
      <4>3. QED
        BY <4>1, <4>2
    <3>5. ASSUME NEW a \in Attempts, command' = EndPending(a)
          PROVE  command'[c] = command[c]
      BY <3>1, <3>5 DEF EndPending
    <3>6. QED
      BY <3>2, <3>3, <3>4, <3>5 DEF Next, CreateAttempt, PrepareConfiguration, IngestEvents,
         FinishInterrupted, HeartbeatAges, ArchiveResults, RetentionPrunes
  <2>3. QED
    BY <2>1, <2>2 DEF ReceiptsKept
<1>2. QED
  BY <1>1, TypeCorrect, ReceiptInvariant, PTL DEF Spec, ReceiptsFrozen, ReceiptsKept

\* Nothing that a request could rewrite of the past is ever rewritten.
THEOREM HistoryIsFrozen == Spec => HistoryFrozen
  BY EvidenceIsFrozen, ReceiptsAreFrozen DEF HistoryFrozen
-----------------------------------------------------------------------------
(* Refinement.                                                             *)

OpenOrEnded == [a \in Attempts |-> IF status[a] \in Active THEN "open" ELSE status[a]]

\* The journal implements AttemptLifecycle: creation opens, an accepted batch
\* records, a loss loses, and every other handler is invisible.
THEOREM JournalRefinesLifecycle == Spec => LifecycleSpec
<1>1. Init => Lifecycle!Init
  BY DEF Init, Lifecycle!Init, Lifecycle!Attempts, Attempts, Active
<1>2. JournalInv /\ [Next]_vars => [Lifecycle!Next]_(Lifecycle!vars)
  <2> SUFFICES ASSUME JournalInv, [Next]_vars PROVE [Lifecycle!Next]_(Lifecycle!vars)
    OBVIOUS
  <2> USE DEF JournalInv, OpenOrEnded
  <2>1. ASSUME NEW a \in Attempts, CreateAttempt(a) PROVE Lifecycle!Open(a)
    <3>1. OpenOrEnded' = [OpenOrEnded EXCEPT ![a] = "open"]
      BY <2>1 DEF CreateAttempt, TypeOK, Active
    <3>2. current # 0 => OpenOrEnded[current] \in Lifecycle!Closed
      BY <2>1 DEF CreateAttempt, TypeOK, Attempts, Lifecycle!Closed, Terminal, Final, Active
    <3>3. QED
      BY <2>1, <3>1, <3>2 DEF CreateAttempt, Lifecycle!Open
  <2>2. ASSUME NEW a \in Attempts, NEW b \in Batches, IngestEvents(a, b)
        PROVE  Lifecycle!Record(a)
    <3>1. /\ b.last \in 0 .. MaxSeq
          /\ nextSeq[a] \in 0 .. b.last
          /\ Extended(a, b) \in [0 .. b.last -> Bodies]
          /\ \A n \in 0 .. nextSeq[a] - 1 : Extended(a, b)[n] = rows[a][n]
          /\ \A n \in nextSeq[a] .. b.last : Extended(a, b)[n] = b.body[n]
      BY <2>2, BatchShape, ExtendedJournal DEF IngestEvents
    <3>2. /\ a = current /\ status[a] \in Active
          /\ rows' = [rows EXCEPT ![a] = Extended(a, b)]
          /\ status' = [status EXCEPT ![a] = StatusAfter(a, b)]
          /\ current' = current
      BY <2>2 DEF IngestEvents, Accepts, NewRecordsFit, Owns
    <3>3. DOMAIN rows[a] \subseteq 0 .. b.last - 1
      BY <3>1 DEF TypeOK
    <3>4. \A i \in DOMAIN rows[a] : Extended(a, b)[i] = rows[a][i]
      BY <3>1 DEF TypeOK
    <3>5. b.body[b.last] \in Bodies /\ Extended(a, b)[b.last] = b.body[b.last]
      BY <3>1, BatchShape
    <3>6. IF Extended(a, b)[b.last].kind = "run.finished"
            THEN /\ StatusAfter(a, b) = Extended(a, b)[b.last].status
                 /\ StatusAfter(a, b) \in Final
            ELSE StatusAfter(a, b) \in Active
      BY <3>2, <3>5, BodiesAssumption DEF StatusAfter, Finishes, Active
    <3>7. OpenOrEnded' = [OpenOrEnded EXCEPT ![a] =
                         IF Extended(a, b)[b.last].kind = "run.finished"
                           THEN Extended(a, b)[b.last].status ELSE "open"]
      BY <3>2, <3>6 DEF TypeOK, Active, Final
    <3>8. OpenOrEnded[a] = "open"
      BY <3>2
    <3>9. QED
      BY <3>1, <3>2, <3>3, <3>4, <3>7, <3>8 DEF Lifecycle!Record
  <2>3. ASSUME NEW a \in Attempts, NEW valid \in BOOLEAN, FinishInterrupted(a, valid),
               status[a] \in Active
        PROVE  Lifecycle!Lose(a)
    <3>1. OpenOrEnded' = [OpenOrEnded EXCEPT ![a] = "lost"]
      BY <2>3 DEF FinishInterrupted, TypeOK, Active
    <3>2. QED
      BY <2>3, <3>1 DEF FinishInterrupted, Owns, Lifecycle!Lose
  <2>4. ASSUME current' = current, rows' = rows,
               \A p \in Attempts : \/ status'[p] = status[p]
                                   \/ status[p] \in Active /\ status'[p] \in Active
        PROVE  UNCHANGED Lifecycle!vars
    BY <2>4 DEF Lifecycle!vars
  <2>5. ASSUME NEW a \in Attempts, NEW c \in Commands, QueueCommand(a, c)
        PROVE  UNCHANGED Lifecycle!vars
    BY <2>4, <2>5 DEF QueueCommand, TypeOK, Active
  <2>6. ASSUME NEW a \in Attempts, NEW valid \in BOOLEAN, FinishInterrupted(a, valid),
               status[a] \notin Active
        PROVE  UNCHANGED Lifecycle!vars
    BY <2>4, <2>6 DEF FinishInterrupted
  <2>7. QED
    BY <2>1, <2>2, <2>3, <2>4, <2>5, <2>6 DEF Next, PrepareConfiguration, Heartbeat,
       AcknowledgeCommand, HeartbeatAges, ArchiveResults, RetentionPrunes, vars, Lifecycle!Next,
       Lifecycle!Attempts, Attempts
<1>3. QED
  BY <1>1, <1>2, JournalInvariant, PTL DEF Spec, LifecycleSpec, Lifecycle!Spec
=============================================================================
