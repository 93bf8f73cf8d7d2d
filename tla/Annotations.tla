---------------------------- MODULE Annotations ----------------------------
(***************************************************************************)
(* The annotation ledger of one quality record (feedback.py).              *)
(*                                                                         *)
(* Annotators open a session, which serves them a bundle under a protocol, *)
(* and submit ratings, each a transaction: it locks its session, reads the *)
(* record, locks it, appends a row that supersedes the annotator's last    *)
(* one, and logs an event that refers to the task.  Judges re-evaluate and *)
(* owners approve meanwhile; approving locks the task first and the record *)
(* after it.  The database breaks a cycle of waiting by failing one side.  *)
(*                                                                         *)
(* A row is dated by the start of its transaction, not by its commit.      *)
(***************************************************************************)
EXTENDS Naturals, Sequences, FiniteSets, SequencesExt, FiniteSetsExt

CONSTANT AnnotationSetups    \* who rates how often, under which protocol

\* Desks are numbered from one, and "judge" is nobody's name.
ASSUME AnnotationAssumption ==
  \A s \in AnnotationSetups :
    /\ \A d \in DOMAIN s.desks : d \in Nat \ {0} /\ s.desks[d].by # "judge"
    /\ \A r \in DOMAIN s.ratings :
         s.ratings[r].human \in BOOLEAN /\ s.ratings[r].desk \in {0} \cup DOMAIN s.desks

VARIABLES ledger,      \* the rows, in the order they were committed
          desk,        \* the annotation sessions
          rating,      \* the transactions that submit a rating
          approval,    \* the transaction that approves the task
          opinion,     \* the version of the judge's profile in the record
          slot,        \* human_feedback: the row it was made from; 0: none
          noted        \* the set-up, the clock and bounds

annotationVars == <<ledger, desk, rating, approval, opinion, slot, noted>>

Unsent == [pc |-> "unsent", stamp |-> 0, saw |-> 0, since |-> 0, row |-> 0, why |-> "none"]

AnnotationsInit ==
  \E s \in AnnotationSetups :
    /\ ledger = <<>>
    /\ desk = [d \in DOMAIN s.desks |->
                 [by |-> s.desks[d].by, blind |-> s.desks[d].blind, open |-> FALSE, used |-> FALSE,
                  served |-> {}]]
    /\ rating = [r \in DOMAIN s.ratings |-> Unsent]
    /\ approval = "idle"
    /\ opinion = 1
    /\ slot = 0
    /\ noted = [setup |-> s, clock |-> 0, rejudged |-> s.rejudged, approve |-> s.approve]

Asks(r) == noted.setup.ratings[r]    \* by, human, desk (0: no session)

-----------------------------------------------------------------------------
(* Locks: whoever is between taking and releasing one                      *)

DeskHolders(d) ==
  {r \in DOMAIN rating : Asks(r).desk = d /\ rating[r].pc \in {"resolved", "read", "appended"}}
RecordHolders == {r \in DOMAIN rating : rating[r].pc = "appended"}
RecordFree == RecordHolders = {}
TaskFree == approval # "locked"

-----------------------------------------------------------------------------
(* Sessions                                                                *)

\* What a bundle shows: the judge's opinion unless it is blind, the annotator's
\* own last rating, and never the ratings of others.
Bundle(by, blind) ==
  (IF blind THEN {} ELSE {"judge"}) \cup
  {ledger[i].by : i \in {j \in DOMAIN ledger : ledger[j].by = by}}

\* start_annotation_session: session row and bundle in one transaction.
SessionStarts(d) ==
  /\ ~desk[d].open
  /\ desk' = [desk EXCEPT ![d].open = TRUE, ![d].served = Bundle(desk[d].by, desk[d].blind)]
  /\ UNCHANGED <<ledger, rating, approval, opinion, slot, noted>>

-----------------------------------------------------------------------------
(* A rating                                                                *)

Fails(r, why) == rating' = [rating EXCEPT ![r].pc = "refused", ![r].why = why]

\* put_feedback begins its transaction; a session is known once it was started.
RatingBegins(r) ==
  /\ rating[r].pc = "unsent"
  /\ Asks(r).desk # 0 => desk[Asks(r).desk].open
  /\ noted' = [noted EXCEPT !.clock = @ + 1]
  /\ rating' = [rating EXCEPT ![r].pc = "begun", ![r].stamp = noted.clock + 1, ![r].since = Len(ledger)]
  /\ UNCHANGED <<ledger, desk, approval, opinion, slot>>

MutSessionResolved(r) ==
  /\ rating[r].pc = "begun"
  /\ LET d == Asks(r).desk IN
     IF d = 0 THEN rating' = [rating EXCEPT ![r].pc = "resolved"]
     ELSE IF desk[d].by # Asks(r).by THEN Fails(r, "not yours")
          ELSE IF desk[d].used THEN rating' = [rating EXCEPT ![r].pc = "repeated"]
          ELSE rating' = [rating EXCEPT ![r].pc = "resolved"]
  /\ UNCHANGED <<ledger, desk, approval, opinion, slot, noted>>

\* resolve_annotation_session: the session's row is locked; one that was used
\* answers with the rating it produced.  Without a session nothing is claimed.
SessionResolved(r) ==
  /\ Asks(r).desk # 0 => DeskHolders(Asks(r).desk) = {}
  /\ rating[r].pc = "begun"
  /\ LET d == Asks(r).desk IN
     IF d = 0 THEN rating' = [rating EXCEPT ![r].pc = "resolved"]
     ELSE IF desk[d].by # Asks(r).by THEN Fails(r, "not yours")
          ELSE IF desk[d].used THEN rating' = [rating EXCEPT ![r].pc = "repeated"]
          ELSE rating' = [rating EXCEPT ![r].pc = "resolved"]
  /\ UNCHANGED <<ledger, desk, approval, opinion, slot, noted>>

\* _record_for: the record's profiles are read before its row is locked.
RecordRead(r) ==
  /\ rating[r].pc = "resolved"
  /\ rating' = [rating EXCEPT ![r].pc = "read", ![r].saw = opinion]
  /\ UNCHANGED <<ledger, desk, approval, opinion, slot, noted>>

Superseded == {ledger[i].supersedes : i \in DOMAIN ledger}

\* The annotator's rows; a machine has no user and is known by type and label.
RowsOf(by, human) == {i \in DOMAIN ledger : ledger[i].by = by /\ ledger[i].human = human}

MutLatest(by, human) == IF ledger = <<>> THEN 0 ELSE Len(ledger)

\* The latest of them by the date of their transactions.
Latest(by, human) ==
  LET mine == RowsOf(by, human) IN
  IF mine = {} THEN 0
  ELSE CHOOSE i \in mine : \A j \in mine : ledger[j].stamp <= ledger[i].stamp

\* The record is locked and the row is appended.  At most one row supersedes
\* another: the constraint refuses a fork.
RowAppended(r) ==
  /\ rating[r].pc = "read"
  /\ RecordFree /\ approval # "recorded"
  /\ LET last == Latest(Asks(r).by, Asks(r).human) IN
     IF last # 0 /\ last \in Superseded THEN Fails(r, "fork")
     ELSE rating' = [rating EXCEPT ![r].pc = "appended", ![r].row = last]
  /\ UNCHANGED <<ledger, desk, approval, opinion, slot, noted>>

\* The event is inserted, which needs the row of the task, and all is committed.
RatingStored(r) ==
  /\ rating[r].pc = "appended"
  /\ TaskFree
  /\ LET d == Asks(r).desk IN
     /\ ledger' = Append(ledger,
          [by |-> Asks(r).by, human |-> Asks(r).human, stamp |-> rating[r].stamp,
           blind |-> d # 0 /\ desk[d].blind, desk |-> d, saw |-> rating[r].saw,
           since |-> rating[r].since,
           supersedes |-> rating[r].row])
     /\ desk' = IF d = 0 THEN desk ELSE [desk EXCEPT ![d].used = TRUE]
  /\ slot' = IF Asks(r).human THEN Len(ledger) + 1 ELSE slot
  /\ rating' = [rating EXCEPT ![r].pc = "stored"]
  /\ UNCHANGED <<approval, opinion, noted>>

-----------------------------------------------------------------------------
(* Around the ratings                                                      *)

\* Any judge's commit changes the profiles; it needs the row of the record.
JudgeRevises ==
  /\ noted.rejudged > 0 /\ RecordFree /\ TaskFree
  /\ opinion' = opinion + 1
  /\ noted' = [noted EXCEPT !.rejudged = @ - 1]
  /\ UNCHANGED <<ledger, desk, rating, approval, slot>>

\* Approving reconciles the record: the task's row is locked first.
ApprovalLocks ==
  /\ approval = "idle" /\ noted.approve
  /\ approval' = "locked"
  /\ UNCHANGED <<ledger, desk, rating, opinion, slot, noted>>

ApprovalStores ==
  /\ approval = "locked" /\ RecordFree
  /\ approval' = "done"
  /\ UNCHANGED <<ledger, desk, rating, opinion, slot, noted>>

\* Rating and approval wait for each other: the database fails one of them.
DeadlockBroken ==
  /\ approval = "locked" /\ ~RecordFree
  /\ \/ approval' = "failed" /\ UNCHANGED rating
     \/ (\E r \in RecordHolders : Fails(r, "deadlock")) /\ UNCHANGED approval
  /\ UNCHANGED <<ledger, desk, opinion, slot, noted>>

RatingStep(r) == SessionResolved(r) \/ RecordRead(r) \/ RowAppended(r) \/ RatingStored(r)

AnnotationsNext ==
  \/ \E d \in DOMAIN desk : SessionStarts(d)
  \/ \E r \in DOMAIN rating : RatingBegins(r) \/ RatingStep(r)
  \/ JudgeRevises \/ ApprovalLocks \/ ApprovalStores \/ DeadlockBroken

AnnotationsSpec == AnnotationsInit /\ [][AnnotationsNext]_annotationVars

\* Transactions go on and the database breaks deadlocks.
AnnotationsFairness ==
  WF_annotationVars(\/ \E r \in DOMAIN rating : RatingStep(r)
                    \/ ApprovalStores \/ DeadlockBroken)

-----------------------------------------------------------------------------
(* Properties                                                              *)

Annotators == {<<ledger[i].by, ledger[i].human>> : i \in DOMAIN ledger}

\* The rows of an annotator form one chain: each rating but the first
\* supersedes a row of the same annotator, and one row is current.
ChainPerAnnotator ==
  /\ \A i \in DOMAIN ledger :
       LET up == ledger[i].supersedes IN
       up # 0 => up < i /\ ledger[up].by = ledger[i].by /\ ledger[up].human = ledger[i].human
  /\ \A a \in Annotators : Cardinality(RowsOf(a[1], a[2]) \ Superseded) = 1

\* A session vouches for one rating of its owner, which saw no other
\* annotator's, and one that counts as blind was served no opinion of a judge.
SessionVouches ==
  \A i \in {j \in DOMAIN ledger : ledger[j].desk # 0} :
    LET d == ledger[i].desk IN
    /\ \A j \in DOMAIN ledger : ledger[j].desk = d => j = i
    /\ desk[d].by = ledger[i].by
    /\ desk[d].served \subseteq {"judge", ledger[i].by}
    /\ ledger[i].blind => "judge" \notin desk[d].served

\* human_feedback shows the human rating that was stored last.
SlotIsLastHuman ==
  LET humans == {i \in DOMAIN ledger : ledger[i].human} IN
  slot = IF humans = {} THEN 0 ELSE Max(humans)

\* A rating sent after the annotator's last one was stored is paired with what
\* the judge says now, never with an older opinion.
ObservationsAdvance ==
  \A i \in DOMAIN ledger :
    LET up == ledger[i].supersedes IN
    up # 0 /\ up <= ledger[i].since => ledger[up].saw <= ledger[i].saw

\* A rating is refused for a stated reason only: the session is another's, an
\* approval deadlocked with it, or the annotator's own rows were committed in
\* another order than their transactions began.
RefusedForCause ==
  \A r \in DOMAIN rating : rating[r].why = "fork" =>
    \E i, j \in DOMAIN ledger :
      /\ i < j /\ ledger[i].stamp > ledger[j].stamp
      /\ ledger[i].by = Asks(r).by /\ ledger[j].by = Asks(r).by

\* Ratings stay independent, attributable and paired with what the judge said.
AnnotationsSound ==
  ChainPerAnnotator /\ SessionVouches /\ SlotIsLastHuman /\ ObservationsAdvance /\ RefusedForCause

\* Every rating that was sent is answered.
RatingsAnswered ==
  []<>(\A r \in DOMAIN rating : rating[r].pc \in {"unsent", "stored", "repeated", "refused"})
=============================================================================
