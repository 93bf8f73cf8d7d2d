------------------------- MODULE Experiments_proofs -------------------------
(***************************************************************************)
(* Properties of the matrix runner for every number of configurations,     *)
(* cases, lanes, requests and faults.  A tick reads its rows once and      *)
(* writes what it changed at its commits, so that the proofs relate the    *)
(* picture of a tick to the table: what is not dirty is what the table     *)
(* says, and what is dirty is a step ahead of it.                          *)
(*                                                                         *)
(* What an action does to one cell is a move: a relation between its row,  *)
(* its archived executions and its children before and after.  Each action *)
(* is shown to move every cell in one of a few ways, and each way to keep  *)
(* the types and what the row says of the archive and of the children.     *)
(*                                                                         *)
(* The types need no hypothesis.  The rest is proved where nothing but     *)
(* pausing and resuming gets between two steps of a tick (Undisturbed):    *)
(* the requests that rewrite rows do not wait for a tick, and a commit of  *)
(* one that is under way overwrites what they did.                         *)
(***************************************************************************)
EXTENDS Experiments, FiniteSetTheorems, SequenceTheorems, TLAPS

\* No request but pause and resume, and no other tick, between two steps of a tick.
Undisturbed == Overlapping \subseteq {"pause", "resume"}

-----------------------------------------------------------------------------
ExpStatuses == {"draft", "running", "paused", "deleted"} \cup ExpTerminal
ExpRow(e) == [setup : Setups, status : ExpStatuses, configs : SUBSET Configs,
              retired : SUBSET Configs, revision : Nat, spent : {e.spent}, due : BOOLEAN,
              report : {e.report}]
ChildStatuses == {"backlog", "ready", "gone"} \cup ChildTerminal
Child == [tag : {"live", "retired"}, cost : 0..MaxCost, status : ChildStatuses]
TickRow == [on : BOOLEAN, live : SUBSET Cells, view : [Cells -> Rows], todo : SUBSET Cells,
            ended : [Cells -> {"none"} \cup ChildStatuses], seen : [Cells -> 0..MaxCost],
            dirty : SUBSET Cells]

\* The types of TypeOK, and of what it leaves out: the picture of a tick names
\* children that exist, because children are never taken away.
Types ==
  /\ exp \in ExpRow(exp) /\ exp.retired \subseteq exp.configs
  /\ exp.report.revision \in Nat
  /\ cell \in [Cells -> Rows]
  /\ ledger \in [Cells -> SUBSET Nat]
  /\ child \in [Cells -> Seq(Child)]
  /\ box \in [Cells -> {"none", "preparing", "prepared", "quirk", "broken", "checking", "pass", "fail"}]
  /\ tick \in [Ticks -> TickRow]
  /\ reading.on \in BOOLEAN /\ reading.revision \in Nat
  /\ requests \in 0..exp.setup.requests /\ faults \in 0..exp.setup.faults
  /\ \A c \in Cells : cell[c].task \in 0..Len(child[c])
  /\ \A k \in Ticks : \A c \in Cells : tick[k].view[c].task \in 0..Len(child[c])

-----------------------------------------------------------------------------
Working == {"backlog", "ready"}

\* What the status of a row in use says of its child.
Fits(status, kid) ==
  /\ status = "preprocessing" => kid = "backlog"
  /\ status = "running" => kid \in {"ready"} \cup ChildTerminal
  /\ status \in {"evaluating", "success", "failed"} => kid \in ChildTerminal

\* A row r, its archived executions and its children: the executions before the
\* present one are archived, the present one only where the row no longer shows it;
\* the child it points to is the one that counts, and the only one at work.
Kept(r, archive, kids) ==
  /\ archive \subseteq 1..r.attempts
  /\ 1..(r.attempts - 1) \subseteq archive
  /\ r.status = "pending" \/ r.retired => archive = 1..r.attempts
  /\ ~r.retired /\ r.attempts \in archive => r.task = 0 /\ r.status \in {"pending", "skipped"}
  /\ r.status = "absent" => r = NoRow
  /\ r.status = "pending" => r.task = 0
  /\ r.retired => r.status \notin InFlight
  /\ ~r.retired /\ r.task # 0 => Fits(r.status, kids[r.task].status)
  /\ \A i \in DOMAIN kids :
       /\ (kids[i].tag = "live" /\ kids[i].status # "gone") <=> (i = r.task /\ ~r.retired)
       /\ kids[i].status \in Working =>
            /\ i = Len(kids) /\ i = r.task
            /\ r.retired \/ r.status \in InFlight \cup {"skipped"}

\* A row r as a poll has changed it to v, before the commit.
Polled(r, v, kids) ==
  /\ r.status \in InFlight /\ v.status \in InFlight \cup {"success", "failed"}
  /\ v.task = r.task /\ v.attempts = r.attempts /\ v.retired = r.retired /\ v.lane = r.lane
  /\ r.task # 0 =>
       /\ v.status \in {"preprocessing", "running"} => kids[r.task].status = "backlog"
       /\ v.status = "failed" => kids[r.task].status \in {"backlog"} \cup ChildTerminal
       /\ v.status \in {"evaluating", "success"} => kids[r.task].status \in ChildTerminal

\* The picture of an open tick beside the table.
Pictured(t, c, r, kids) ==
  /\ c \in t.live <=> (r.status # "absent" /\ ~r.retired)
  /\ c \in t.todo => c \in t.live /\ c \notin t.dirty /\ r.status \in InFlight
  /\ c \in t.dirty => c \in t.live /\ Polled(r, t.view[c], kids)
  /\ c \notin t.dirty => t.view[c] = r
  /\ t.ended[c] \in ChildTerminal => r.task # 0 /\ kids[r.task].status \in ChildTerminal

-----------------------------------------------------------------------------
\* One tick at a time, on an experiment that runs or is paused.
Alone ==
  /\ \A j, k \in Ticks : tick[j].on /\ tick[k].on => j = k
  /\ (\E k \in Ticks : tick[k].on) => exp.status \in {"running", "paused"} /\ ~exp.due
  /\ exp.due => exp.status \in {"running", "paused"}

\* Configurations are numbered in the order they were added, and only those of an
\* experiment that was started and not deleted have rows.
Tabled ==
  /\ exp.configs = 1..Cardinality(exp.configs)
  /\ \A c \in Cells :
       c[1] \notin exp.configs \/ exp.status \in {"draft", "deleted"} =>
         cell[c] = NoRow /\ ledger[c] = {}

\* The rows of an experiment that is not deleted; of a deleted one the children stay.
RowsKept ==
  \A c \in Cells :
    /\ exp.status # "deleted" => Kept(cell[c], ledger[c], child[c])
    /\ \A i \in DOMAIN child[c] : child[c][i].status \in Working => i = Len(child[c])

Open == \A k \in Ticks : tick[k].on => \A c \in Cells : Pictured(tick[k], c, cell[c], child[c])

\* A report of the present revision was computed after the experiment had ended.
Reported ==
  /\ exp.report.revision <= exp.revision /\ reading.revision <= exp.revision
  /\ exp.revision > 0
  /\ exp.status # "deleted" =>
       /\ exp.report.revision = exp.revision => exp.status \in ExpTerminal /\ exp.report.rows = Counted
       /\ reading.on /\ reading.revision = exp.revision =>
            exp.status \in ExpTerminal /\ reading.rows = Counted

Ended == exp.status \in ExpTerminal => \A c \in Live : cell[c].status \in CellSettled

Consistent == Alone /\ Tabled /\ RowsKept /\ Open /\ Reported /\ Ended

MatrixInv == Types /\ Consistent

-----------------------------------------------------------------------------
\* The cells are finitely many, and so are those of any part of them.
LEMMA PartsFinite == \A s \in SUBSET Cells : IsFiniteSet(s) /\ Cardinality(s) \in Nat
<1>1. IsFiniteSet(Configs) /\ IsFiniteSet(Cases)
  BY ExperimentsAssumption, FS_Interval DEF Configs, ExperimentsAssumption
<1>2. IsFiniteSet(Cells)
  BY <1>1, FS_Product DEF Cells
<1>3. QED
  BY <1>2, FS_Subset, FS_CardinalityType

\* An execution may cost nothing.
LEMMA NoCost == 0 \in 0..MaxCost
BY ExperimentsAssumption

\* One child of a sequence gets another status, ends, or is tagged as retired.
Marked(kids, n, s) == [kids EXCEPT ![n].status = s]
Done(kids, n, s, p) == [kids EXCEPT ![n].status = s, ![n].cost = p]
Tagged(kids, n) == [kids EXCEPT ![n].tag = "retired"]

\* One child of a sequence is replaced: the others, and how many there are, stay.
Replaced(kids, new, n, tag, status) ==
  /\ new \in Seq(Child) /\ Len(new) = Len(kids) /\ DOMAIN new = DOMAIN kids
  /\ new[n].tag = tag /\ new[n].status = status
  /\ \A i \in DOMAIN kids \ {n} : new[i] = kids[i]

\* An assignment to one child replaces that child.
LEMMA ChildReplaced ==
  ASSUME NEW kids \in Seq(Child), NEW n \in 1..Len(kids), NEW s \in ChildStatuses
  PROVE  /\ kids[n] \in Child /\ DOMAIN kids = 1..Len(kids)
         /\ Replaced(kids, Marked(kids, n, s), n, kids[n].tag, s)
         /\ \A p \in 0..MaxCost : Replaced(kids, Done(kids, n, s, p), n, kids[n].tag, s)
         /\ Replaced(kids, Tagged(kids, n), n, "retired", kids[n].status)
<1>1. kids[n] \in Child
  BY ElementOfSeq
<1>2. DOMAIN kids = 1..Len(kids) /\ n \in DOMAIN kids
  BY LenProperties
<1>3. ASSUME NEW x \in Child
      PROVE  Replaced(kids, [kids EXCEPT ![n] = x], n, x.tag, x.status)
  <2> DEFINE new == [kids EXCEPT ![n] = x]
  <2>1. new \in Seq(Child) /\ Len(new) = Len(kids) /\ DOMAIN new = DOMAIN kids
    BY ExceptSeq
  <2>2. new[n] = x /\ \A i \in DOMAIN kids \ {n} : new[i] = kids[i]
    BY <1>2
  <2>3. QED
    BY <2>1, <2>2 DEF Replaced
<1>4. ASSUME NEW r \in Child, NEW p \in 0..MaxCost
      PROVE  /\ [r EXCEPT !.status = s] \in Child /\ [r EXCEPT !.status = s].tag = r.tag
             /\ [r EXCEPT !.status = s].status = s
             /\ [r EXCEPT !.cost = p] \in Child /\ [r EXCEPT !.cost = p].tag = r.tag
             /\ [r EXCEPT !.cost = p].status = r.status
             /\ [r EXCEPT !.tag = "retired"] \in Child
             /\ [r EXCEPT !.tag = "retired"].tag = "retired"
             /\ [r EXCEPT !.tag = "retired"].status = r.status
  <2>1. [r EXCEPT !.status = s] \in Child
    BY DEF Child
  <2>2. [r EXCEPT !.status = s].tag = r.tag /\ [r EXCEPT !.status = s].status = s
    BY DEF Child
  <2>3. [r EXCEPT !.cost = p] \in Child
    BY DEF Child
  <2>4. [r EXCEPT !.cost = p].tag = r.tag /\ [r EXCEPT !.cost = p].status = r.status
    BY DEF Child
  <2>5. [r EXCEPT !.tag = "retired"] \in Child
    BY DEF Child
  <2>6. [r EXCEPT !.tag = "retired"].tag = "retired" /\ [r EXCEPT !.tag = "retired"].status = r.status
    BY DEF Child
  <2>7. QED
    BY <2>1, <2>2, <2>3, <2>4, <2>5, <2>6
<1>5. /\ Marked(kids, n, s) = [kids EXCEPT ![n] = [kids[n] EXCEPT !.status = s]]
      /\ Tagged(kids, n) = [kids EXCEPT ![n] = [kids[n] EXCEPT !.tag = "retired"]]
  BY Zenon DEF Marked, Tagged
<1>6. ASSUME NEW p
      PROVE  Done(kids, n, s, p) = [kids EXCEPT ![n] = [[kids[n] EXCEPT !.status = s] EXCEPT !.cost = p]]
  <2> DEFINE x == [kids[n] EXCEPT !.status = s]
             y == [kids EXCEPT ![n] = x]
  <2>1. Done(kids, n, s, p) = [y EXCEPT ![n] = [y[n] EXCEPT !.cost = p]]
    BY Zenon DEF Done
  <2>2. y[n] = x
    BY <1>2
  <2> HIDE DEF x
  <2>4. \A z : [y EXCEPT ![n] = z] = [kids EXCEPT ![n] = z]
    BY <1>2
  <2>5. QED
    BY <2>1, <2>2, <2>4 DEF x
<1>7. Replaced(kids, Marked(kids, n, s), n, kids[n].tag, s)
  <2> DEFINE x == [kids[n] EXCEPT !.status = s]
  <2>1. x \in Child /\ x.tag = kids[n].tag /\ x.status = s
    BY <1>1, <1>4, NoCost, Zenon
  <2>2. Marked(kids, n, s) = [kids EXCEPT ![n] = x]
    BY <1>5, Zenon
  <2> HIDE DEF x
  <2>3. QED
    BY <2>1, <2>2, <1>3
<1>8. ASSUME NEW p \in 0..MaxCost
      PROVE  Replaced(kids, Done(kids, n, s, p), n, kids[n].tag, s)
  <2> DEFINE w == [kids[n] EXCEPT !.status = s]
             x == [w EXCEPT !.cost = p]
  <2>0. w \in Child /\ w.tag = kids[n].tag /\ w.status = s
    BY <1>1, <1>4, NoCost, Zenon
  <2>1. x \in Child /\ x.tag = kids[n].tag /\ x.status = s
    BY <2>0, <1>4, Zenon
  <2>2. Done(kids, n, s, p) = [kids EXCEPT ![n] = x]
    BY <1>6, Zenon
  <2> HIDE DEF x
  <2>3. QED
    BY <2>1, <2>2, <1>3
<1>9. Replaced(kids, Tagged(kids, n), n, "retired", kids[n].status)
  <2> DEFINE x == [kids[n] EXCEPT !.tag = "retired"]
  <2>1. x \in Child /\ x.tag = "retired" /\ x.status = kids[n].status
    BY <1>1, <1>4, NoCost, Zenon
  <2>2. Tagged(kids, n) = [kids EXCEPT ![n] = x]
    BY <1>5, Zenon
  <2> HIDE DEF x
  <2>3. QED
    BY <2>1, <2>2, <1>3
<1>10. QED
  BY <1>1, <1>2, <1>7, <1>8, <1>9

\* A commit keeps the types of the rows and the children they point to, and adds no child.
LEMMA FlushTyped ==
  ASSUME NEW t \in TickRow, NEW rows \in [Cells -> Rows]
  PROVE  /\ Flushed(t, rows) \in [Cells -> Rows]
         /\ \A c \in Cells : Flushed(t, rows)[c].task = rows[c].task
<1>1. ASSUME NEW c \in Cells PROVE rows[c] \in Rows /\ t.view[c] \in Rows
  BY DEF TickRow
<1>2. ASSUME NEW r \in Rows, NEW v \in Rows
      PROVE  LET new == [r EXCEPT !.status = v.status, !.retried = v.retried,
                                  !.verdict = v.verdict, !.cost = v.cost]
             IN  new \in Rows /\ new.task = r.task
  BY DEF Rows
<1>3. QED
  BY <1>1, <1>2 DEF Flushed

\* Releasing children keeps their types and their number.
LEMMA ReleaseTyped ==
  ASSUME NEW t \in TickRow, child \in [Cells -> Seq(Child)],
         \A c \in Cells : t.view[c].task \in 0..Len(child[c])
  PROVE  /\ Released(t) \in [Cells -> Seq(Child)]
         /\ \A c \in Cells : Len(Released(t)[c]) = Len(child[c])
<1>1. ASSUME NEW c \in Cells PROVE Released(t)[c] \in Seq(Child) /\ Len(Released(t)[c]) = Len(child[c])
  <2>1. child[c] \in Seq(Child)
    OBVIOUS
  <2>2. CASE t.view[c].task # 0
    <3>1. t.view[c].task \in 1..Len(child[c])
      BY <2>1, <2>2, LenProperties
    <3>2. \/ Released(t)[c] = child[c]
          \/ Released(t)[c] = Marked(child[c], t.view[c].task, "ready")
          \/ Released(t)[c] = Marked(child[c], t.view[c].task, "failed")
      BY Zenon DEF Released, Marked
    <3>3. "ready" \in ChildStatuses /\ "failed" \in ChildStatuses
      BY DEF ChildStatuses, ChildTerminal
    <3>4. \A s \in ChildStatuses :
            /\ Marked(child[c], t.view[c].task, s) \in Seq(Child)
            /\ Len(Marked(child[c], t.view[c].task, s)) = Len(child[c])
      BY <2>1, <3>1, ChildReplaced, Zenon DEF Replaced
    <3>5. QED
      BY <2>1, <3>2, <3>3, <3>4
  <2>3. CASE t.view[c].task = 0
    BY <2>1, <2>3 DEF Released
  <2>4. QED
    BY <2>2, <2>3
<1>2. QED
  BY <1>1, Zenon DEF Released

-----------------------------------------------------------------------------
\* An assignment to one field of the experiment's row keeps the others.
SameExp(e, f) == f.setup = e.setup /\ f \in ExpRow(f)

\* An assignment to one field of the experiment's row keeps its type and the other fields.
LEMMA ExpEdited ==
  ASSUME NEW e, e \in ExpRow(e)
  PROVE  /\ \A x \in ExpStatuses : LET f == [e EXCEPT !.status = x] IN
              /\ SameExp(e, f) /\ f.status = x /\ f.configs = e.configs /\ f.retired = e.retired
              /\ f.revision = e.revision /\ f.due = e.due /\ f.report = e.report
         /\ \A x : LET f == [e EXCEPT !.spent = x] IN
              /\ SameExp(e, f) /\ f.status = e.status /\ f.configs = e.configs /\ f.retired = e.retired
              /\ f.revision = e.revision /\ f.due = e.due /\ f.report = e.report
         /\ \A x \in BOOLEAN : LET f == [e EXCEPT !.due = x] IN
              /\ SameExp(e, f) /\ f.status = e.status /\ f.configs = e.configs /\ f.retired = e.retired
              /\ f.revision = e.revision /\ f.due = x /\ f.report = e.report
         /\ \A x : LET f == [e EXCEPT !.report = x] IN
              /\ SameExp(e, f) /\ f.status = e.status /\ f.configs = e.configs /\ f.retired = e.retired
              /\ f.revision = e.revision /\ f.due = e.due /\ f.report = x
         /\ \A x \in Nat : LET f == [e EXCEPT !.revision = x] IN
              /\ SameExp(e, f) /\ f.status = e.status /\ f.configs = e.configs /\ f.retired = e.retired
              /\ f.revision = x /\ f.due = e.due /\ f.report = e.report
         /\ \A x \in SUBSET Configs : LET f == [e EXCEPT !.configs = x] IN
              /\ SameExp(e, f) /\ f.status = e.status /\ f.configs = x /\ f.retired = e.retired
              /\ f.revision = e.revision /\ f.due = e.due /\ f.report = e.report
         /\ \A x \in SUBSET Configs : LET f == [e EXCEPT !.retired = x] IN
              /\ SameExp(e, f) /\ f.status = e.status /\ f.configs = e.configs /\ f.retired = x
              /\ f.revision = e.revision /\ f.due = e.due /\ f.report = e.report
<1>1. QED
  BY DEF ExpRow, SameExp

-----------------------------------------------------------------------------
\* The fields a poll leaves alone, and the statuses it may leave behind.
PolledRow(v, ended, row) ==
  /\ row \in Rows
  /\ row.task = v.task /\ row.attempts = v.attempts /\ row.retired = v.retired /\ row.lane = v.lane
  /\ \/ v.status = "preprocessing" /\ row.status \in {"failed", "preprocessing"}
     \/ v.status = "preprocessing" /\ v.task # 0 /\ row.status = "running"
     \/ v.status \in InFlight /\ v.task = 0 /\ row.status = "failed"
     \/ v.status = "running" /\ ended \in ChildTerminal /\ row.status = "evaluating"
     \/ /\ v.status = "evaluating" \/ (v.status = "running" /\ ended \in ChildTerminal)
        /\ row.status \in {"success", "failed"}

\* A poll that settles a cell first commits what earlier polls changed.
Commits(k, c, row) ==
  /\ cell' = Flushed(tick[k], cell) /\ child' = Released(tick[k])
  /\ tick' = [tick EXCEPT ![k].view[c] = row, ![k].dirty = {c}, ![k].todo = @ \ {c}]

Boxes == {"none", "preparing", "prepared", "quirk", "broken", "checking", "pass", "fail"}

Polls(k, c) ==
  /\ PollOrder(k, c)
  /\ UNCHANGED <<exp, ledger, reading, requests>>
  /\ box' \in [Cells -> Boxes] /\ faults' \in 0..exp.setup.faults
  /\ \/ Pass(k, c) /\ UNCHANGED <<cell, child>>
     \/ \E row : PolledRow(tick[k].view[c], tick[k].ended[c], row)
                 /\ (Commits(k, c, row) \/ (Write(k, c, row) /\ UNCHANGED <<cell, child>>))

\* The assignments to the fields of a row; those to its status keep the others.
RowStatuses == {"absent", "pending"} \cup InFlight \cup CellSettled
WithStatus(r, s) == [r EXCEPT !.status = s]
WithRetried(r) == [r EXCEPT !.retried = TRUE]
WithVerdict(r, s, v) == [r EXCEPT !.status = s, !.verdict = v]
WithCost(r, s, v, n) == [r EXCEPT !.status = s, !.verdict = v, !.cost = n]
Becomes(r, f, s) ==
  /\ f \in Rows /\ f.status = s
  /\ f.task = r.task /\ f.attempts = r.attempts /\ f.retired = r.retired /\ f.lane = r.lane

\* The rows those assignments make, and what they keep.
LEMMA RowEdited ==
  ASSUME NEW r \in Rows, NEW s \in RowStatuses, NEW v \in {"none", "pass", "fail"}
  PROVE  /\ Becomes(r, WithStatus(r, s), s) /\ Becomes(r, WithRetried(r), r.status)
         /\ WithStatus(r, s).verdict = r.verdict
         /\ Becomes(r, WithVerdict(r, s, v), s)
         /\ \A n \in 0..MaxCost : Becomes(r, WithCost(r, s, v, n), s)
BY DEF Rows, RowStatuses, Becomes, WithStatus, WithRetried, WithVerdict, WithCost

\* The settlement of a cell, as a poll.
LEMMA SettlePolls ==
  ASSUME Types, NEW k \in Ticks, NEW c \in Cells, NEW v \in {"none", "pass", "fail"},
         Settle(k, c, v), UNCHANGED <<exp, ledger, reading, requests>>,
         faults' \in 0..exp.setup.faults, PollOrder(k, c),
         \/ tick[k].view[c].status = "evaluating"
         \/ tick[k].view[c].status = "running" /\ tick[k].ended[c] \in ChildTerminal
  PROVE  Polls(k, c)
<1> DEFINE t == tick[k]
           row == t.view[c]
           s == IF t.ended[c] = "success" THEN "success" ELSE "failed"
           done(w) == WithCost(row, s, v, w)
           lost == WithVerdict(row, "failed", v)
<1>1. row \in Rows /\ t.seen[c] \in 0..MaxCost
  BY DEF Types, TickRow
<1>2. box' \in [Cells -> Boxes]
  BY DEF Types, Settle, Boxes
<1>3. s \in {"success", "failed"} /\ s \in RowStatuses /\ "failed" \in RowStatuses /\ row.status \in InFlight
  BY DEF CellSettled, InFlight, RowStatuses
<1>4. (\A w \in 0..MaxCost : Becomes(row, done(w), s)) /\ Becomes(row, lost, "failed")
  <2> HIDE DEF row, s
  <2>1. QED
    BY <1>1, <1>3, RowEdited
<1>5. \/ Write(k, c, lost) /\ UNCHANGED <<cell, child>>
      \/ \E w \in 0..MaxCost : Commits(k, c, done(w))
  <2>1. \/ Write(k, c, lost) /\ UNCHANGED <<cell, child>>
        \/ \E w \in t.seen[c]..MaxCost : Commits(k, c, done(w))
    BY Zenon DEF Settle, Commits, WithCost, WithVerdict
  <2>2. t.seen[c]..MaxCost \subseteq 0..MaxCost
    BY <1>1, ExperimentsAssumption
  <2>3. QED
    BY <2>1, <2>2, Zenon
<1>6. (\A w \in 0..MaxCost : PolledRow(row, t.ended[c], done(w))) /\ PolledRow(row, t.ended[c], lost)
  <2> HIDE DEF done, lost, s
  <2>1. QED
    BY <1>3, <1>4 DEF PolledRow, Becomes
<1>7. QED
  <2> HIDE DEF done, lost
  <2>1. QED
    BY <1>2, <1>5, <1>6, Zenon DEF Polls

\* Each poll is one of the outcomes of Polls.
LEMMA PreprocessingPolls ==
  ASSUME Types, NEW k \in Ticks, NEW c \in Cells, PollPreprocessing(k, c)
  PROVE  Polls(k, c)
<1> DEFINE t == tick[k]
           row == t.view[c]
           failed == WithStatus(row, "failed")
           running == WithStatus(row, "running")
           again == WithRetried(row)
<1>1. row \in Rows /\ row.status = "preprocessing"
  BY DEF Types, TickRow, PollPreprocessing
<1>2. Becomes(row, failed, "failed") /\ Becomes(row, running, "running") /\ Becomes(row, again, "preprocessing")
  <2>1. "failed" \in RowStatuses /\ "running" \in RowStatuses
    BY DEF RowStatuses, InFlight, CellSettled
  <2> HIDE DEF row
  <2>2. QED
    BY <1>1, <2>1, RowEdited
<1>3. /\ PolledRow(row, t.ended[c], failed) /\ PolledRow(row, t.ended[c], again)
      /\ row.task # 0 => PolledRow(row, t.ended[c], running)
  <2> HIDE DEF failed, again, running, row
  <2>1. QED
    BY <1>1, <1>2 DEF PolledRow, Becomes
<1>4. \/ Pass(k, c) \/ Write(k, c, failed) \/ Write(k, c, again)
      \/ row.task # 0 /\ Write(k, c, running)
  BY Zenon DEF PollPreprocessing, PreprocessFails, Prepared, WithStatus, WithRetried
<1>5. box' \in [Cells -> Boxes]
  BY DEF Types, PollPreprocessing, PreprocessFails, Boxes
<1>6. faults' \in 0..exp.setup.faults
  <2>1. faults' = faults \/ (faults < exp.setup.faults /\ faults' = faults + 1)
    BY Zenon DEF PollPreprocessing
  <2>2. faults \in 0..exp.setup.faults /\ exp.setup.faults \in Nat
    BY ExperimentsAssumption DEF Types, ExpRow, Setup, ExperimentsAssumption
  <2>3. QED
    BY <2>1, <2>2
<1>7. UNCHANGED <<exp, cell, ledger, child, reading, requests>> /\ PollOrder(k, c)
  BY DEF PollPreprocessing
<1>8. QED
  <2> HIDE DEF failed, again, running
  <2>1. QED
    BY <1>3, <1>4, <1>5, <1>6, <1>7, Zenon DEF Polls

\* The poll of a running cell is one of the outcomes of Polls.
LEMMA RunningPolls ==
  ASSUME Types, NEW k \in Ticks, NEW c \in Cells, PollRunning(k, c)
  PROVE  Polls(k, c)
<1> DEFINE t == tick[k]
           row == t.view[c]
           failed == WithStatus(row, "failed")
           judged == WithStatus(row, "evaluating")
<1>1. row \in Rows /\ row.status = "running"
  BY DEF Types, TickRow, PollRunning
<1>2. Becomes(row, failed, "failed") /\ Becomes(row, judged, "evaluating")
  <2>1. "failed" \in RowStatuses /\ "evaluating" \in RowStatuses
    BY DEF RowStatuses, InFlight, CellSettled
  <2> HIDE DEF row
  <2>2. QED
    BY <1>1, <2>1, RowEdited
<1>3. /\ row.task = 0 => PolledRow(row, t.ended[c], failed)
      /\ t.ended[c] \in ChildTerminal => PolledRow(row, t.ended[c], judged)
  <2> HIDE DEF failed, judged, row
  <2>1. QED
    BY <1>1, <1>2 DEF PolledRow, Becomes, InFlight
<1>4. UNCHANGED <<exp, ledger, reading, requests>> /\ PollOrder(k, c)
  BY DEF PollRunning
<1>5. faults \in 0..exp.setup.faults /\ exp.setup.faults \in Nat
  BY ExperimentsAssumption DEF Types, ExpRow, Setup, ExperimentsAssumption
<1>6. CASE Settle(k, c, "none") /\ t.ended[c] \in ChildTerminal
  <2>1. faults' \in 0..exp.setup.faults
    <3>1. faults' = faults \/ (faults < exp.setup.faults /\ faults' = faults + 1)
      BY Zenon DEF PollRunning
    <3>2. QED
      BY <1>5, <3>1
  <2>2. QED
    BY <1>1, <1>4, <1>6, <2>1, SettlePolls
<1>7. CASE \/ row.task = 0 /\ Write(k, c, failed) /\ UNCHANGED <<cell, child, box, faults>>
           \/ Pass(k, c) /\ UNCHANGED <<cell, child, box, faults>>
           \/ /\ t.ended[c] \in ChildTerminal /\ box' = [box EXCEPT ![c] = "checking"]
              /\ Write(k, c, judged) /\ UNCHANGED <<cell, child, faults>>
  <2>1. box' \in [Cells -> Boxes] /\ faults' \in 0..exp.setup.faults
    BY <1>5, <1>7 DEF Types, Boxes
  <2>2. /\ UNCHANGED <<cell, child>>
        /\ \/ Pass(k, c)
           \/ row.task = 0 /\ Write(k, c, failed)
           \/ t.ended[c] \in ChildTerminal /\ Write(k, c, judged)
    BY <1>7
  <2> HIDE DEF failed, judged
  <2>3. QED
    BY <1>3, <1>4, <2>1, <2>2, Zenon DEF Polls
<1>8. QED
  <2>1. \/ row.task = 0 /\ Write(k, c, failed) /\ UNCHANGED <<cell, child, box, faults>>
        \/ Pass(k, c) /\ UNCHANGED <<cell, child, box, faults>>
        \/ /\ t.ended[c] \in ChildTerminal /\ box' = [box EXCEPT ![c] = "checking"]
           /\ Write(k, c, judged) /\ UNCHANGED <<cell, child, faults>>
        \/ t.ended[c] \in ChildTerminal /\ Settle(k, c, "none")
    BY Zenon DEF PollRunning, WithStatus
  <2> HIDE DEF failed, judged, t, row
  <2>2. QED
    BY <1>6, <1>7, <2>1, Zenon

\* The poll of a cell whose check is under way is one of the outcomes of Polls.
LEMMA EvaluatingPolls ==
  ASSUME Types, NEW k \in Ticks, NEW c \in Cells, PollEvaluating(k, c)
  PROVE  Polls(k, c)
<1>1. /\ UNCHANGED <<exp, ledger, reading, requests, faults>> /\ PollOrder(k, c)
      /\ tick[k].view[c].status = "evaluating" /\ faults \in 0..exp.setup.faults
  BY DEF PollEvaluating, Types
<1>2. CASE Pass(k, c) /\ UNCHANGED <<cell, child, box>>
  <2>1. box' \in [Cells -> Boxes]
    BY <1>2 DEF Types, Boxes
  <2>2. QED
    BY <1>1, <1>2, <2>1 DEF Polls
<1>3. ASSUME NEW v \in {"none", "pass", "fail"}, Settle(k, c, v) PROVE Polls(k, c)
  BY <1>1, <1>3, SettlePolls
<1>4. box[c] \in {"pass", "fail"} => box[c] \in {"none", "pass", "fail"}
  OBVIOUS
<1>5. QED
  BY <1>2, <1>3, <1>4, Zenon DEF PollEvaluating

-----------------------------------------------------------------------------
\* Children are only added.
Grows == child' \in [Cells -> Seq(Child)] /\ \A c \in Cells : Len(child'[c]) >= Len(child[c])

PictureTyped(t, kids) == t \in TickRow /\ \A c \in Cells : t.view[c].task \in 0..Len(kids[c])

\* What a picture names still exists when there are more children.
LEMMA PictureGrows ==
  ASSUME Types, Grows, NEW t, PictureTyped(t, child)
  PROVE  PictureTyped(t, child')
<1>1. ASSUME NEW c \in Cells PROVE t.view[c].task \in 0..Len(child'[c])
  <2>1. child[c] \in Seq(Child) /\ child'[c] \in Seq(Child) /\ Len(child'[c]) >= Len(child[c])
    BY DEF Types, Grows
  <2>2. Len(child[c]) \in Nat /\ Len(child'[c]) \in Nat
    BY <2>1, LenProperties
  <2>3. QED
    BY <2>1, <2>2 DEF PictureTyped
<1>2. QED
  BY <1>1 DEF PictureTyped

\* A tick that has ended names nothing.
LEMMA IdleTyped == Types => PictureTyped(Idle, child)
<1>1. ASSUME NEW c \in Cells, Types PROVE 0 \in 0..Len(child[c])
  <2>1. child[c] \in Seq(Child)
    BY <1>1 DEF Types
  <2>2. QED
    BY <2>1, LenProperties
<1>2. NoRow \in Rows /\ NoRow.task = 0
  BY NoCost DEF NoRow, Rows
<1>3. Idle \in TickRow /\ \A c \in Cells : Idle.view[c] = NoRow
  BY <1>2, NoCost DEF Idle, TickRow
<1>4. QED
  BY <1>1, <1>2, <1>3 DEF PictureTyped

\* The types of the ticks, when one of them has changed.
LEMMA TicksTyped ==
  ASSUME Types, Grows, NEW k \in Ticks, NEW t, PictureTyped(t, child'), tick' = [tick EXCEPT ![k] = t]
  PROVE  \A j \in Ticks : PictureTyped(tick'[j], child')
<1>1. ASSUME NEW j \in Ticks, j # k PROVE PictureTyped(tick'[j], child')
  <2>1. tick'[j] = tick[j] /\ PictureTyped(tick[j], child)
    BY <1>1 DEF Types, PictureTyped
  <2>2. QED
    BY <2>1, PictureGrows DEF PictureTyped
<1>2. tick'[k] = t
  BY DEF Types
<1>3. QED
  BY <1>1, <1>2 DEF PictureTyped

\* The types of all, from those of the parts.
LEMMA TypesFrom ==
  ASSUME Types, Grows,
         exp' \in ExpRow(exp'), exp'.retired \subseteq exp'.configs, exp'.report.revision \in Nat,
         exp'.setup = exp.setup, cell' \in [Cells -> Rows], ledger' \in [Cells -> SUBSET Nat],
         box' \in [Cells -> Boxes], reading'.on \in BOOLEAN, reading'.revision \in Nat,
         requests' \in 0..exp.setup.requests, faults' \in 0..exp.setup.faults,
         \A c \in Cells : cell'[c].task = cell[c].task \/ cell'[c].task \in 0..Len(child'[c]),
         DOMAIN tick' = Ticks /\ tick' = [k \in Ticks |-> tick'[k]],
         \A k \in Ticks : PictureTyped(tick'[k], child')
  PROVE  Types'
<1>1. ASSUME NEW c \in Cells PROVE cell'[c].task \in 0..Len(child'[c])
  <2>1. child[c] \in Seq(Child) /\ child'[c] \in Seq(Child) /\ Len(child'[c]) >= Len(child[c])
        /\ cell[c].task \in 0..Len(child[c])
    BY DEF Types, Grows
  <2>2. Len(child[c]) \in Nat /\ Len(child'[c]) \in Nat
    BY <2>1, LenProperties
  <2>3. QED
    BY <2>1, <2>2
<1>2. tick' \in [Ticks -> TickRow] /\ \A k \in Ticks : \A c \in Cells : tick'[k].view[c].task \in 0..Len(child'[c])
  BY DEF PictureTyped
<1>3. QED
  BY <1>1, <1>2 DEF Types, Grows, Boxes

\* The types of all, when the experiment's row, the ledger, requests and reports stay.
LEMMA TypesOfStep ==
  ASSUME Types, Grows, UNCHANGED <<exp, ledger, reading, requests>>,
         cell' \in [Cells -> Rows], box' \in [Cells -> Boxes], faults' \in 0..exp.setup.faults,
         \A c \in Cells : cell'[c].task = cell[c].task \/ cell'[c].task \in 0..Len(child'[c]),
         NEW k \in Ticks, NEW t, PictureTyped(t, child'), tick' = [tick EXCEPT ![k] = t]
  PROVE  Types'
<1>1. \A j \in Ticks : PictureTyped(tick'[j], child')
  BY TicksTyped
<1>2. DOMAIN tick' = Ticks /\ tick' = [j \in Ticks |-> tick'[j]]
  BY DEF Types
<1>3. /\ exp' \in ExpRow(exp') /\ exp'.retired \subseteq exp'.configs /\ exp'.report.revision \in Nat
      /\ exp'.setup = exp.setup /\ ledger' \in [Cells -> SUBSET Nat]
      /\ reading'.on \in BOOLEAN /\ reading'.revision \in Nat /\ requests' \in 0..exp.setup.requests
  BY DEF Types, ExpRow
<1>4. QED
  BY <1>1, <1>2, <1>3, TypesFrom

\* Polls keep the types.
LEMMA PollTypes ==
  ASSUME Types, NEW k \in Ticks, NEW c \in Cells, Polls(k, c)
  PROVE  Types'
<1> DEFINE t == tick[k]
<1>0. /\ UNCHANGED <<exp, ledger, reading, requests>> /\ t \in TickRow /\ PictureTyped(t, child)
      /\ box' \in [Cells -> Boxes] /\ faults' \in 0..exp.setup.faults /\ cell \in [Cells -> Rows]
      /\ child \in [Cells -> Seq(Child)] /\ tick \in [Ticks -> TickRow]
  BY DEF Polls, Types, PictureTyped
<1>1. CASE Pass(k, c) /\ UNCHANGED <<cell, child>>
  <2> DEFINE u == [t EXCEPT !.todo = t.todo \ {c}]
  <2>1. tick' = [tick EXCEPT ![k] = u]
    BY <1>1 DEF Pass
  <2>2. Grows
    BY <1>0, <1>1, LenProperties DEF Grows
  <2>3. u \in TickRow /\ u.view = t.view
    BY <1>0 DEF TickRow
  <2> HIDE DEF t, u
  <2>4. PictureTyped(u, child)
    BY <1>0, <2>3 DEF PictureTyped
  <2>5. PictureTyped(u, child')
    BY <2>2, <2>4, PictureGrows
  <2>6. \A d \in Cells : cell'[d].task = cell[d].task
    BY <1>1
  <2>7. cell' \in [Cells -> Rows]
    BY <1>0, <1>1
  <2>8. QED
    BY <1>0, <2>1, <2>2, <2>5, <2>6, <2>7, TypesOfStep
<1>2. ASSUME NEW row, PolledRow(t.view[c], t.ended[c], row), NEW dirty \in SUBSET Cells,
             Grows, cell' \in [Cells -> Rows], \A d \in Cells : cell'[d].task = cell[d].task,
             tick' = [tick EXCEPT ![k] = [[[t EXCEPT !.view = [t.view EXCEPT ![c] = row]]
                                             EXCEPT !.dirty = dirty] EXCEPT !.todo = t.todo \ {c}]]
      PROVE  Types'
  <2> DEFINE view == [t.view EXCEPT ![c] = row]
             t1 == [t EXCEPT !.view = view]
             t2 == [t1 EXCEPT !.dirty = dirty]
             u == [t2 EXCEPT !.todo = t.todo \ {c}]
  <2>1. view \in [Cells -> Rows] /\ \A d \in Cells : view[d].task = t.view[d].task
    BY <1>0, <1>2 DEF PolledRow, TickRow
  <2> HIDE DEF view
  <2>2. t1 \in TickRow /\ t1.view = view
    BY <1>0, <2>1 DEF TickRow
  <2> HIDE DEF t1
  <2>3. t2 \in TickRow /\ t2.view = view
    BY <1>2, <2>2 DEF TickRow
  <2> HIDE DEF t2
  <2>4. t.todo \ {c} \in SUBSET Cells
    BY <1>0 DEF TickRow
  <2>5. u \in TickRow /\ u.view = view
    BY <2>3, <2>4 DEF TickRow
  <2>6. tick' = [tick EXCEPT ![k] = u]
    BY <1>2 DEF u, t2, t1, view
  <2> HIDE DEF t, u
  <2>7. PictureTyped(u, child)
    BY <1>0, <2>1, <2>5 DEF PictureTyped
  <2>8. PictureTyped(u, child')
    BY <1>2, <2>7, PictureGrows
  <2>9. QED
    BY <1>0, <1>2, <2>6, <2>8, TypesOfStep
<1>3. ASSUME NEW row, PolledRow(t.view[c], t.ended[c], row), Write(k, c, row), UNCHANGED <<cell, child>>
      PROVE  Types'
  <2>1. t.dirty \cup {c} \in SUBSET Cells
    BY <1>0 DEF TickRow
  <2>2. tick' = [tick EXCEPT ![k] = [[[t EXCEPT !.view = [t.view EXCEPT ![c] = row]]
                                             EXCEPT !.dirty = t.dirty \cup {c}] EXCEPT !.todo = t.todo \ {c}]]
    BY <1>0, <1>3 DEF Write, TickRow
  <2>3. Grows
    BY <1>0, <1>3, LenProperties DEF Grows
  <2>4. cell' \in [Cells -> Rows] /\ \A d \in Cells : cell'[d].task = cell[d].task
    BY <1>0, <1>3
  <2>5. QED
    BY <1>2, <1>3, <2>1, <2>2, <2>3, <2>4
<1>4. ASSUME NEW row, PolledRow(t.view[c], t.ended[c], row), Commits(k, c, row)
      PROVE  Types'
  <2>1. {c} \in SUBSET Cells
    OBVIOUS
  <2>2. tick' = [tick EXCEPT ![k] = [[[t EXCEPT !.view = [t.view EXCEPT ![c] = row]]
                                             EXCEPT !.dirty = {c}] EXCEPT !.todo = t.todo \ {c}]]
    BY <1>0, <1>4 DEF Commits, TickRow
  <2>3. Grows
    <3>1. /\ Released(t) \in [Cells -> Seq(Child)]
          /\ \A d \in Cells : Len(Released(t)[d]) = Len(child[d])
      BY <1>0, ReleaseTyped DEF PictureTyped
    <3>2. \A d \in Cells : Len(child[d]) \in Nat
      BY <1>0, LenProperties
    <3>3. QED
      BY <1>4, <3>1, <3>2 DEF Grows, Commits
  <2>4. cell' \in [Cells -> Rows] /\ \A d \in Cells : cell'[d].task = cell[d].task
    BY <1>0, <1>4, FlushTyped DEF Commits
  <2>5. QED
    BY <1>2, <1>4, <2>1, <2>2, <2>3, <2>4
<1>5. QED
  BY <1>1, <1>3, <1>4, Zenon DEF Polls

-----------------------------------------------------------------------------
\* What a step makes of the experiment's row.
ExpBecomes(status, configs, retired, revision, due, report) ==
  /\ SameExp(exp, exp')
  /\ exp'.status = status /\ exp'.configs = configs /\ exp'.retired = retired
  /\ exp'.revision = revision /\ exp'.due = due /\ exp'.report = report

Unwritten == [revision |-> 0, rows |-> {}]

\* A mutation moves the revision and drops the cached report.
LEMMA BumpedTo ==
  ASSUME NEW e, e \in ExpRow(e)
  PROVE  LET f == Bumped(e) IN
         /\ SameExp(e, f) /\ f.status = e.status /\ f.configs = e.configs /\ f.retired = e.retired
         /\ f.revision = e.revision + 1 /\ f.due = e.due /\ f.report = Unwritten
<1> DEFINE n == e.revision + 1
           x == [e EXCEPT !.revision = n]
<1>1. n \in Nat
  BY DEF ExpRow
<1> HIDE DEF n
<1>2. /\ SameExp(e, x) /\ x.status = e.status /\ x.configs = e.configs /\ x.retired = e.retired
      /\ x.revision = n /\ x.due = e.due /\ x.report = e.report
  BY <1>1, ExpEdited
<1> DEFINE y == [x EXCEPT !.report = Unwritten]
<1>3. Bumped(e) = y
  BY Zenon DEF Bumped, Unwritten, n
<1> HIDE DEF x
<1>4. /\ SameExp(x, y) /\ y.status = x.status /\ y.configs = x.configs /\ y.retired = x.retired
      /\ y.revision = x.revision /\ y.due = x.due /\ y.report = Unwritten
  <2>1. x \in ExpRow(x)
    BY <1>2 DEF SameExp
  <2>2. QED
    BY <2>1, ExpEdited
<1> HIDE DEF y
<1>5. QED
  BY <1>2, <1>3, <1>4 DEF SameExp, n

\* The row of the experiment after the steps of a tick.
LEMMA TickExp ==
  ASSUME Types, NEW k \in Ticks
  PROVE  /\ TickBegin(k) =>
              /\ ExpBecomes(exp.status, exp.configs, exp.retired, exp.revision, exp'.due, exp.report)
              /\ exp'.due \in BOOLEAN /\ exp'.due => exp.due /\ k # "api"
         /\ \A list, broken, childless :
              ClaimAll(k, list, broken, childless) =>
                ExpBecomes(exp.status, exp.configs, exp.retired, exp.revision, exp.due, exp.report)
<1>0. exp \in ExpRow(exp) /\ exp.due \in BOOLEAN
  BY DEF Types, ExpRow
<1>1. ASSUME TickBegin(k)
      PROVE  /\ ExpBecomes(exp.status, exp.configs, exp.retired, exp.revision, exp'.due, exp.report)
             /\ exp'.due \in BOOLEAN /\ exp'.due => exp.due /\ k # "api"
  <2>1. CASE k = "api"
    <3>1. exp' = [exp EXCEPT !.due = FALSE]
      BY <1>1, <2>1, Zenon DEF TickBegin
    <3>2. QED
      BY <1>0, <3>1, ExpEdited DEF ExpBecomes
  <2>2. CASE k # "api"
    <3>1. exp' = exp
      BY <1>1, <2>2, Zenon DEF TickBegin
    <3>2. QED
      BY <1>0, <2>2, <3>1 DEF ExpBecomes, SameExp
  <2>3. QED
    BY <2>1, <2>2
<1>2. ASSUME NEW list, NEW broken, NEW childless, ClaimAll(k, list, broken, childless)
      PROVE  ExpBecomes(exp.status, exp.configs, exp.retired, exp.revision, exp.due, exp.report)
  <2> DEFINE x == Spent(tick[k])
  <2>1. exp' = [exp EXCEPT !.spent = x]
    BY <1>2, Zenon DEF ClaimAll
  <2> HIDE DEF x
  <2>2. QED
    BY <1>0, <2>1, ExpEdited DEF ExpBecomes
<1>3. QED
  BY <1>1, <1>2

\* Nothing is claimed: what the budget skips, and whether the experiment ends.
Over(t) ==
  [t EXCEPT !.view = [c \in Cells |->
              IF Hit(t) /\ c \in InView(t, {"pending"}) THEN [t.view[c] EXCEPT !.status = "skipped"]
              ELSE t.view[c]],
            !.dirty = IF Hit(t) THEN @ \cup InView(t, {"pending"}) ELSE @]
Ends(t) == InView(t, InFlight) = {} /\ InView(Over(t), {"pending"}) = {}

\* What Finish assigns, in terms of the picture after the budget has skipped what waits.
LEMMA FinishParts ==
  ASSUME NEW k, Finish(k)
  PROVE  /\ Decides(k) /\ Exhausted(tick[k])
         /\ cell' = Flushed(Over(tick[k]), cell)
         /\ child' = Released(Over(tick[k]))
         /\ exp' = [exp EXCEPT !.spent = Spent(tick[k]),
                     !.status = IF Ends(tick[k]) THEN Verdict(Over(tick[k]).view, tick[k].live) ELSE @]
         /\ tick' = [tick EXCEPT ![k] = Idle]
         /\ UNCHANGED <<ledger, box, reading, requests, faults>>
<1>1. Decides(k) /\ Exhausted(tick[k])
  BY DEF Finish
<1>2. cell' = Flushed(Over(tick[k]), cell)
  BY Zenon DEF Finish, Over
<1>3. child' = Released(Over(tick[k]))
  BY Zenon DEF Finish, Over
<1>4. tick' = [tick EXCEPT ![k] = Idle] /\ UNCHANGED <<ledger, box, reading, requests, faults>>
  BY DEF Finish
<1>5. exp' = [exp EXCEPT !.spent = Spent(tick[k]),
               !.status = IF Ends(tick[k]) THEN Verdict(Over(tick[k]).view, tick[k].live) ELSE @]
  BY Zenon DEF Finish, Over, Ends
<1>6. QED
  BY <1>1, <1>2, <1>3, <1>4, <1>5

\* A tick that finishes leaves the status, or the verdict over the rows as it saw them.
LEMMA FinishExp ==
  ASSUME Types, NEW k \in Ticks, Finish(k)
  PROVE  /\ ExpBecomes(exp'.status, exp.configs, exp.retired, exp.revision, exp.due, exp.report)
         /\ Ends(tick[k]) => exp'.status \in ExpTerminal
         /\ ~Ends(tick[k]) => exp'.status = exp.status
<1> DEFINE v == Verdict(Over(tick[k]).view, tick[k].live)
           x == Spent(tick[k])
           y == [exp EXCEPT !.spent = x]
           s == IF Ends(tick[k]) THEN v ELSE exp.status
<1>0. exp \in ExpRow(exp) /\ exp.status \in ExpStatuses
  BY DEF Types, ExpRow
<1>1. v \in ExpTerminal
  BY DEF Verdict, ExpTerminal
<1>2. exp' = [y EXCEPT !.status = s]
  BY FinishParts, Zenon
<1> HIDE DEF v, x
<1>3. /\ SameExp(exp, y) /\ y.status = exp.status /\ y.configs = exp.configs /\ y.retired = exp.retired
      /\ y.revision = exp.revision /\ y.due = exp.due /\ y.report = exp.report
  BY <1>0, ExpEdited
<1>4. s \in ExpStatuses
  BY <1>0, <1>1 DEF ExpStatuses
<1> HIDE DEF y
<1>5. exp'.status = s /\ ExpBecomes(s, exp.configs, exp.retired, exp.revision, exp.due, exp.report)
  <2> HIDE DEF s
  <2>1. QED
    BY <1>2, <1>3, <1>4, ExpEdited DEF ExpBecomes, SameExp
<1>6. QED
  BY <1>1, <1>5

\* The row of the experiment after the requests of users.
LEMMA RequestExp ==
  ASSUME Types
  PROVE  /\ Start => /\ ExpBecomes("running", exp.configs, exp.retired, exp.revision, exp'.due, exp.report)
                     /\ exp'.due \in BOOLEAN
         /\ Pause => ExpBecomes("paused", exp.configs, exp.retired, exp.revision, exp.due, exp.report)
         /\ Resume => ExpBecomes("running", exp.configs, exp.retired, exp.revision, exp.due, exp.report)
         /\ Cancel => ExpBecomes("cancelled", exp.configs, exp.retired, exp.revision, exp.due, exp.report)
         /\ DeleteExperiment =>
              ExpBecomes("deleted", exp.configs, exp.retired, exp.revision, exp.due, exp.report)
         /\ RetryFailed =>
              ExpBecomes("running", exp.configs, exp.retired, exp.revision + 1, exp.due, Unwritten)
<1>0. exp \in ExpRow(exp) /\ {"running", "paused", "cancelled", "deleted"} \subseteq ExpStatuses
  BY DEF Types, ExpStatuses, ExpTerminal
<1>1. ASSUME Start
      PROVE  /\ ExpBecomes("running", exp.configs, exp.retired, exp.revision, exp'.due, exp.report)
             /\ exp'.due \in BOOLEAN
  <2> DEFINE b == "api" \in Ticks
             y == [exp EXCEPT !.status = "running"]
  <2>0. b \in BOOLEAN
    OBVIOUS
  <2>1. exp' = [y EXCEPT !.due = b]
    BY <1>1 DEF Start
  <2> HIDE DEF b
  <2>2. /\ SameExp(exp, y) /\ y.status = "running" /\ y.configs = exp.configs /\ y.retired = exp.retired
        /\ y.revision = exp.revision /\ y.due = exp.due /\ y.report = exp.report
    BY <1>0, ExpEdited
  <2> HIDE DEF y
  <2>3. QED
    BY <2>0, <2>1, <2>2, ExpEdited DEF ExpBecomes, SameExp
<1>2. ASSUME NEW s \in ExpStatuses, exp' = [exp EXCEPT !.status = s]
      PROVE  ExpBecomes(s, exp.configs, exp.retired, exp.revision, exp.due, exp.report)
  BY <1>0, <1>2, ExpEdited DEF ExpBecomes
<1>3. ASSUME RetryFailed
      PROVE  ExpBecomes("running", exp.configs, exp.retired, exp.revision + 1, exp.due, Unwritten)
  <2> DEFINE y == [exp EXCEPT !.status = "running"]
  <2>1. exp' = Bumped(y)
    BY <1>3, Zenon DEF RetryFailed
  <2>2. /\ SameExp(exp, y) /\ y.status = "running" /\ y.configs = exp.configs /\ y.retired = exp.retired
        /\ y.revision = exp.revision /\ y.due = exp.due /\ y.report = exp.report
    BY <1>0, ExpEdited
  <2> HIDE DEF y
  <2>3. QED
    BY <2>1, <2>2, BumpedTo DEF ExpBecomes, SameExp
<1>4. Pause => exp' = [exp EXCEPT !.status = "paused"]
  BY Zenon DEF Pause
<1>5. Resume => exp' = [exp EXCEPT !.status = "running"]
  BY Zenon DEF Resume
<1>6. Cancel => exp' = [exp EXCEPT !.status = "cancelled"]
  BY Zenon DEF Cancel
<1>7. DeleteExperiment => exp' = [exp EXCEPT !.status = "deleted"]
  BY Zenon DEF DeleteExperiment
<1>8. QED
  BY <1>0, <1>1, <1>2, <1>3, <1>4, <1>5, <1>6, <1>7

\* A configuration is added under the next number, and an ended experiment runs again.
LEMMA AddExp ==
  ASSUME Types, AddConfig
  PROVE  LET g == Cardinality(exp.configs) + 1 IN
         /\ g \in Configs
         /\ ExpBecomes(exp'.status, exp.configs \cup {g}, exp.retired, exp.revision + 1, exp.due, Unwritten)
         /\ exp'.status = IF exp.status \in ExpTerminal THEN "running" ELSE exp.status
<1> DEFINE g == Cardinality(exp.configs) + 1
           s == IF exp.status \in ExpTerminal THEN "running" ELSE exp.status
           w == exp.configs \cup {g}
           x == [exp EXCEPT !.configs = w]
           y == [x EXCEPT !.status = s]
<1>0. exp \in ExpRow(exp) /\ s \in ExpStatuses /\ exp.configs \subseteq Configs
  BY DEF Types, ExpRow, ExpStatuses
<1>1. g \in Configs
  BY DEF AddConfig
<1>2. exp' = Bumped(y)
  BY Zenon DEF AddConfig
<1>3. w \in SUBSET Configs
  BY <1>0, <1>1
<1> HIDE DEF s, g, w
<1>4. /\ SameExp(exp, x) /\ x.status = exp.status /\ x.configs = w /\ x.retired = exp.retired
      /\ x.revision = exp.revision /\ x.due = exp.due /\ x.report = exp.report
  BY <1>0, <1>3, ExpEdited
<1> HIDE DEF x
<1>5. /\ SameExp(x, y) /\ y.status = s /\ y.configs = w /\ y.retired = x.retired
      /\ y.revision = x.revision /\ y.due = x.due /\ y.report = x.report
  BY <1>0, <1>4, ExpEdited DEF SameExp
<1> HIDE DEF y
<1>6. ExpBecomes(s, w, exp.retired, exp.revision + 1, exp.due, Unwritten)
  BY <1>2, <1>4, <1>5, BumpedTo DEF ExpBecomes, SameExp
<1>7. QED
  BY <1>1, <1>6 DEF ExpBecomes, w, s, g

\* Retiring a configuration leaves the status, or judges the rows that remain.
LEMMA RetireExp ==
  ASSUME Types, NEW g \in Configs, RetireConfig(g)
  PROVE  /\ ExpBecomes(exp'.status, exp.configs, exp.retired \cup {g}, exp.revision + 1, exp.due, Unwritten)
         /\ \/ exp'.status = exp.status
            \/ exp.status \in ExpTerminal /\ exp'.status \in ExpTerminal
<1> DEFINE mine == {c \in Cells : c[1] = g /\ cell[c].status # "absent"}
           rest == Live \ mine
           flying == {c \in rest : cell[c].status \in InFlight /\ cell[c].task # 0}
           n == TotalCost([c \in rest |-> cell[c].cost])
                + TotalCost([c \in flying |-> child[c][cell[c].task].cost])
           w == exp.retired \cup {g}
           v == Verdict(cell, rest)
           s == IF exp.status \notin ExpTerminal \/ rest = {}
                   \/ \E c \in rest : cell[c].status \in InFlight \cup {"pending"}
                THEN exp.status ELSE v
           x == [exp EXCEPT !.retired = w]
           y == [x EXCEPT !.spent = n]
           z == [y EXCEPT !.status = s]
<1>0. exp \in ExpRow(exp) /\ exp.status \in ExpStatuses /\ exp.retired \subseteq Configs
  BY DEF Types, ExpRow
<1>1. v \in ExpTerminal
  BY DEF Verdict, ExpTerminal
<1>2. exp' = Bumped(z)
  BY Zenon DEF RetireConfig
<1>3. w \in SUBSET Configs
  BY <1>0
<1> HIDE DEF w, v, n
<1>4. s \in ExpStatuses /\ (s = exp.status \/ (exp.status \in ExpTerminal /\ s \in ExpTerminal))
  BY <1>0, <1>1 DEF ExpStatuses
<1> HIDE DEF s
<1>5. /\ SameExp(exp, x) /\ x.status = exp.status /\ x.configs = exp.configs /\ x.retired = w
      /\ x.revision = exp.revision /\ x.due = exp.due /\ x.report = exp.report
  BY <1>0, <1>3, ExpEdited
<1> HIDE DEF x
<1>6. /\ SameExp(x, y) /\ y.status = x.status /\ y.configs = x.configs /\ y.retired = w
      /\ y.revision = x.revision /\ y.due = x.due /\ y.report = x.report
  BY <1>5, ExpEdited DEF SameExp
<1> HIDE DEF y
<1>7. /\ SameExp(y, z) /\ z.status = s /\ z.configs = y.configs /\ z.retired = w
      /\ z.revision = y.revision /\ z.due = y.due /\ z.report = y.report
  BY <1>4, <1>6, ExpEdited DEF SameExp
<1> HIDE DEF z
<1>8. ExpBecomes(s, exp.configs, w, exp.revision + 1, exp.due, Unwritten)
  BY <1>2, <1>5, <1>6, <1>7, BumpedTo DEF ExpBecomes, SameExp
<1>9. QED
  BY <1>4, <1>8 DEF ExpBecomes, w

\* A report that is written replaces the one that is kept.
LEMMA ReportExp ==
  ASSUME Types, ReportEnds
  PROVE  /\ ExpBecomes(exp.status, exp.configs, exp.retired, exp.revision, exp.due, exp'.report)
         /\ \/ exp.status = "deleted" /\ exp'.report = exp.report
            \/ \E rows \in {reading.rows, Counted} :
                 exp'.report = [revision |-> reading.revision, rows |-> rows]
<1>0. exp \in ExpRow(exp)
  BY DEF Types
<1>1. CASE exp.status = "deleted"
  <2>1. exp' = exp
    BY <1>1, Zenon DEF ReportEnds
  <2>2. QED
    BY <1>0, <1>1, <2>1 DEF ExpBecomes, SameExp
<1>2. CASE exp.status # "deleted"
  <2>1. PICK rows \in {reading.rows, Counted} :
          exp' = [exp EXCEPT !.report = [revision |-> reading.revision, rows |-> rows]]
    BY <1>2, Zenon DEF ReportEnds
  <2> DEFINE r == [revision |-> reading.revision, rows |-> rows]
  <2>2. exp' = [exp EXCEPT !.report = r]
    BY <2>1, Zenon
  <2> HIDE DEF r
  <2>3. ExpBecomes(exp.status, exp.configs, exp.retired, exp.revision, exp.due, r)
    BY <1>0, <2>2, ExpEdited DEF ExpBecomes
  <2>4. exp'.report = r
    BY <2>3 DEF ExpBecomes
  <2>5. QED
    BY <2>3, <2>4, Zenon DEF r
<1>3. QED
  BY <1>1, <1>2

-----------------------------------------------------------------------------
\* What can happen to a cell: its row r, its archive a and its children become
\* f, b and new.  These are the steps of agents and users.
Typed(r, a, kids) ==
  r \in Rows /\ a \in SUBSET Nat /\ kids \in Seq(Child) /\ r.task \in 0..Len(kids)

Rests(r, a, kids, f, b, new) == f = r /\ b = a /\ new = kids

Executed(r, a, kids, f, b, new) ==
  /\ f = r /\ b = a
  /\ \E i \in DOMAIN kids, s \in ChildTerminal, p \in 0..MaxCost : kids[i].status = "ready" /\ new = Done(kids, i, s, p)

Begun(r, a, kids, f, b, new) == f = Pending /\ b = a /\ new = kids

Skipped(r, a, kids, f, b, new) ==
  /\ r.status \in {"pending"} \cup InFlight /\ ~r.retired
  /\ f = WithStatus(r, "skipped") /\ b = a
  /\ \/ new = kids
     \/ r.task # 0 /\ kids[r.task].status = "ready" /\ new = Marked(kids, r.task, "failed")

\* The archive after a retry or a retirement, and the children without the one replaced.
Archive(r, a) == IF r.attempts = 0 THEN a ELSE a \cup {r.attempts}
Replaces(r, kids) == IF r.task = 0 THEN kids ELSE Tagged(kids, r.task)

Again(n) == [Pending EXCEPT !.attempts = n]
Retried(r, a, kids, f, b, new) ==
  /\ r.status = "failed" /\ ~r.retired
  /\ f = Again(r.attempts) /\ b = Archive(r, a) /\ new = Replaces(r, kids)

OutOfUse(r, s) == [r EXCEPT !.retired = TRUE, !.status = s]
Retired(r, a, kids, f, b, new) ==
  /\ r.status # "absent" /\ b = Archive(r, a)
  /\ f = OutOfUse(r, IF r.status \in InFlight THEN "failed" ELSE r.status)
  /\ \/ new = Replaces(r, kids)
     \/ /\ r.task # 0 /\ kids[r.task].status = "ready"
        /\ new = Replaces(r, Marked(kids, r.task, "failed"))

Without(r) == [r EXCEPT !.task = 0]
Unlinked(r, a, kids, f, b, new) ==
  /\ r.task # 0 /\ kids[r.task].status = "backlog"
  /\ f = Without(r) /\ b = a /\ new = Marked(kids, r.task, "gone")

Removed(r, a, kids, f, b, new) == f = NoRow /\ b = {} /\ new = kids

Move(r, a, kids, f, b, new) ==
  \/ Rests(r, a, kids, f, b, new) \/ Executed(r, a, kids, f, b, new)
  \/ Begun(r, a, kids, f, b, new) \/ Skipped(r, a, kids, f, b, new)
  \/ Retried(r, a, kids, f, b, new) \/ Retired(r, a, kids, f, b, new)
  \/ Unlinked(r, a, kids, f, b, new) \/ Removed(r, a, kids, f, b, new)

\* The rows these moves leave behind.
LEMMA RowsMade ==
  /\ NoRow \in Rows /\ Pending \in Rows /\ NoRow.task = 0 /\ Pending.task = 0
  /\ Pending.status = "pending" /\ ~Pending.retired /\ Pending.attempts = 0
  /\ NoRow.status = "absent" /\ ~NoRow.retired /\ NoRow.attempts = 0
  /\ \A n \in Nat : /\ Again(n) \in Rows /\ Again(n).task = 0 /\ Again(n).status = "pending"
                    /\ ~Again(n).retired /\ Again(n).attempts = n
  /\ \A r \in Rows : \A s \in RowStatuses :
       /\ OutOfUse(r, s) \in Rows /\ OutOfUse(r, s).task = r.task /\ OutOfUse(r, s).status = s
       /\ OutOfUse(r, s).retired /\ OutOfUse(r, s).attempts = r.attempts
  /\ \A r \in Rows :
       /\ Without(r) \in Rows /\ Without(r).task = 0 /\ Without(r).status = r.status
       /\ Without(r).retired = r.retired /\ Without(r).attempts = r.attempts
       /\ Without(r).verdict = r.verdict
<1>1. NoRow \in Rows /\ NoRow.task = 0 /\ NoRow.status = "absent" /\ ~NoRow.retired /\ NoRow.attempts = 0
  BY NoCost DEF NoRow, Rows
<1>2. /\ Pending \in Rows /\ Pending.task = 0
      /\ Pending.status = "pending" /\ ~Pending.retired /\ Pending.attempts = 0
  <2>1. "pending" \in RowStatuses /\ "none" \in {"none", "pass", "fail"}
    BY DEF RowStatuses
  <2>2. Becomes(NoRow, WithStatus(NoRow, "pending"), "pending")
    BY <1>1, <2>1, RowEdited
  <2>3. Pending = WithStatus(NoRow, "pending")
    BY Zenon DEF Pending, WithStatus
  <2>4. QED
    BY <1>1, <2>2, <2>3 DEF Becomes
<1>3. ASSUME NEW n \in Nat
      PROVE  /\ Again(n) \in Rows /\ Again(n).task = 0 /\ Again(n).status = "pending"
             /\ ~Again(n).retired /\ Again(n).attempts = n
  BY <1>2 DEF Again, Rows
<1>4. ASSUME NEW r \in Rows, NEW s \in RowStatuses
      PROVE  /\ OutOfUse(r, s) \in Rows /\ OutOfUse(r, s).task = r.task /\ OutOfUse(r, s).status = s
             /\ OutOfUse(r, s).retired /\ OutOfUse(r, s).attempts = r.attempts
  BY DEF OutOfUse, Rows, RowStatuses
<1>5. ASSUME NEW r \in Rows
      PROVE  /\ Without(r) \in Rows /\ Without(r).task = 0 /\ Without(r).status = r.status
             /\ Without(r).retired = r.retired /\ Without(r).attempts = r.attempts
             /\ Without(r).verdict = r.verdict
  BY DEF Without, Rows
<1>6. QED
  BY <1>1, <1>2, <1>3, <1>4, <1>5

\* How a move changes the children: it adds none and takes none away; one that changed is
\* the one a row points to, or one that was at work.
LEMMA ChildrenMoved ==
  ASSUME NEW r, NEW a, NEW kids, NEW f, NEW b, NEW new,
         Typed(r, a, kids), Move(r, a, kids, f, b, new)
  PROVE  new \in Seq(Child) /\ Len(new) = Len(kids) /\ DOMAIN new = DOMAIN kids
<1>1. /\ kids \in Seq(Child) /\ Len(kids) \in Nat /\ DOMAIN kids = 1..Len(kids)
      /\ r.task # 0 => r.task \in 1..Len(kids)
      /\ {"failed", "gone", "success"} \subseteq ChildStatuses /\ ChildTerminal \subseteq ChildStatuses
  BY LenProperties DEF Typed, ChildStatuses, ChildTerminal
<1>2. \/ new = kids
      \/ \E i \in DOMAIN kids, s \in ChildTerminal, p \in 0..MaxCost : new = Done(kids, i, s, p)
      \/ r.task # 0 /\ new = Marked(kids, r.task, "failed")
      \/ r.task # 0 /\ new = Marked(kids, r.task, "gone")
      \/ r.task # 0 /\ new = Tagged(kids, r.task)
      \/ r.task # 0 /\ new = Tagged(Marked(kids, r.task, "failed"), r.task)
  BY DEF Move, Rests, Executed, Begun, Skipped, Retried, Retired, Unlinked, Removed, Replaces
<1>3. ASSUME NEW n \in 1..Len(kids), NEW s \in ChildStatuses
      PROVE  \A w : (w = Marked(kids, n, s) \/ w = Tagged(kids, n)
                    \/ \E p \in 0..MaxCost : w = Done(kids, n, s, p)) =>
               w \in Seq(Child) /\ Len(w) = Len(kids) /\ DOMAIN w = DOMAIN kids
  <2>1. /\ Replaced(kids, Marked(kids, n, s), n, kids[n].tag, s)
        /\ \A p \in 0..MaxCost : Replaced(kids, Done(kids, n, s, p), n, kids[n].tag, s)
        /\ Replaced(kids, Tagged(kids, n), n, "retired", kids[n].status)
    BY <1>1, ChildReplaced
  <2>2. QED
    BY <2>1, Zenon DEF Replaced
<1>4. ASSUME r.task # 0
      PROVE  LET w == Tagged(Marked(kids, r.task, "failed"), r.task) IN
             w \in Seq(Child) /\ Len(w) = Len(kids) /\ DOMAIN w = DOMAIN kids
  <2> DEFINE x == Marked(kids, r.task, "failed")
  <2>1. x \in Seq(Child) /\ Len(x) = Len(kids) /\ DOMAIN x = DOMAIN kids
    BY <1>1, <1>3, <1>4
  <2> HIDE DEF x
  <2>2. r.task \in 1..Len(x)
    BY <1>1, <1>4, <2>1
  <2>3. Replaced(x, Tagged(x, r.task), r.task, "retired", x[r.task].status)
    BY <1>1, <2>1, <2>2, ChildReplaced
  <2>4. QED
    BY <2>1, <2>3 DEF Replaced, x
<1>5. QED
  <2>1. CASE r.task # 0
    BY <1>1, <1>2, <1>3, <1>4, <2>1
  <2>2. CASE r.task = 0
    BY <1>1, <1>2, <1>3, <2>2
  <2>3. QED
    BY <2>1, <2>2

\* A move keeps the types.
LEMMA MoveTyped ==
  ASSUME NEW r, NEW a, NEW kids, NEW f, NEW b, NEW new,
         Typed(r, a, kids), Move(r, a, kids, f, b, new)
  PROVE  Typed(f, b, new) /\ Len(new) = Len(kids)
<1>1. new \in Seq(Child) /\ Len(new) = Len(kids) /\ Len(kids) \in Nat
  <2>1. new \in Seq(Child) /\ Len(new) = Len(kids)
    BY ChildrenMoved
  <2>2. kids \in Seq(Child)
    BY DEF Typed
  <2>3. QED
    BY <2>1, <2>2, LenProperties
<1>2. /\ r \in Rows /\ a \subseteq Nat /\ r.task \in 0..Len(kids) /\ r.attempts \in Nat
      /\ r.status \in RowStatuses
  BY DEF Typed, Rows, RowStatuses
<1>3. b \in SUBSET Nat
  BY <1>2 DEF Move, Rests, Executed, Begun, Skipped, Retried, Retired, Unlinked, Removed, Archive
<1>4. \/ f = r \/ f = NoRow \/ f = Pending \/ f = WithStatus(r, "skipped") \/ f = Again(r.attempts)
      \/ f = Without(r) \/ \E s \in RowStatuses : f = OutOfUse(r, s)
  <2>1. (IF r.status \in InFlight THEN "failed" ELSE r.status) \in RowStatuses
    BY <1>2 DEF RowStatuses, CellSettled
  <2>2. QED
    BY <2>1, Zenon DEF Move, Rests, Executed, Begun, Skipped, Retried, Retired, Unlinked, Removed
<1>5. f \in Rows /\ f.task \in {0, r.task}
  <2>1. WithStatus(r, "skipped") \in Rows /\ WithStatus(r, "skipped").task = r.task
    <3>1. "skipped" \in RowStatuses /\ "none" \in {"none", "pass", "fail"}
      BY DEF RowStatuses, CellSettled
    <3>2. Becomes(r, WithStatus(r, "skipped"), "skipped")
      BY <1>2, <3>1, RowEdited
    <3>3. QED
      BY <3>2 DEF Becomes
  <2>2. QED
    BY <1>2, <1>4, <2>1, RowsMade
<1>6. QED
  BY <1>1, <1>2, <1>3, <1>5 DEF Typed

\* What a row in use says of its child stays true when an agent ends.
LEMMA ExecutedKept ==
  ASSUME NEW r, NEW a, NEW kids, NEW f, NEW b, NEW new,
         Typed(r, a, kids), Kept(r, a, kids), Executed(r, a, kids, f, b, new)
  PROVE  Kept(f, b, new)
<1>1. PICK i \in DOMAIN kids, s \in ChildTerminal, p \in 0..MaxCost : kids[i].status = "ready" /\ new = Done(kids, i, s, p)
  BY DEF Executed
<1>2. kids \in Seq(Child) /\ DOMAIN kids = 1..Len(kids) /\ r.task \in 0..Len(kids) /\ s \in ChildStatuses
  BY LenProperties DEF Typed, ChildStatuses
<1>3. Replaced(kids, new, i, kids[i].tag, s)
  BY <1>1, <1>2, ChildReplaced
<1>4. s \notin Working /\ s # "gone"
  BY DEF Working, ChildTerminal
<1>5. f = r /\ b = a
  BY DEF Executed
<1>6. ASSUME ~r.retired, r.task # 0 PROVE Fits(r.status, new[r.task].status)
  <2>1. r.task \in DOMAIN kids /\ Fits(r.status, kids[r.task].status)
    BY <1>2, <1>6 DEF Kept
  <2>2. CASE r.task = i
    BY <1>1, <1>3, <2>1, <2>2 DEF Fits, Replaced, ChildTerminal
  <2>3. CASE r.task # i
    BY <1>3, <2>1, <2>3 DEF Replaced
  <2>4. QED
    BY <2>2, <2>3
<1>7. ASSUME NEW j \in DOMAIN new
      PROVE  /\ (new[j].tag = "live" /\ new[j].status # "gone") <=> (j = r.task /\ ~r.retired)
             /\ new[j].status \in Working =>
                  /\ j = Len(new) /\ j = r.task
                  /\ r.retired \/ r.status \in InFlight \cup {"skipped"}
  <2>1. j \in DOMAIN kids /\ Len(new) = Len(kids)
    BY <1>3 DEF Replaced
  <2>2. CASE j = i
    BY <1>1, <1>3, <1>4, <2>1, <2>2 DEF Replaced, Kept
  <2>3. CASE j # i
    BY <1>3, <2>1, <2>3 DEF Replaced, Kept
  <2>4. QED
    BY <2>2, <2>3
<1>8. QED
  BY <1>5, <1>6, <1>7 DEF Kept

\* A cell that is skipped leaves its child to end, or ended.
LEMMA SkippedKept ==
  ASSUME NEW r, NEW a, NEW kids, NEW f, NEW b, NEW new,
         Typed(r, a, kids), Kept(r, a, kids), Skipped(r, a, kids, f, b, new)
  PROVE  Kept(f, b, new)
<1>1. /\ kids \in Seq(Child) /\ DOMAIN kids = 1..Len(kids) /\ r.task \in 0..Len(kids)
      /\ "failed" \in ChildStatuses /\ r \in Rows
  BY LenProperties DEF Typed, ChildStatuses, ChildTerminal
<1>2. /\ f.status = "skipped" /\ f.task = r.task /\ f.attempts = r.attempts /\ f.retired = r.retired
      /\ ~r.retired /\ r.status \in {"pending"} \cup InFlight /\ b = a
  <2>1. "skipped" \in RowStatuses /\ "none" \in {"none", "pass", "fail"}
    BY DEF RowStatuses, CellSettled
  <2>2. Becomes(r, WithStatus(r, "skipped"), "skipped")
    BY <1>1, <2>1, RowEdited
  <2>3. QED
    BY <2>2 DEF Skipped, Becomes
<1>3. /\ a \subseteq 1..r.attempts /\ 1..(r.attempts - 1) \subseteq a
      /\ r.attempts \in a => r.task = 0
  BY <1>2 DEF Kept
<1>4. Fits("skipped", new[r.task].status)
  BY DEF Fits
<1>5. \A j \in DOMAIN new :
        /\ (new[j].tag = "live" /\ new[j].status # "gone") <=> (j = r.task /\ ~r.retired)
        /\ new[j].status \in Working => j = Len(new) /\ j = r.task
  <2>1. CASE new = kids
    BY <2>1 DEF Kept
  <2>2. CASE r.task # 0 /\ kids[r.task].status = "ready" /\ new = Marked(kids, r.task, "failed")
    <3>1. Replaced(kids, new, r.task, kids[r.task].tag, "failed")
      BY <1>1, <2>2, ChildReplaced
    <3>2. "failed" \notin Working
      BY DEF Working
    <3>3. QED
      BY <1>1, <2>2, <3>1, <3>2 DEF Replaced, Kept
  <2>3. QED
    BY <2>1, <2>2 DEF Skipped
<1>6. "skipped" \notin InFlight /\ "skipped" \notin {"absent", "pending"}
  BY DEF InFlight
<1>7. QED
  BY <1>2, <1>3, <1>4, <1>5, <1>6 DEF Kept

\* What is archived is what there was, once.
LEMMA Archives ==
  ASSUME NEW r, NEW a, NEW kids, Typed(r, a, kids), Kept(r, a, kids), r.status # "absent"
  PROVE  Archive(r, a) = 1..r.attempts
<1>1. r.attempts \in Nat /\ a \subseteq 1..r.attempts /\ 1..(r.attempts - 1) \subseteq a
  BY DEF Typed, Rows, Kept
<1>2. CASE r.attempts = 0
  BY <1>1, <1>2 DEF Archive
<1>3. CASE r.attempts # 0
  <2>1. 1..r.attempts = (1..(r.attempts - 1)) \cup {r.attempts}
    BY <1>1, <1>3
  <2>2. QED
    BY <1>1, <1>3, <2>1 DEF Archive
<1>4. QED
  BY <1>2, <1>3

\* The children without the one that is replaced: none of them counts any more.
LEMMA ReplacesChild ==
  ASSUME NEW r, NEW a, NEW kids, Typed(r, a, kids),
         \A i \in DOMAIN kids : (kids[i].tag = "live" /\ kids[i].status # "gone") => i = r.task
  PROVE  LET new == Replaces(r, kids) IN
         /\ new \in Seq(Child) /\ Len(new) = Len(kids) /\ DOMAIN new = DOMAIN kids
         /\ \A i \in DOMAIN new :
              new[i].status = kids[i].status /\ ~(new[i].tag = "live" /\ new[i].status # "gone")
<1> DEFINE new == Replaces(r, kids)
<1>1. kids \in Seq(Child) /\ DOMAIN kids = 1..Len(kids) /\ r.task \in 0..Len(kids) /\ "gone" \in ChildStatuses
  BY LenProperties DEF Typed, ChildStatuses
<1>2. CASE r.task = 0
  BY <1>1, <1>2 DEF Replaces
<1>3. CASE r.task # 0
  <2>1. new = Tagged(kids, r.task) /\ r.task \in 1..Len(kids)
    BY <1>1, <1>3 DEF Replaces
  <2>2. Replaced(kids, new, r.task, "retired", kids[r.task].status)
    BY <1>1, <2>1, ChildReplaced
  <2> HIDE DEF new
  <2>3. QED
    BY <1>1, <2>1, <2>2 DEF Replaced, new
<1>4. QED
  BY <1>2, <1>3

\* A failed cell that is asked for again starts over, behind what it went through.
LEMMA RetriedKept ==
  ASSUME NEW r, NEW a, NEW kids, NEW f, NEW b, NEW new,
         Typed(r, a, kids), Kept(r, a, kids), Retried(r, a, kids, f, b, new)
  PROVE  Kept(f, b, new)
<1>1. /\ kids \in Seq(Child) /\ DOMAIN kids = 1..Len(kids) /\ r.task \in 0..Len(kids)
      /\ r \in Rows /\ r.attempts \in Nat
  BY LenProperties DEF Typed, Rows
<1>2. r.status = "failed" /\ ~r.retired
  BY DEF Retried
<1>3. b = 1..r.attempts
  BY <1>2, Archives DEF Retried
<1>4. f.task = 0 /\ f.status = "pending" /\ ~f.retired /\ f.attempts = r.attempts
  BY <1>1, RowsMade DEF Retried
<1>5. \A i \in DOMAIN kids : kids[i].status \notin Working
  BY <1>2 DEF Kept, InFlight
<1>6. \A i \in DOMAIN kids : (kids[i].tag = "live" /\ kids[i].status # "gone") => i = r.task
  BY DEF Kept
<1>7. /\ DOMAIN new = DOMAIN kids
      /\ \A i \in DOMAIN new :
           new[i].status = kids[i].status /\ ~(new[i].tag = "live" /\ new[i].status # "gone")
  BY <1>6, ReplacesChild DEF Retried
<1>8. QED
  <2>1. \A i \in DOMAIN new : i # 0
    BY <1>1, <1>7
  <2>2. 1..(r.attempts - 1) \subseteq 1..r.attempts
    BY <1>1
  <2>3. "pending" \notin InFlight
    BY DEF InFlight
  <2>4. QED
    BY <1>3, <1>4, <1>5, <1>7, <2>1, <2>2, <2>3 DEF Kept

\* A retired row keeps what it went through, and no child of it counts.
LEMMA RetiredKept ==
  ASSUME NEW r, NEW a, NEW kids, NEW f, NEW b, NEW new,
         Typed(r, a, kids), Kept(r, a, kids), Retired(r, a, kids, f, b, new)
  PROVE  Kept(f, b, new)
<1> DEFINE s == IF r.status \in InFlight THEN "failed" ELSE r.status
<1>1. /\ kids \in Seq(Child) /\ DOMAIN kids = 1..Len(kids) /\ r.task \in 0..Len(kids)
      /\ r \in Rows /\ r.attempts \in Nat /\ r.status \in RowStatuses /\ "failed" \in ChildStatuses
  BY LenProperties DEF Typed, Rows, RowStatuses, ChildStatuses, ChildTerminal
<1>2. s \in RowStatuses /\ s \notin InFlight /\ s # "absent" /\ (s = "pending" => r.status = "pending")
  BY <1>1 DEF RowStatuses, CellSettled, InFlight, Retired
<1>3. b = 1..r.attempts
  BY Archives DEF Retired
<1>4. f.task = r.task /\ f.status = s /\ f.retired /\ f.attempts = r.attempts
  <2>1. f = OutOfUse(r, s)
    BY DEF Retired
  <2> HIDE DEF s
  <2>2. PICK u \in RowStatuses : u = s
    BY <1>2
  <2>3. /\ OutOfUse(r, u).task = r.task /\ OutOfUse(r, u).status = u
        /\ OutOfUse(r, u).retired /\ OutOfUse(r, u).attempts = r.attempts
    BY <1>1, RowsMade
  <2>4. QED
    BY <2>1, <2>2, <2>3
<1> HIDE DEF s
<1>5. ASSUME NEW mid, mid \in Seq(Child), Len(mid) = Len(kids), DOMAIN mid = DOMAIN kids,
             \A i \in DOMAIN kids :
               /\ (mid[i].tag = "live" /\ mid[i].status # "gone") => (i = r.task)
               /\ mid[i].status \in Working => i = Len(kids) /\ i = r.task,
             new = Replaces(r, mid)
      PROVE  /\ Len(new) = Len(kids)
             /\ \A i \in DOMAIN new :
                  /\ ~(new[i].tag = "live" /\ new[i].status # "gone")
                  /\ new[i].status \in Working => i = Len(new) /\ i = r.task
  <2>1. Typed(r, a, mid)
    BY <1>5 DEF Typed
  <2>2. /\ Len(new) = Len(mid) /\ DOMAIN new = DOMAIN mid
        /\ \A i \in DOMAIN new :
              new[i].status = mid[i].status /\ ~(new[i].tag = "live" /\ new[i].status # "gone")
    BY <1>5, <2>1, ReplacesChild
  <2>3. QED
    BY <1>5, <2>2
<1>6. /\ Len(new) = Len(kids)
      /\ \A i \in DOMAIN new :
           /\ ~(new[i].tag = "live" /\ new[i].status # "gone")
           /\ new[i].status \in Working => i = Len(new) /\ i = r.task
  <2>1. CASE new = Replaces(r, kids)
    BY <1>1, <1>5, <2>1 DEF Kept
  <2>2. CASE /\ r.task # 0 /\ kids[r.task].status = "ready"
             /\ new = Replaces(r, Marked(kids, r.task, "failed"))
    <3> DEFINE mid == Marked(kids, r.task, "failed")
    <3>1. Replaced(kids, mid, r.task, kids[r.task].tag, "failed")
      BY <1>1, <2>2, ChildReplaced
    <3>2. "failed" \notin Working
      BY DEF Working
    <3> HIDE DEF mid
    <3>3. /\ mid \in Seq(Child) /\ Len(mid) = Len(kids) /\ DOMAIN mid = DOMAIN kids
          /\ \A i \in DOMAIN kids :
               /\ (mid[i].tag = "live" /\ mid[i].status # "gone") => (i = r.task)
               /\ mid[i].status \in Working => i = Len(kids) /\ i = r.task
      BY <3>1, <3>2 DEF Replaced, Kept
    <3>4. QED
      BY <1>5, <2>2, <3>3 DEF mid
  <2>3. QED
    BY <2>1, <2>2 DEF Retired
<1>7. 1..(r.attempts - 1) \subseteq 1..r.attempts
  BY <1>1
<1>8. s = "pending" => r.task = 0
  BY <1>2 DEF Kept
<1>9. QED
  BY <1>2, <1>3, <1>4, <1>6, <1>7, <1>8 DEF Kept

\* A row loses its child while that is held back.
LEMMA UnlinkedKept ==
  ASSUME NEW r, NEW a, NEW kids, NEW f, NEW b, NEW new,
         Typed(r, a, kids), Kept(r, a, kids), Unlinked(r, a, kids, f, b, new)
  PROVE  Kept(f, b, new)
<1>1. /\ kids \in Seq(Child) /\ DOMAIN kids = 1..Len(kids) /\ r.task \in 0..Len(kids)
      /\ r \in Rows /\ "gone" \in ChildStatuses /\ r.task # 0 /\ kids[r.task].status = "backlog"
  BY LenProperties DEF Typed, ChildStatuses, Unlinked
<1>2. /\ f.task = 0 /\ f.status = r.status /\ f.attempts = r.attempts /\ f.retired = r.retired /\ b = a
  BY <1>1, RowsMade DEF Unlinked
<1>3. Replaced(kids, new, r.task, kids[r.task].tag, "gone")
  BY <1>1, ChildReplaced DEF Unlinked
<1>4. "backlog" \in Working /\ "gone" \notin Working
  BY DEF Working
<1>5. r.status # "absent"
  BY <1>1, RowsMade DEF Kept
<1>6. \A i \in DOMAIN new :
        /\ ~(new[i].tag = "live" /\ new[i].status # "gone")
        /\ new[i].status \notin Working
        /\ i # 0
  BY <1>1, <1>3, <1>4 DEF Replaced, Kept
<1>7. QED
  BY <1>2, <1>5, <1>6 DEF Kept

\* A row of a configuration that is new.
LEMMA BegunKept ==
  ASSUME NEW kids, Typed(NoRow, {}, kids), Kept(NoRow, {}, kids)
  PROVE  Kept(Pending, {}, kids)
<1>1. DOMAIN kids = 1..Len(kids) /\ \A i \in DOMAIN kids : i # 0
  BY LenProperties DEF Typed
<1>2. \A i \in DOMAIN kids : ~(kids[i].tag = "live" /\ kids[i].status # "gone") /\ kids[i].status \notin Working
  BY <1>1, RowsMade DEF Kept
<1>3. "pending" \notin InFlight /\ "pending" # "absent"
  BY DEF InFlight
<1>4. QED
  BY <1>1, <1>2, <1>3, RowsMade DEF Kept

-----------------------------------------------------------------------------
\* A move made by a step, on a cell.
At(M(_, _, _, _, _, _), c) == M(cell[c], ledger[c], child[c], cell'[c], ledger'[c], child'[c])

\* Nothing else than the cells of cells moves.
Elsewhere(cells) == \A c \in Cells \ cells : At(Rests, c)

Shaped ==
  /\ cell' = [c \in Cells |-> cell'[c]] /\ ledger' = [c \in Cells |-> ledger'[c]]
  /\ child' = [c \in Cells |-> child'[c]]

\* The end of an agent is the end of one child of the cell, and no other cell moves.
LEMMA AgentMoves ==
  ASSUME Types, NEW d \in Cells, AgentEnds(d)
  PROVE  Shaped /\ Elsewhere({d}) /\ At(Executed, d)
<1>1. PICK i \in DOMAIN child[d], s \in ChildTerminal, p \in 0..MaxCost :
        /\ child[d][i].status = "ready"
        /\ child' = [child EXCEPT ![d][i].status = s, ![d][i].cost = p]
  BY ExperimentsAssumption DEF AgentEnds
<1>2. child \in [Cells -> Seq(Child)] /\ cell \in [Cells -> Rows] /\ ledger \in [Cells -> SUBSET Nat]
      /\ cell' = cell /\ ledger' = ledger
  BY DEF Types, AgentEnds
<1>3. child' = [child EXCEPT ![d] = Done(child[d], i, s, p)]
  <2> DEFINE x == [child[d] EXCEPT ![i].status = s]
             y == [child EXCEPT ![d] = x]
  <2>1. child' = [y EXCEPT ![d] = [y[d] EXCEPT ![i].cost = p]]
    BY <1>1, Zenon
  <2>2. y[d] = x
    BY <1>2
  <2>3. Done(child[d], i, s, p) = [x EXCEPT ![i].cost = p]
    BY Zenon DEF Done
  <2> HIDE DEF x
  <2>4. \A z : [y EXCEPT ![d] = z] = [child EXCEPT ![d] = z]
    BY <1>2
  <2>5. QED
    BY <2>1, <2>2, <2>3, <2>4
<1>4. child'[d] = Done(child[d], i, s, p)
  BY <1>2, <1>3
<1>5. At(Executed, d)
  BY <1>1, <1>2, <1>4, Zenon DEF At, Executed
<1>6. Shaped /\ Elsewhere({d})
  BY <1>2, <1>3 DEF Shaped, Elsewhere, At, Rests
<1>7. QED
  BY <1>5, <1>6

\* A child that is deleted is unlinked from its row, and no other cell moves.
LEMMA DeleteChildMoves ==
  ASSUME Types, NEW d \in Cells, DeleteChild(d)
  PROVE  Shaped /\ Elsewhere({d}) /\ At(Unlinked, d)
<1> DEFINE n == cell[d].task
<1>1. child \in [Cells -> Seq(Child)] /\ cell \in [Cells -> Rows] /\ ledger \in [Cells -> SUBSET Nat]
      /\ ledger' = ledger
  BY DEF Types, DeleteChild
<1>2. n # 0 /\ child[d][n].status = "backlog"
  BY DEF DeleteChild, Current
<1>3. child' = [child EXCEPT ![d] = Marked(child[d], n, "gone")] /\ cell' = [cell EXCEPT ![d] = Without(cell[d])]
  BY Zenon DEF DeleteChild, Marked, Without
<1>4. QED
  BY <1>1, <1>2, <1>3 DEF Shaped, Elsewhere, At, Rests, Unlinked

\* The start makes rows of configurations that exist, and touches no other.
LEMMA StartMoves ==
  ASSUME Types, Start
  PROVE  /\ Shaped
         /\ \A c \in Cells : \/ At(Rests, c)
                             \/ c[1] \in exp.configs /\ At(Begun, c)
<1>1. child \in [Cells -> Seq(Child)] /\ cell \in [Cells -> Rows] /\ ledger \in [Cells -> SUBSET Nat]
      /\ ledger' = ledger /\ child' = child
  BY DEF Types, Start
<1>2. cell' = [c \in Cells |-> IF c[1] \in LiveConfigs /\ c[2] \in exp.setup.cases THEN Pending ELSE cell[c]]
  BY DEF Start
<1>3. QED
  BY <1>1, <1>2 DEF Shaped, At, Rests, Begun, LiveConfigs

\* An added configuration makes rows under its own number only.
LEMMA AddMoves ==
  ASSUME Types, AddConfig
  PROVE  /\ Shaped
         /\ \A c \in Cells : \/ At(Rests, c)
                             \/ c[1] = Cardinality(exp.configs) + 1 /\ At(Begun, c)
<1>1. child \in [Cells -> Seq(Child)] /\ cell \in [Cells -> Rows] /\ ledger \in [Cells -> SUBSET Nat]
      /\ ledger' = ledger /\ child' = child
  BY DEF Types, AddConfig
<1>2. cell' = [c \in Cells |-> IF c[1] = Cardinality(exp.configs) + 1 /\ c[2] \in exp.setup.cases
                               THEN Pending ELSE cell[c]]
  BY DEF AddConfig
<1>3. QED
  BY <1>1, <1>2 DEF Shaped, At, Rests, Begun

\* Deleting the experiment removes every row.
LEMMA DeleteMoves ==
  ASSUME Types, DeleteExperiment
  PROVE  Shaped /\ \A c \in Cells : At(Removed, c)
<1>1. child \in [Cells -> Seq(Child)] /\ child' = child
      /\ cell' = [c \in Cells |-> NoRow] /\ ledger' = [c \in Cells |-> {}]
  BY DEF Types, DeleteExperiment
<1>2. QED
  BY <1>1 DEF Shaped, At, Removed

\* Cancelling skips what is open and leaves what has settled.
LEMMA CancelMoves ==
  ASSUME Types, Cancel
  PROVE  /\ Shaped
         /\ \A c \in Cells :
              IF c \in Live /\ cell[c].status \notin CellSettled THEN At(Skipped, c) ELSE At(Rests, c)
<1> DEFINE open == {c \in Live : cell[c].status \notin CellSettled}
           busy == {c \in open : cell[c].status \in {"running", "evaluating"}}
<1>1. child \in [Cells -> Seq(Child)] /\ cell \in [Cells -> Rows] /\ ledger \in [Cells -> SUBSET Nat]
      /\ ledger' = ledger
  BY DEF Types, Cancel
<1>2. cell' = [c \in Cells |-> IF c \in open THEN WithStatus(cell[c], "skipped") ELSE cell[c]]
  BY Zenon DEF Cancel, WithStatus
<1>3. PICK killed \in SUBSET {c \in busy : Current(c) = "ready"} :
        child' = [c \in Cells |-> IF c \in killed THEN Marked(child[c], cell[c].task, "failed") ELSE child[c]]
  BY Zenon DEF Cancel, Kill, Marked
<1>4. ASSUME NEW c \in Cells
      PROVE  IF c \in open THEN At(Skipped, c) ELSE At(Rests, c)
  <2>1. cell[c] \in Rows /\ cell'[c] = (IF c \in open THEN WithStatus(cell[c], "skipped") ELSE cell[c])
        /\ ledger'[c] = ledger[c]
        /\ child'[c] = (IF c \in killed THEN Marked(child[c], cell[c].task, "failed") ELSE child[c])
    BY <1>1, <1>2, <1>3
  <2>2. c \in killed => c \in open /\ cell[c].task # 0 /\ child[c][cell[c].task].status = "ready"
    BY <1>3 DEF Current
  <2>3. c \in open => cell[c].status \in {"pending"} \cup InFlight /\ ~cell[c].retired
    BY <2>1 DEF Rows, Live, LiveOf, CellSettled
  <2> HIDE DEF open
  <2>4. QED
    BY <2>1, <2>2, <2>3, Zenon DEF At, Skipped, Rests
<1>5. QED
  BY <1>1, <1>2, <1>3, <1>4 DEF Shaped

\* A retry starts the failed live cells over and leaves the others.
LEMMA RetryMoves ==
  ASSUME Types, RetryFailed
  PROVE  /\ Shaped
         /\ \A c \in Cells :
              IF c \in Live /\ cell[c].status = "failed" THEN At(Retried, c) ELSE At(Rests, c)
<1> DEFINE again == {c \in Live : cell[c].status = "failed"}
<1>1. child \in [Cells -> Seq(Child)] /\ cell \in [Cells -> Rows] /\ ledger \in [Cells -> SUBSET Nat]
  BY DEF Types
<1>2. /\ cell' = [c \in Cells |-> IF c \in again THEN Again(cell[c].attempts) ELSE cell[c]]
      /\ ledger' = [c \in Cells |-> IF c \in again THEN Archive(cell[c], ledger[c]) ELSE ledger[c]]
      /\ child' = [c \in Cells |-> IF c \in again THEN Replaces(cell[c], child[c]) ELSE child[c]]
  BY Zenon DEF RetryFailed, Again, Archive, Snapshot, Replaces, RetiredTag, Tagged
<1>3. \A c \in Cells : c \in again => cell[c].status = "failed" /\ ~cell[c].retired
  BY DEF Live, LiveOf
<1> HIDE DEF again
<1>4. ASSUME NEW c \in Cells
      PROVE  IF c \in again THEN At(Retried, c) ELSE At(Rests, c)
  BY <1>1, <1>2, <1>3, <1>4 DEF At, Retried, Rests
<1>5. QED
  BY <1>1, <1>2, <1>4 DEF Shaped, again

\* Retiring a configuration takes its rows out of use and leaves the others.
LEMMA RetireMoves ==
  ASSUME Types, NEW g \in Configs, RetireConfig(g)
  PROVE  /\ Shaped
         /\ \A c \in Cells :
              IF c[1] = g /\ cell[c].status # "absent" THEN At(Retired, c) ELSE At(Rests, c)
<1> DEFINE mine == {c \in Cells : c[1] = g /\ cell[c].status # "absent"}
           s(c) == IF cell[c].status \in InFlight THEN "failed" ELSE cell[c].status
<1>1. child \in [Cells -> Seq(Child)] /\ cell \in [Cells -> Rows] /\ ledger \in [Cells -> SUBSET Nat]
  BY DEF Types
<1>2. cell' = [c \in Cells |-> IF c \in mine THEN [cell[c] EXCEPT !.retired = TRUE,
                                        !.status = IF @ \in InFlight THEN "failed" ELSE @] ELSE cell[c]]
  BY Zenon DEF RetireConfig
<1>3. ledger' = [c \in Cells |-> IF c \in mine THEN Archive(cell[c], ledger[c]) ELSE ledger[c]]
  BY Zenon DEF RetireConfig, Archive, Snapshot
<1>4. PICK killed \in SUBSET {c \in mine : cell[c].status \in {"running", "evaluating"} /\ Current(c) = "ready"} :
        child' = [c \in Cells |->
          IF c \in killed THEN Replaces(cell[c], Marked(child[c], cell[c].task, "failed"))
          ELSE IF c \in mine THEN Replaces(cell[c], child[c]) ELSE child[c]]
  BY Zenon DEF RetireConfig, Replaces, RetiredTag, Tagged, Marked
<1>5. ASSUME NEW c \in Cells
      PROVE  IF c \in mine THEN At(Retired, c) ELSE At(Rests, c)
  <2>1. cell'[c] = IF c \in mine THEN OutOfUse(cell[c], s(c)) ELSE cell[c]
    BY <1>2, Zenon DEF OutOfUse
  <2>2. /\ ledger'[c] = IF c \in mine THEN Archive(cell[c], ledger[c]) ELSE ledger[c]
        /\ child'[c] = IF c \in killed THEN Replaces(cell[c], Marked(child[c], cell[c].task, "failed"))
                       ELSE IF c \in mine THEN Replaces(cell[c], child[c]) ELSE child[c]
    BY <1>3, <1>4
  <2>3. c \in killed => c \in mine /\ cell[c].task # 0 /\ child[c][cell[c].task].status = "ready"
    BY <1>4 DEF Current
  <2>4. c \in mine => cell[c].status # "absent"
    OBVIOUS
  <2> HIDE DEF mine
  <2>5. CASE c \in mine
    BY <2>1, <2>2, <2>3, <2>4, <2>5 DEF At, Retired
  <2>6. CASE c \notin mine
    BY <2>1, <2>2, <2>3, <2>6 DEF At, Rests
  <2>7. QED
    BY <2>5, <2>6
<1>6. QED
  BY <1>1, <1>2, <1>3, <1>4, <1>5 DEF Shaped

-----------------------------------------------------------------------------
\* What a commit of a tick does to a cell: the row becomes what the polls made of it,
\* and the child that was held back is released, or fails with it.
Freed(f, kids) ==
  IF f.task # 0 /\ kids[f.task].status = "backlog" /\ f.status \in {"running", "failed"}
  THEN Marked(kids, f.task, IF f.status = "running" THEN "ready" ELSE "failed")
  ELSE kids

Flows(r, a, kids, f, b, new) ==
  /\ ~r.retired /\ f \in Rows /\ Polled(r, f, kids)
  /\ b = a /\ new = Freed(f, kids)

\* A claim begins the next execution, in a task of its own unless that was not created.
Created(kids, s) == Append(kids, [tag |-> "live", cost |-> 0, status |-> s])
Claimed(r, a, kids, f, b, new) ==
  /\ r.status = "pending" /\ ~r.retired
  /\ f \in Rows /\ f.attempts = r.attempts + 1 /\ ~f.retired /\ b = a
  /\ \/ f.status = "failed" /\ f.task = 0 /\ new = kids
     \/ /\ f.task = Len(kids) + 1
        /\ \/ f.status = "failed" /\ new = Created(kids, "failed")
           \/ f.status = "preprocessing" /\ new = Created(kids, "backlog")
           \/ f.status = "running" /\ new = Created(kids, "ready")

\* What is read of the children when one is added.
LEMMA CreatedChild ==
  ASSUME NEW kids \in Seq(Child), NEW s \in ChildStatuses
  PROVE  LET new == Created(kids, s) IN
         /\ new \in Seq(Child) /\ Len(kids) \in Nat /\ Len(new) = Len(kids) + 1
         /\ DOMAIN new = 1..(Len(kids) + 1) /\ DOMAIN kids = 1..Len(kids)
         /\ new[Len(new)].tag = "live" /\ new[Len(new)].status = s
         /\ \A i \in DOMAIN kids : new[i] = kids[i]
<1> DEFINE x == [tag |-> "live", cost |-> 0, status |-> s]
<1>1. x \in Child /\ x.tag = "live" /\ x.status = s
  BY NoCost DEF Child
<1>2. Created(kids, s) = Append(kids, x)
  BY DEF Created
<1> HIDE DEF x
<1>3. /\ Append(kids, x) \in Seq(Child) /\ Len(Append(kids, x)) = Len(kids) + 1
      /\ \A i \in 1..Len(kids) : Append(kids, x)[i] = kids[i]
      /\ Append(kids, x)[Len(kids) + 1] = x
  BY <1>1, AppendProperties
<1>4. Len(kids) \in Nat /\ DOMAIN kids = 1..Len(kids) /\ DOMAIN Append(kids, x) = 1..(Len(kids) + 1)
  BY <1>3, LenProperties
<1>5. QED
  BY <1>1, <1>2, <1>3, <1>4

\* These two keep the types, and take no child away.
LEMMA TickMoveTyped ==
  ASSUME NEW r, NEW a, NEW kids, NEW f, NEW b, NEW new, Typed(r, a, kids),
         Flows(r, a, kids, f, b, new) \/ Claimed(r, a, kids, f, b, new)
  PROVE  Typed(f, b, new) /\ Len(new) >= Len(kids)
<1>0. /\ r \in Rows /\ a \in SUBSET Nat /\ kids \in Seq(Child) /\ r.task \in 0..Len(kids)
      /\ Len(kids) \in Nat /\ DOMAIN kids = 1..Len(kids)
      /\ {"ready", "failed", "backlog"} \subseteq ChildStatuses
  BY LenProperties DEF Typed, ChildStatuses, ChildTerminal
<1>1. CASE Flows(r, a, kids, f, b, new)
  <2>1. f \in Rows /\ f.task = r.task /\ b = a /\ new = Freed(f, kids)
    BY <1>1 DEF Flows, Polled
  <2>2. CASE new = kids
    BY <1>0, <2>1, <2>2 DEF Typed
  <2>3. CASE r.task # 0 /\ \E s \in {"ready", "failed"} : new = Marked(kids, r.task, s)
    <3>1. r.task \in 1..Len(kids)
      BY <1>0, <2>3
    <3>2. new \in Seq(Child) /\ Len(new) = Len(kids)
      BY <1>0, <2>3, <3>1, ChildReplaced DEF Replaced
    <3>3. QED
      BY <1>0, <2>1, <3>2 DEF Typed
  <2>4. QED
    BY <2>1, <2>2, <2>3 DEF Freed
<1>2. CASE Claimed(r, a, kids, f, b, new)
  <2>1. f \in Rows /\ b = a
    BY <1>2 DEF Claimed
  <2>2. CASE f.task = 0 /\ new = kids
    BY <1>0, <2>1, <2>2 DEF Typed
  <2>3. CASE f.task = Len(kids) + 1 /\ \E s \in {"ready", "failed", "backlog"} : new = Created(kids, s)
    <3>1. PICK s \in {"ready", "failed", "backlog"} : new = Created(kids, s)
      BY <2>3
    <3>2. new \in Seq(Child) /\ Len(new) = Len(kids) + 1
      BY <1>0, <3>1, CreatedChild
    <3>3. QED
      BY <1>0, <2>1, <2>3, <3>2 DEF Typed
  <2>4. QED
    BY <1>2, <2>2, <2>3 DEF Claimed
<1>3. QED
  BY <1>1, <1>2

\* A commit keeps what a row says of its archive and its children.
LEMMA FlowsKept ==
  ASSUME NEW r, NEW a, NEW kids, NEW f, NEW b, NEW new,
         Typed(r, a, kids), Kept(r, a, kids), Flows(r, a, kids, f, b, new)
  PROVE  Kept(f, b, new)
<1>0. /\ r \in Rows /\ a \in SUBSET Nat /\ kids \in Seq(Child) /\ r.task \in 0..Len(kids)
      /\ Len(kids) \in Nat /\ DOMAIN kids = 1..Len(kids)
      /\ "ready" \in ChildStatuses /\ "failed" \in ChildStatuses
  BY LenProperties DEF Typed, ChildStatuses, ChildTerminal
<1>1. /\ f \in Rows /\ Polled(r, f, kids) /\ ~r.retired /\ ~f.retired /\ b = a /\ new = Freed(f, kids)
      /\ f.task = r.task /\ f.attempts = r.attempts
      /\ r.status \in InFlight /\ f.status \in InFlight \cup {"success", "failed"}
  BY DEF Flows, Polled
<1>2. /\ a \subseteq 1..f.attempts /\ 1..(f.attempts - 1) \subseteq a /\ f.attempts \notin a
      /\ f.status # "pending" /\ f.status # "absent"
  BY <1>1 DEF Kept, InFlight
<1>3. CASE r.task = 0
  <2>1. new = kids
    BY <1>1, <1>3 DEF Freed
  <2>2. \A i \in DOMAIN kids : /\ ~(kids[i].tag = "live" /\ kids[i].status # "gone")
                               /\ kids[i].status \notin Working
    BY <1>0, <1>3 DEF Kept
  <2>3. QED
    BY <1>0, <1>1, <1>2, <1>3, <2>1, <2>2 DEF Kept
<1>4. CASE r.task # 0
  <2>1. r.task \in 1..Len(kids) /\ r.task \in DOMAIN kids
    BY <1>0, <1>4
  <2>2. /\ \A i \in DOMAIN kids : (kids[i].tag = "live" /\ kids[i].status # "gone") <=> i = r.task
        /\ \A i \in DOMAIN kids : kids[i].status \in Working => i = Len(kids) /\ i = r.task
    BY <1>1 DEF Kept
  <2>3. CASE new = kids /\ ~(kids[r.task].status = "backlog" /\ f.status \in {"running", "failed"})
    <3>1. Fits(f.status, kids[r.task].status)
      BY <1>1, <1>4, <2>3 DEF Fits, Polled, ChildTerminal, InFlight
    <3>2. kids[r.task].status \in Working => f.status \in InFlight
      BY <1>1, <1>4, <2>3 DEF Polled, ChildTerminal, InFlight, Working
    <3>3. QED
      BY <1>1, <1>2, <1>4, <2>1, <2>2, <2>3, <3>1, <3>2 DEF Kept
  <2>4. CASE \E s \in {"ready", "failed"} :
               /\ kids[r.task].status = "backlog" /\ new = Marked(kids, r.task, s)
               /\ (f.status = "running" /\ s = "ready") \/ (f.status = "failed" /\ s = "failed")
    <3>1. PICK s \in {"ready", "failed"} :
               /\ kids[r.task].status = "backlog" /\ new = Marked(kids, r.task, s)
               /\ (f.status = "running" /\ s = "ready") \/ (f.status = "failed" /\ s = "failed")
      BY <2>4
    <3>2. Replaced(kids, new, r.task, kids[r.task].tag, s)
      BY <1>0, <2>1, <3>1, ChildReplaced
    <3>3. Fits(f.status, new[r.task].status)
      BY <3>1, <3>2 DEF Fits, Replaced, ChildTerminal
    <3>4. /\ \A i \in DOMAIN new : (new[i].tag = "live" /\ new[i].status # "gone") <=> i = r.task
          /\ \A i \in DOMAIN new : new[i].status \in Working => i = Len(new) /\ i = r.task
      BY <2>1, <2>2, <3>1, <3>2 DEF Replaced, Working
    <3>5. new[r.task].status \in Working => f.status \in InFlight
      BY <3>1, <3>2 DEF Replaced, Working, InFlight
    <3>6. QED
      BY <1>1, <1>2, <1>4, <3>3, <3>4, <3>5 DEF Kept
  <2>5. QED
    BY <1>1, <1>4, <2>3, <2>4 DEF Freed
<1>5. QED
  BY <1>3, <1>4

\* A claim keeps it too: what the cell went through before is archived.
LEMMA ClaimedKept ==
  ASSUME NEW r, NEW a, NEW kids, NEW f, NEW b, NEW new,
         Typed(r, a, kids), Kept(r, a, kids), Claimed(r, a, kids, f, b, new)
  PROVE  Kept(f, b, new)
<1>0. /\ r \in Rows /\ kids \in Seq(Child) /\ r.attempts \in Nat
      /\ Len(kids) \in Nat /\ DOMAIN kids = 1..Len(kids)
      /\ {"ready", "failed", "backlog"} \subseteq ChildStatuses
  BY LenProperties DEF Typed, Rows, ChildStatuses, ChildTerminal
<1>1. /\ f \in Rows /\ f.attempts = r.attempts + 1 /\ ~f.retired /\ b = a
      /\ f.status \in {"failed", "preprocessing", "running"}
      /\ r.status = "pending" /\ ~r.retired /\ r.task = 0 /\ a = 1..r.attempts
  BY DEF Claimed, Kept
<1>2. /\ b \subseteq 1..f.attempts /\ 1..(f.attempts - 1) \subseteq b /\ f.attempts \notin b
  BY <1>0, <1>1
<1>3. \A i \in DOMAIN kids : /\ ~(kids[i].tag = "live" /\ kids[i].status # "gone")
                             /\ kids[i].status \notin Working
  BY <1>0, <1>1 DEF Kept
<1>4. CASE f.status = "failed" /\ f.task = 0 /\ new = kids
  BY <1>0, <1>1, <1>2, <1>3, <1>4 DEF Kept
<1>5. CASE f.task = Len(kids) + 1
           /\ \E s \in {"ready", "failed", "backlog"} :
                new = Created(kids, s) /\ Fits(f.status, s) /\ (s \in Working => f.status \in InFlight)
  <2>1. PICK s \in {"ready", "failed", "backlog"} :
                new = Created(kids, s) /\ Fits(f.status, s) /\ (s \in Working => f.status \in InFlight)
    BY <1>5
  <2>2. /\ Len(new) = Len(kids) + 1 /\ DOMAIN new = 1..(Len(kids) + 1)
        /\ new[f.task].tag = "live" /\ new[f.task].status = s
        /\ \A i \in DOMAIN kids : new[i] = kids[i]
    <3>1. PICK u \in ChildStatuses : u = s /\ new = Created(kids, u)
      BY <1>0, <2>1
    <3>2. /\ Len(new) = Len(kids) + 1 /\ DOMAIN new = 1..(Len(kids) + 1)
          /\ new[Len(new)].tag = "live" /\ new[Len(new)].status = s
          /\ \A i \in DOMAIN kids : new[i] = kids[i]
      <4>0. kids \in Seq(Child)
        BY <1>0
      <4>1. PICK made : made = Created(kids, u)
        OBVIOUS
      <4>2. /\ Len(made) = Len(kids) + 1 /\ DOMAIN made = 1..(Len(kids) + 1)
            /\ made[Len(made)].tag = "live" /\ made[Len(made)].status = u
            /\ \A i \in DOMAIN kids : made[i] = kids[i]
        BY <4>0, <4>1, CreatedChild, Zenon
      <4>3. QED
        BY <3>1, <4>1, <4>2
    <3>3. f.task = Len(new)
      BY <1>5, <3>2
    <3>4. QED
      BY <3>2, <3>3
  <2>3. ASSUME NEW i \in DOMAIN new
        PROVE  /\ (new[i].tag = "live" /\ new[i].status # "gone") <=> i = f.task
               /\ new[i].status \in Working => i = Len(new) /\ i = f.task /\ f.status \in InFlight
    <3>1. CASE i = f.task
      BY <1>5, <2>1, <2>2, <3>1
    <3>2. CASE i # f.task
      <4>1. i \in DOMAIN kids
        BY <1>0, <1>5, <2>2, <3>2
      <4>2. QED
        BY <1>3, <2>2, <3>2, <4>1
    <3>3. QED
      BY <3>1, <3>2
  <2>4. QED
    BY <1>1, <1>2, <2>1, <2>2, <2>3 DEF Kept
<1>6. QED
  BY <1>1, <1>4, <1>5 DEF Claimed, Fits, Working, InFlight, ChildTerminal

-----------------------------------------------------------------------------
\* What one step does to a cell of an experiment that is not deleted; a row that was not
\* there may begin.
Goes(r, a, kids, f, b, new) ==
  \/ Rests(r, a, kids, f, b, new) \/ Executed(r, a, kids, f, b, new)
  \/ Skipped(r, a, kids, f, b, new) \/ Retried(r, a, kids, f, b, new)
  \/ Retired(r, a, kids, f, b, new) \/ Unlinked(r, a, kids, f, b, new)
  \/ Flows(r, a, kids, f, b, new) \/ Claimed(r, a, kids, f, b, new)

CellMove(r, a, kids, f, b, new) ==
  \/ Goes(r, a, kids, f, b, new)
  \/ r = NoRow /\ a = {} /\ Begun(r, a, kids, f, b, new)

\* Every one of these steps keeps the types, and takes no child away.
LEMMA CellMoveTyped ==
  ASSUME NEW r, NEW a, NEW kids, NEW f, NEW b, NEW new,
         Typed(r, a, kids), CellMove(r, a, kids, f, b, new)
  PROVE  Typed(f, b, new) /\ Len(new) >= Len(kids)
<1>1. CASE Flows(r, a, kids, f, b, new) \/ Claimed(r, a, kids, f, b, new)
  <2>1. QED
    BY <1>1, TickMoveTyped
<1>2. CASE Move(r, a, kids, f, b, new)
  <2>1. Typed(f, b, new) /\ Len(new) = Len(kids)
    BY <1>2, MoveTyped
  <2>2. Len(kids) \in Nat
    BY LenProperties DEF Typed
  <2>3. QED
    BY <2>1, <2>2
<1>3. QED
  BY <1>1, <1>2, Zenon DEF CellMove, Goes, Move

\* Every one keeps what a row says of its archive and its children.
LEMMA CellMoveKept ==
  ASSUME NEW r, NEW a, NEW kids, NEW f, NEW b, NEW new,
         Typed(r, a, kids), Kept(r, a, kids), CellMove(r, a, kids, f, b, new)
  PROVE  Kept(f, b, new)
<1>1. CASE Rests(r, a, kids, f, b, new)
  BY <1>1 DEF Rests
<1>2. CASE Executed(r, a, kids, f, b, new)
  <2>1. QED
    BY <1>2, ExecutedKept
<1>3. CASE r = NoRow /\ a = {} /\ Begun(r, a, kids, f, b, new)
  <2>1. Typed(NoRow, {}, kids) /\ Kept(NoRow, {}, kids) /\ f = Pending /\ b = {} /\ new = kids
    BY <1>3 DEF Begun
  <2>2. QED
    BY <2>1, BegunKept
<1>4. CASE Skipped(r, a, kids, f, b, new)
  <2>1. QED
    BY <1>4, SkippedKept
<1>5. CASE Retried(r, a, kids, f, b, new)
  <2>1. QED
    BY <1>5, RetriedKept
<1>6. CASE Retired(r, a, kids, f, b, new)
  <2>1. QED
    BY <1>6, RetiredKept
<1>7. CASE Unlinked(r, a, kids, f, b, new)
  <2>1. QED
    BY <1>7, UnlinkedKept
<1>8. CASE Flows(r, a, kids, f, b, new)
  <2>1. QED
    BY <1>8, FlowsKept
<1>9. CASE Claimed(r, a, kids, f, b, new)
  <2>1. QED
    BY <1>9, ClaimedKept
<1>10. QED
  BY <1>1, <1>2, <1>3, <1>4, <1>5, <1>6, <1>7, <1>8, <1>9, Zenon DEF CellMove, Goes

\* A cell that has no row gets one only when it is begun.
LEMMA NoRowStays ==
  ASSUME NEW a, NEW kids, NEW f, NEW b, NEW new, a = {}, Goes(NoRow, a, kids, f, b, new)
  PROVE  f = NoRow /\ b = {}
<1>1. NoRow.status = "absent" /\ NoRow.task = 0
  BY RowsMade
<1>2. ~Skipped(NoRow, a, kids, f, b, new) /\ ~Retried(NoRow, a, kids, f, b, new)
  BY <1>1 DEF Skipped, Retried, InFlight
<1>3. ~Retired(NoRow, a, kids, f, b, new) /\ ~Unlinked(NoRow, a, kids, f, b, new)
  BY <1>1 DEF Retired, Unlinked
<1>4. ~Flows(NoRow, a, kids, f, b, new) /\ ~Claimed(NoRow, a, kids, f, b, new)
  BY <1>1 DEF Flows, Polled, Claimed, InFlight
<1>5. QED
  BY <1>2, <1>3, <1>4 DEF Goes, Rests, Executed

-----------------------------------------------------------------------------
\* The steps CellLifecycle allows a cell, from the status p after n executions with
\* archive a to the status q after m executions with archive b.
Phase(s) == IF s = "pending" THEN "waiting" ELSE IF s \in InFlight THEN "executing" ELSE s
Past(n, a) == IF n = 0 THEN a ELSE a \cup {n}

Lives(p, n, a, q, m, b) ==
  \/ q = p /\ m = n /\ b = a
  \/ p = "absent" /\ q = "waiting" /\ m = 0 /\ b = {}
  \/ q = "absent" /\ m = 0 /\ b = {}
  \/ p = "waiting" /\ q \in {"executing", "failed"} /\ m = n + 1 /\ b = a
  \/ /\ p \in {"waiting", "executing"}
     /\ q \in (IF p = "waiting" THEN {"skipped"} ELSE {"success", "failed", "skipped"})
     /\ m = n /\ b = a
  \/ p = "failed" /\ q = "waiting" /\ m = n /\ b = Past(n, a)
  \/ p # "absent" /\ q = (IF p = "executing" THEN "failed" ELSE p) /\ m = n /\ b = Past(n, a)

\* What a step does to a cell is one of them.
LEMMA CellMoveLives ==
  ASSUME NEW r, NEW a, NEW kids, NEW f, NEW b, NEW new,
         Typed(r, a, kids), CellMove(r, a, kids, f, b, new)
  PROVE  Lives(Phase(r.status), r.attempts, a, Phase(f.status), f.attempts, b)
<1>0. r \in Rows /\ r.status \in RowStatuses /\ r.attempts \in Nat
  BY DEF Typed, Rows, RowStatuses
<1>1. CASE Rests(r, a, kids, f, b, new) \/ Executed(r, a, kids, f, b, new)
  BY <1>1, Zenon DEF Rests, Executed, Lives
<1>2. CASE r = NoRow /\ a = {} /\ Begun(r, a, kids, f, b, new)
  <2>1. r.status = "absent" /\ f.status = "pending" /\ f.attempts = 0 /\ b = {}
    BY <1>2, RowsMade DEF Begun
  <2>2. QED
    BY <2>1 DEF Lives, Phase, InFlight
<1>3. CASE Skipped(r, a, kids, f, b, new)
  <2>1. "skipped" \in RowStatuses /\ "none" \in {"none", "pass", "fail"}
    BY DEF RowStatuses, CellSettled
  <2>2. Becomes(r, WithStatus(r, "skipped"), "skipped")
    BY <1>0, <2>1, RowEdited
  <2>3. /\ r.status \in {"pending"} \cup InFlight /\ f.status = "skipped"
        /\ f.attempts = r.attempts /\ b = a
    BY <1>3, <2>2 DEF Skipped, Becomes
  <2>4. QED
    BY <2>3 DEF Lives, Phase, InFlight
<1>4. CASE Retried(r, a, kids, f, b, new)
  <2>1. f.status = "pending" /\ f.attempts = r.attempts
    BY <1>0, <1>4, RowsMade DEF Retried
  <2>2. QED
    BY <1>4, <2>1 DEF Lives, Phase, InFlight, Retried, Archive, Past
<1>5. CASE Retired(r, a, kids, f, b, new)
  <2> DEFINE s == IF r.status \in InFlight THEN "failed" ELSE r.status
  <2>1. s \in RowStatuses
    BY <1>0 DEF RowStatuses, CellSettled
  <2>2. f = OutOfUse(r, s)
    BY <1>5 DEF Retired
  <2>3. f.status = s /\ f.attempts = r.attempts
    <3> HIDE DEF s
    <3>1. QED
      BY <1>0, <2>1, <2>2, RowsMade
  <2>4. r.status # "absent" /\ b = Past(r.attempts, a)
    BY <1>5 DEF Retired, Archive, Past
  <2>5. QED
    BY <1>0, <2>3, <2>4 DEF Lives, Phase, InFlight, RowStatuses, CellSettled
<1>6. CASE Unlinked(r, a, kids, f, b, new)
  <2>1. f.status = r.status /\ f.attempts = r.attempts /\ b = a
    BY <1>0, <1>6, RowsMade DEF Unlinked
  <2>2. QED
    BY <2>1, Zenon DEF Lives
<1>7. CASE Flows(r, a, kids, f, b, new)
  <2>1. /\ r.status \in InFlight /\ f.status \in InFlight \cup {"success", "failed"}
        /\ f.attempts = r.attempts /\ b = a
    BY <1>7 DEF Flows, Polled
  <2>2. QED
    BY <2>1 DEF Lives, Phase, InFlight
<1>8. CASE Claimed(r, a, kids, f, b, new)
  <2>1. /\ r.status = "pending" /\ f.status \in {"failed", "preprocessing", "running"}
        /\ f.attempts = r.attempts + 1 /\ b = a
    BY <1>8 DEF Claimed
  <2>2. QED
    BY <2>1 DEF Lives, Phase, InFlight
<1>9. QED
  BY <1>1, <1>2, <1>3, <1>4, <1>5, <1>6, <1>7, <1>8, Zenon DEF CellMove, Goes

-----------------------------------------------------------------------------
\* A row with the four fields a commit writes, taken from another row.
Overwritten(r, v) ==
  [r EXCEPT !.status = v.status, !.retried = v.retried, !.verdict = v.verdict, !.cost = v.cost]

\* The other four agree, so that the commit makes the row what the tick sees.
LEMMA OverwrittenBy ==
  ASSUME NEW r \in Rows, NEW v \in Rows,
         v.task = r.task, v.attempts = r.attempts, v.retired = r.retired, v.lane = r.lane
  PROVE  Overwritten(r, v) = v
<1> DEFINE x == Overwritten(r, v)
<1>1. /\ x.status = v.status /\ x.task = v.task /\ x.attempts = v.attempts /\ x.retired = v.retired
      /\ x.lane = v.lane /\ x.retried = v.retried /\ x.verdict = v.verdict /\ x.cost = v.cost
  BY DEF Rows, Overwritten
<1>2. x \in Rows
  BY DEF Rows, Overwritten
<1> HIDE DEF x
<1>3. \A p, q \in Rows :
        /\ p.status = q.status /\ p.task = q.task /\ p.attempts = q.attempts /\ p.retired = q.retired
        /\ p.lane = q.lane /\ p.retried = q.retried /\ p.verdict = q.verdict /\ p.cost = q.cost
        => p = q
  BY DEF Rows
<1>4. QED
  BY <1>1, <1>2, <1>3 DEF x

\* A tick that is open, with its picture of every cell.
Opened(t) == t \in TickRow /\ \A c \in Cells : Pictured(t, c, cell[c], child[c])

\* What a commit makes of a cell: the row the tick sees.
LEMMA FlushMoves ==
  ASSUME Types, NEW t, Opened(t), NEW c \in Cells
  PROVE  LET f == Flushed(t, cell)[c]
             new == Released(t)[c]
         IN  /\ \/ Flows(cell[c], ledger[c], child[c], f, ledger[c], new)
                \/ Rests(cell[c], ledger[c], child[c], f, ledger[c], new)
             /\ f = t.view[c]
             /\ c \notin t.dirty => f = cell[c] /\ new = child[c]
<1> DEFINE f == Flushed(t, cell)[c]
           new == Released(t)[c]
           r == cell[c]
           v == t.view[c]
<1>0. r \in Rows /\ v \in Rows /\ Pictured(t, c, r, child[c])
  BY DEF Types, Opened, TickRow
<1>1. CASE c \in t.dirty
  <2>1. f = Overwritten(r, v)
    BY <1>1, Zenon DEF Flushed, Overwritten
  <2>2. new = Freed(v, child[c])
    BY <1>1, Zenon DEF Released, Freed, Marked
  <2>3. Polled(r, v, child[c]) /\ ~r.retired
    BY <1>0, <1>1 DEF Pictured
  <2> HIDE DEF f, new, r, v
  <2>4. f = v
    BY <1>0, <2>1, <2>3, OverwrittenBy DEF Polled
  <2>5. Flows(r, ledger[c], child[c], f, ledger[c], new)
    BY <1>0, <2>2, <2>3, <2>4 DEF Flows
  <2>6. QED
    BY <1>1, <2>4, <2>5 DEF f, new, r, v
<1>2. CASE c \notin t.dirty
  <2>1. f = r /\ new = child[c]
    BY <1>2 DEF Flushed, Released
  <2>2. v = r
    BY <1>0, <1>2 DEF Pictured
  <2>3. QED
    BY <1>2, <2>1, <2>2 DEF Rests
<1>3. QED
  BY <1>1, <1>2

\* What a tick that finishes makes of a cell: the same, and the budget skips it if it waits.
LEMMA OverMoves ==
  ASSUME Types, NEW t, Opened(t), NEW c \in Cells
  PROVE  LET f == Flushed(Over(t), cell)[c]
             new == Released(Over(t))[c]
         IN  /\ \/ Flows(cell[c], ledger[c], child[c], f, ledger[c], new)
                \/ Rests(cell[c], ledger[c], child[c], f, ledger[c], new)
                \/ Skipped(cell[c], ledger[c], child[c], f, ledger[c], new)
             /\ f = Over(t).view[c]
<1> DEFINE f == Flushed(Over(t), cell)[c]
           new == Released(Over(t))[c]
           r == cell[c]
           v == t.view[c]
           u == Over(t)
           skips == Hit(t) /\ c \in InView(t, {"pending"})
<1>0. r \in Rows /\ v \in Rows /\ Pictured(t, c, r, child[c]) /\ t \in TickRow
  BY DEF Types, Opened, TickRow
<1>1. /\ u.view[c] = (IF skips THEN WithStatus(v, "skipped") ELSE v)
      /\ u.dirty = (IF Hit(t) THEN t.dirty \cup InView(t, {"pending"}) ELSE t.dirty)
  <2>1. u.view = [d \in Cells |-> IF Hit(t) /\ d \in InView(t, {"pending"})
                                 THEN WithStatus(t.view[d], "skipped") ELSE t.view[d]]
    BY <1>0 DEF Over, WithStatus, TickRow
  <2>2. u.dirty = (IF Hit(t) THEN t.dirty \cup InView(t, {"pending"}) ELSE t.dirty)
    BY <1>0 DEF Over, TickRow
  <2> HIDE DEF u
  <2>3. QED
    BY <2>1, <2>2
<1>2. CASE skips
  <2>1. v.status = "pending" /\ c \in t.live
    BY <1>2 DEF InView
  <2>2. c \notin t.dirty
    BY <1>0, <2>1 DEF Pictured, Polled, InFlight
  <2>3. v = r /\ ~r.retired /\ r.status = "pending"
    BY <1>0, <2>1, <2>2 DEF Pictured
  <2>4. c \in u.dirty /\ u.view[c] = WithStatus(r, "skipped")
    BY <1>1, <1>2, <2>3
  <2>5. f = Overwritten(r, WithStatus(r, "skipped"))
    <3>1. f = Overwritten(r, u.view[c])
      BY <2>4, Zenon DEF Flushed, Overwritten
    <3>2. QED
      BY <2>4, <3>1
  <2>6. "skipped" \in RowStatuses /\ "none" \in {"none", "pass", "fail"}
    BY DEF RowStatuses, CellSettled
  <2>7. Becomes(r, WithStatus(r, "skipped"), "skipped")
    BY <1>0, <2>6, RowEdited
  <2>8. f = WithStatus(r, "skipped")
    <3> HIDE DEF f, r
    <3>1. QED
      BY <1>0, <2>5, <2>7, OverwrittenBy DEF Becomes
  <2>9. new = child[c]
    <3>1. u.view[c].status = "skipped"
      BY <2>4, <2>7 DEF Becomes
    <3>2. QED
      BY <3>1 DEF Released
  <2>10. Skipped(r, ledger[c], child[c], f, ledger[c], new)
    BY <2>3, <2>8, <2>9, Zenon DEF Skipped
  <2>11. QED
    BY <2>4, <2>8, <2>10
<1>3. CASE ~skips
  <2>1. u.view[c] = v /\ (c \in u.dirty <=> c \in t.dirty)
    BY <1>1, <1>3
  <2>2. f = Flushed(t, cell)[c] /\ new = Released(t)[c]
    BY <2>1 DEF Flushed, Released
  <2>3. QED
    BY <2>1, <2>2, FlushMoves
<1>4. QED
  BY <1>2, <1>3

-----------------------------------------------------------------------------
\* A set of natural numbers has a least element, and Min is that.
LEMMA LeastNumber ==
  ASSUME NEW S \in SUBSET Nat, S # {}
  PROVE  Min(S) \in S /\ \A y \in S : Min(S) <= y
<1>1. PICK x \in S : \A y \in S : ~(<<y, x>> \in OpToRel(<, Nat))
  BY NatLessThanWellFounded, WFMin
<1>2. \A y \in S : x <= y
  <2>1. ASSUME NEW y \in S PROVE x <= y
    <3>1. ~(y < x)
      <4>1. <<y, x>> \notin OpToRel(<, Nat) /\ y \in Nat /\ x \in Nat
        BY <1>1
      <4>2. QED
        BY <4>1 DEF OpToRel
    <3>2. QED
      BY <3>1
  <2>2. QED
    BY <2>1
<1>3. QED
  BY <1>1, <1>2 DEF Min

\* The elements of a set of numbers up to n: one more where n is an element.
UpTo(S, n) == {m \in S : m <= n}

\* Counting the elements up to l: none up to 0, and one more where the next number is one.
LEMMA UpToNext ==
  ASSUME NEW n \in Nat, NEW S \in SUBSET (1..n), NEW l \in Nat
  PROVE  /\ IsFiniteSet(S) /\ Cardinality(UpTo(S, l)) \in Nat
         /\ Cardinality(UpTo(S, 0)) = 0 /\ UpTo(S, n) = S
         /\ Cardinality(UpTo(S, l + 1)) =
              IF l + 1 \in S THEN Cardinality(UpTo(S, l)) + 1 ELSE Cardinality(UpTo(S, l))
<1>1. IsFiniteSet(1..n)
  BY FS_Interval
<1>2. IsFiniteSet(S) /\ IsFiniteSet(UpTo(S, l))
  <2>1. IsFiniteSet(S)
    BY <1>1, FS_Subset
  <2>2. UpTo(S, l) \in SUBSET S
    BY DEF UpTo
  <2>3. QED
    BY <2>1, <2>2, FS_Subset
<1>3. UpTo(S, 0) = {} /\ UpTo(S, n) = S
  <2>1. \A m \in S : ~(m <= 0) /\ m <= n
    OBVIOUS
  <2>2. QED
    BY <2>1, Zenon DEF UpTo
<1>4. \A m \in S : m \in Nat /\ (m <= l + 1 <=> m <= l \/ m = l + 1)
  OBVIOUS
<1>5. Cardinality(UpTo(S, l)) \in Nat /\ Cardinality({}) = 0
  BY <1>2, FS_CardinalityType, FS_EmptySet
<1>6. Cardinality(UpTo(S, l + 1)) =
        IF l + 1 \in S THEN Cardinality(UpTo(S, l)) + 1 ELSE Cardinality(UpTo(S, l))
  <2>1. CASE l + 1 \in S
    <3>1. l + 1 \notin UpTo(S, l)
      BY DEF UpTo
    <3>2. UpTo(S, l + 1) = UpTo(S, l) \cup {l + 1}
      BY <1>4, <2>1, Zenon DEF UpTo
    <3>3. Cardinality(UpTo(S, l) \cup {l + 1}) = Cardinality(UpTo(S, l)) + 1
      BY <1>2, <3>1, FS_AddElement
    <3>4. QED
      BY <2>1, <3>2, <3>3
  <2>2. CASE l + 1 \notin S
    <3>1. UpTo(S, l + 1) = UpTo(S, l)
      BY <1>4, <2>2, Zenon DEF UpTo
    <3>2. QED
      BY <2>2, <3>1
  <2>3. QED
    BY <2>1, <2>2
<1>7. QED
  BY <1>2, <1>3, <1>5, <1>6

\* The b-th element of a set of numbers that has that many.
LEMMA ElementAt ==
  ASSUME NEW n \in Nat, NEW S \in SUBSET (1..n), NEW b \in 1..Cardinality(S)
  PROVE  \E l \in S : Cardinality(UpTo(S, l)) = b
<1> DEFINE T == {l \in Nat : Cardinality(UpTo(S, l)) >= b}
<1>0. IsFiniteSet(S) /\ Cardinality(S) \in Nat /\ b \in Nat /\ b > 0
  BY UpToNext, FS_CardinalityType
<1>1. n \in T
  <2>1. UpTo(S, n) = S
    BY UpToNext
  <2>2. QED
    BY <1>0, <2>1
<1>2. Min(T) \in T /\ \A y \in T : Min(T) <= y
  <2>1. T \in SUBSET Nat /\ T # {}
    BY <1>1
  <2> HIDE DEF T
  <2>2. QED
    BY <2>1, LeastNumber
<1> DEFINE l == Min(T)
<1>3. l \in Nat /\ Cardinality(UpTo(S, l)) >= b
  BY <1>2
<1>4. l # 0
  <2>1. Cardinality(UpTo(S, 0)) = 0
    BY UpToNext
  <2>2. QED
    BY <1>0, <1>3, <2>1
<1>5. l - 1 \in Nat /\ (l - 1) + 1 = l /\ l - 1 \notin T
  <2> HIDE DEF T
  <2>1. l \in Nat
    BY <1>3
  <2>2. QED
    BY <1>2, <1>4, <2>1
<1>6. Cardinality(UpTo(S, l - 1)) < b /\ Cardinality(UpTo(S, l - 1)) \in Nat
  <2>1. Cardinality(UpTo(S, l - 1)) \in Nat
    BY <1>5, UpToNext
  <2>2. ~(Cardinality(UpTo(S, l - 1)) >= b)
    BY <1>5
  <2>3. QED
    BY <1>0, <2>1, <2>2
<1> HIDE DEF l
<1>7. Cardinality(UpTo(S, l)) =
        IF l \in S THEN Cardinality(UpTo(S, l - 1)) + 1 ELSE Cardinality(UpTo(S, l - 1))
  <2>1. Cardinality(UpTo(S, (l - 1) + 1)) =
          IF (l - 1) + 1 \in S THEN Cardinality(UpTo(S, l - 1)) + 1 ELSE Cardinality(UpTo(S, l - 1))
    <3> DEFINE p == l - 1
    <3>1. p \in Nat
      BY <1>5
    <3> HIDE DEF p
    <3>2. /\ IsFiniteSet(S) /\ Cardinality(UpTo(S, p)) \in Nat
          /\ Cardinality(UpTo(S, 0)) = 0 /\ UpTo(S, n) = S
          /\ Cardinality(UpTo(S, p + 1)) =
               IF p + 1 \in S THEN Cardinality(UpTo(S, p)) + 1 ELSE Cardinality(UpTo(S, p))
      BY <3>1, UpToNext
    <3>3. QED
      BY <3>2 DEF p
  <2>2. QED
    BY <1>5, <2>1
<1>8. QED
  BY <1>0, <1>3, <1>6, <1>7

\* What is counted of a larger set is more where it has an element the other lacks.
LEMMA CountedMore ==
  ASSUME NEW S, IsFiniteSet(S), NEW T \in SUBSET S, NEW x \in S \ T
  PROVE  Cardinality(T) < Cardinality(S)
<1>1. IsFiniteSet(T) /\ Cardinality(T) <= Cardinality(S) /\ (Cardinality(S) = Cardinality(T) => S = T)
  BY FS_Subset
<1>2. Cardinality(S) \in Nat /\ Cardinality(T) \in Nat /\ S # T
  BY <1>1, FS_CardinalityType
<1>3. QED
  BY <1>1, <1>2

-----------------------------------------------------------------------------
\* How many may be in flight: at most what the user allows, one without lanes, and no more
\* than there are lanes.
LEMMA TargetBounds ==
  ASSUME Types
  PROVE  /\ Target \in Nat /\ Lanes \in Nat /\ exp.setup.parallel \in Nat
         /\ Target <= exp.setup.parallel
         /\ Serial => Target = 1
         /\ Lanes > 0 => Target <= Lanes
<1>1. Lanes \in Nat /\ exp.setup.parallel \in Nat /\ exp.setup.parallel > 0
  BY ExperimentsAssumption DEF Types, ExpRow, ExperimentsAssumption, Setup, Lanes
<1> DEFINE S == {Lanes, exp.setup.parallel}
<1>2. Min(S) \in S /\ \A y \in S : Min(S) <= y
  <2>1. S \in SUBSET Nat /\ S # {}
    BY <1>1
  <2> HIDE DEF S
  <2>2. QED
    BY <2>1, LeastNumber
<1>3. Min(S) \in Nat /\ Min(S) <= Lanes /\ Min(S) <= exp.setup.parallel
  BY <1>1, <1>2
<1> HIDE DEF S
<1>4. Target = IF Serial THEN 1 ELSE IF Lanes > 0 THEN Min(S) ELSE exp.setup.parallel
  BY DEF Target, S
<1>5. QED
  BY <1>1, <1>3, <1>4 DEF Serial

\* What a tick may claim: so many cells that wait, each of them once.
LEMMA ClaimListed ==
  ASSUME Types, NEW t \in TickRow, NEW list \in ClaimLists(t)
  PROVE  \E n \in Nat :
           /\ list \in [1..n -> InView(t, {"pending"})]
           /\ n > 0 => n + Cardinality(InView(t, InFlight)) <= Target
           /\ \A i, j \in 1..n : list[i] = list[j] => i = j
<1> DEFINE S == {Slots(t), Cardinality(InView(t, {"pending"}))}
           n == Min(S)
<1>1. /\ Cardinality(InView(t, InFlight)) \in Nat /\ Cardinality(InView(t, {"pending"})) \in Nat
      /\ Target \in Nat
  BY PartsFinite, TargetBounds DEF InView, TickRow
<1>2. Slots(t) \in Nat /\ (Slots(t) > 0 => Slots(t) + Cardinality(InView(t, InFlight)) <= Target)
  BY <1>1 DEF Slots
<1>3. Min(S) \in S /\ \A y \in S : Min(S) <= y
  <2>1. S \in SUBSET Nat /\ S # {}
    BY <1>1, <1>2
  <2> HIDE DEF S
  <2>2. QED
    BY <2>1, LeastNumber
<1>4. n \in Nat /\ n <= Slots(t)
  BY <1>1, <1>2, <1>3
<1>5. /\ list \in [1..n -> InView(t, {"pending"})]
      /\ \A i \in 1..n : list[i] \notin {list[j] : j \in 1..(i - 1)}
  BY DEF ClaimLists
<1> HIDE DEF n
<1>6. ASSUME NEW i \in 1..n, NEW j \in 1..n, list[i] = list[j] PROVE i = j
  <2>1. ~(i < j)
    <3>1. i < j => i \in 1..(j - 1)
      BY <1>4
    <3>2. QED
      BY <1>5, <1>6, <3>1
  <2>2. ~(j < i)
    <3>1. j < i => j \in 1..(i - 1)
      BY <1>4
    <3>2. QED
      BY <1>5, <1>6, <3>1
  <2>3. QED
    BY <1>4, <2>1, <2>2
<1>7. n > 0 => n + Cardinality(InView(t, InFlight)) <= Target
  BY <1>1, <1>2, <1>4
<1>8. QED
  BY <1>4, <1>5, <1>6, <1>7

\* The lanes no cell in flight uses, and how many of the first i cells claimed need one.
FreeLanes(t) == (1..Lanes) \ {t.view[c].lane : c \in InView(t, InFlight)}
Laned(list, i) == {j \in 1..i : list[j][2] \in External}

\* There are as many free lanes as a tick may claim cells.
LEMMA EnoughLanes ==
  ASSUME Types, NEW t \in TickRow, Lanes > 0
  PROVE  /\ IsFiniteSet(FreeLanes(t)) /\ Cardinality(FreeLanes(t)) \in Nat
         /\ Cardinality(FreeLanes(t)) >= Lanes - Cardinality(InView(t, InFlight))
<1> DEFINE flying == InView(t, InFlight)
           used == {t.view[c].lane : c \in flying}
           all == 1..Lanes
<1>0. Lanes \in Nat /\ IsFiniteSet(all) /\ Cardinality(all) = Lanes
  BY TargetBounds, FS_Interval
<1>1. IsFiniteSet(flying) /\ Cardinality(flying) \in Nat
  BY PartsFinite DEF InView, TickRow
<1>2. IsFiniteSet(used) /\ Cardinality(used) <= Cardinality(flying)
  <2> DEFINE f == [c \in flying |-> t.view[c].lane]
  <2>1. f \in Surjection(flying, used)
    BY DEF Surjection
  <2> HIDE DEF f, flying, used
  <2>2. QED
    BY <1>1, <2>1, FS_Surjection
<1> HIDE DEF flying, used, all
<1>3. /\ IsFiniteSet(all \ used) /\ Cardinality(all \ used) = Cardinality(all) - Cardinality(all \cap used)
  BY <1>0, FS_Difference
<1>4. Cardinality(all \cap used) <= Cardinality(used) /\ IsFiniteSet(all \cap used)
  <2>1. all \cap used \in SUBSET used
    OBVIOUS
  <2>2. QED
    BY <1>2, <2>1, FS_Subset
<1>5. Cardinality(all \cap used) \in Nat /\ Cardinality(used) \in Nat /\ Cardinality(all \ used) \in Nat
  BY <1>2, <1>3, <1>4, FS_CardinalityType
<1>6. FreeLanes(t) = all \ used
  BY DEF FreeLanes, all, used, flying
<1>7. QED
  BY <1>0, <1>1, <1>2, <1>3, <1>4, <1>5, <1>6 DEF flying

\* Each prepared cell that is claimed gets a lane nobody in flight uses, by its place in the list.
LEMMA LaneFree ==
  ASSUME Types, NEW t \in TickRow, NEW list \in ClaimLists(t), Lanes > 0,
         NEW i \in DOMAIN list, list[i][2] \in External
  PROVE  /\ LaneOf(t, list, i) \in FreeLanes(t)
         /\ Cardinality(UpTo(FreeLanes(t), LaneOf(t, list, i))) = Cardinality(Laned(list, i))
<1> DEFINE free == FreeLanes(t)
           b == Cardinality(Laned(list, i))
<1>1. PICK n \in Nat : /\ list \in [1..n -> InView(t, {"pending"})]
                       /\ n > 0 => n + Cardinality(InView(t, InFlight)) <= Target
  BY ClaimListed
<1>2. i \in 1..n /\ n > 0 /\ i <= n
  BY <1>1
<1>3. /\ Target \in Nat /\ Lanes \in Nat /\ Target <= Lanes /\ Cardinality(InView(t, InFlight)) \in Nat
      /\ Cardinality(free) \in Nat /\ Cardinality(free) >= Lanes - Cardinality(InView(t, InFlight))
  BY TargetBounds, EnoughLanes, PartsFinite DEF InView, TickRow
<1>4. b \in Nat /\ b > 0 /\ b <= i
  <2>1. IsFiniteSet(1..i) /\ Cardinality(1..i) = i
    BY <1>2, FS_Interval
  <2>2. Laned(list, i) \in SUBSET (1..i) /\ i \in Laned(list, i)
    BY <1>2 DEF Laned
  <2>3. IsFiniteSet(Laned(list, i)) /\ b <= i
    BY <2>1, <2>2, FS_Subset
  <2>4. b \in Nat /\ b # 0
    BY <2>2, <2>3, FS_CardinalityType, FS_EmptySet
  <2>5. QED
    BY <2>3, <2>4
<1>5. b \in 1..Cardinality(free)
  <2> HIDE DEF b, free
  <2>1. QED
    BY <1>1, <1>2, <1>3, <1>4
<1>6. free \in SUBSET (1..Lanes)
  BY DEF FreeLanes
<1> HIDE DEF b, free
<1>7. \E l \in free : Cardinality(UpTo(free, l)) = b
  BY <1>3, <1>5, <1>6, ElementAt
<1>8. LaneOf(t, list, i) = CHOOSE l \in free : Cardinality(UpTo(free, l)) = b
  <2>1. Lanes # 0
    BY <1>3
  <2>2. LaneOf(t, list, i) = CHOOSE l \in FreeLanes(t) :
           Cardinality({m \in FreeLanes(t) : m <= l}) = Cardinality(Laned(list, i))
    BY <2>1, Zenon DEF LaneOf, FreeLanes, Laned
  <2>3. QED
    BY <2>2 DEF free, b, UpTo
<1>9. QED
  BY <1>7, <1>8 DEF b, free

-----------------------------------------------------------------------------
\* The row of a claimed cell, with its status, task and lane.
ClaimRow(v, s, n, l) == [v EXCEPT !.status = s, !.task = n, !.lane = l, !.attempts = @ + 1]

\* The row of a claimed cell has its types, and what the claim wrote.
LEMMA ClaimRowMade ==
  ASSUME NEW v \in Rows, NEW s \in RowStatuses, NEW n \in Nat, NEW l \in Nat
  PROVE  LET f == ClaimRow(v, s, n, l) IN
         /\ f \in Rows /\ f.status = s /\ f.task = n /\ f.lane = l
         /\ f.attempts = v.attempts + 1 /\ f.retired = v.retired /\ f.cost = v.cost
<1> DEFINE f == ClaimRow(v, s, n, l)
           a == v.attempts + 1
<1>1. a \in Nat /\ s \in {"absent", "pending"} \cup InFlight \cup CellSettled
  BY DEF Rows, RowStatuses
<1>2. f = [[[[v EXCEPT !.status = s] EXCEPT !.task = n] EXCEPT !.lane = l] EXCEPT !.attempts = a]
  BY DEF ClaimRow
<1> HIDE DEF a, f
<1>3. f \in Rows /\ f.status = s /\ f.task = n /\ f.lane = l /\ f.attempts = a /\ f.retired = v.retired
      /\ f.cost = v.cost
  BY <1>1, <1>2 DEF Rows
<1>4. QED
  BY <1>3 DEF f, a

\* How a cell that is claimed starts.
Starts(c, broken) ==
  IF c \in broken THEN "failed" ELSE IF c[2] \in External THEN "preprocessing" ELSE "running"

\* What a claim makes of the cells on its list, and of the others, which it commits.
LEMMA ClaimMoves ==
  ASSUME Types, NEW k \in Ticks, Opened(tick[k]), NEW list \in ClaimLists(tick[k]),
         NEW broken \in SUBSET {c \in ToSet(list) : c[2] \in External}, NEW childless \in SUBSET broken,
         ClaimAll(k, list, broken, childless), NEW c \in Cells
  PROVE  \/ /\ c \notin ToSet(list) /\ cell'[c] = tick[k].view[c]
            /\ At(Flows, c) \/ At(Rests, c)
         \/ /\ At(Claimed, c) /\ c \in tick[k].live /\ tick[k].view[c].status = "pending"
            /\ cell'[c].status = Starts(c, broken) /\ cell'[c].cost = tick[k].view[c].cost
            /\ \E i \in DOMAIN list : list[i] = c /\ cell'[c].lane = LaneOf(tick[k], list, i)
<1> DEFINE t == tick[k]
           i == CHOOSE j \in DOMAIN list : list[j] = c
           kids == child[c]
           n == IF c \in childless THEN 0 ELSE Len(kids) + 1
           l == LaneOf(t, list, i)
           s == Starts(c, broken)
<1>0. t \in TickRow /\ kids \in Seq(Child) /\ Len(kids) \in Nat /\ ledger' = ledger
  BY LenProperties DEF Types, Opened, ClaimAll
<1>1. /\ cell'[c] = IF c \in ToSet(list) THEN ClaimedRow(t, list, i, broken, childless)
                    ELSE Flushed(t, cell)[c]
      /\ child'[c] = IF c \in ToSet(list) THEN Children(c, broken, childless) ELSE Released(t)[c]
  BY Zenon DEF ClaimAll
<1>2. CASE c \notin ToSet(list)
  <2>1. /\ \/ Flows(cell[c], ledger[c], child[c], cell'[c], ledger'[c], child'[c])
           \/ Rests(cell[c], ledger[c], child[c], cell'[c], ledger'[c], child'[c])
        /\ cell'[c] = t.view[c]
    <3> DEFINE f == Flushed(t, cell)[c]
               new == Released(t)[c]
    <3>1. /\ \/ Flows(cell[c], ledger[c], child[c], f, ledger[c], new)
             \/ Rests(cell[c], ledger[c], child[c], f, ledger[c], new)
          /\ f = t.view[c]
      BY FlushMoves
    <3>2. cell'[c] = f /\ child'[c] = new /\ ledger'[c] = ledger[c]
      BY <1>0, <1>1, <1>2
    <3> HIDE DEF f, new, t
    <3>3. QED
      BY <3>1, <3>2
  <2>2. QED
    BY <1>2, <2>1 DEF At
<1>3. CASE c \in ToSet(list)
  <2>1. i \in DOMAIN list /\ list[i] = c
    BY <1>3 DEF ToSet
  <2>2. c \in InView(t, {"pending"})
    <3>1. PICK m \in Nat : list \in [1..m -> InView(t, {"pending"})]
      BY <1>0, ClaimListed
    <3>2. QED
      BY <2>1, <3>1
  <2> HIDE DEF i
  <2>3. c \in t.live /\ t.view[c].status = "pending"
    BY <2>2 DEF InView
  <2>4. c \notin t.dirty /\ t.view[c] = cell[c] /\ ~cell[c].retired /\ cell[c] \in Rows
    BY <2>3 DEF Opened, Pictured, Polled, InFlight, Types
  <2>5. l \in Nat
    <3>1. CASE Lanes = 0 \/ c[2] \notin External
      BY <2>1, <3>1 DEF LaneOf
    <3>2. CASE Lanes # 0 /\ c[2] \in External
      <4>1. Lanes \in Nat /\ Lanes > 0
        BY <3>2, TargetBounds
      <4>2. l \in FreeLanes(t)
        BY <1>0, <2>1, <3>2, <4>1, LaneFree
      <4>3. QED
        BY <4>1, <4>2 DEF FreeLanes
    <3>3. QED
      BY <3>1, <3>2
  <2>6. n \in Nat /\ s \in RowStatuses
    BY <1>0 DEF Starts, RowStatuses, CellSettled, InFlight
  <2>7. cell'[c] = ClaimRow(cell[c], s, n, l)
    <3>1. ClaimedRow(t, list, i, broken, childless) = ClaimRow(t.view[c], s, n, l)
      BY <2>1, Zenon DEF ClaimedRow, ClaimRow, Starts
    <3>2. QED
      BY <1>1, <1>3, <2>4, <3>1
  <2>8. child'[c] = IF c \in childless THEN kids ELSE Created(kids, IF c \in broken THEN "failed"
                       ELSE IF c[2] \in External THEN "backlog" ELSE "ready")
    BY <1>1, <1>3, Zenon DEF Children, Created
  <2> HIDE DEF l, s, n
  <2>9. /\ cell'[c] \in Rows /\ cell'[c].status = s /\ cell'[c].task = n /\ cell'[c].lane = l
        /\ cell'[c].attempts = cell[c].attempts + 1 /\ ~cell'[c].retired /\ cell'[c].cost = cell[c].cost
    BY <2>4, <2>5, <2>6, <2>7, ClaimRowMade, SMTT(20)
  <2>10. cell[c].status = "pending" /\ ledger'[c] = ledger[c]
    BY <1>0, <2>3, <2>4
  <2>11. c \in childless => c \in broken
    OBVIOUS
  <2>12. Claimed(cell[c], ledger[c], kids, cell'[c], ledger'[c], child'[c])
    <3>1. CASE c \in childless
      BY <2>4, <2>8, <2>9, <2>10, <2>11, <3>1 DEF Claimed, n, s, Starts
    <3>2. CASE c \notin childless
      BY <2>4, <2>8, <2>9, <2>10, <3>2 DEF Claimed, n, s, Starts
    <3>3. QED
      BY <3>1, <3>2
  <2>13. At(Claimed, c)
    BY <2>12 DEF At
  <2>14. QED
    BY <2>1, <2>3, <2>4, <2>9, <2>13 DEF l, s
<1>4. QED
  BY <1>2, <1>3

-----------------------------------------------------------------------------
\* What a step of a kind other than a poll must show for the types: the ticks stay, or one ends.
LEMMA TypesOfOther ==
  ASSUME Types, Grows, SameExp(exp, exp'), exp'.retired \subseteq exp'.configs,
         exp'.report.revision \in Nat,
         cell' \in [Cells -> Rows], ledger' \in [Cells -> SUBSET Nat],
         \A c \in Cells : cell'[c].task = cell[c].task \/ cell'[c].task \in 0..Len(child'[c]),
         box' \in [Cells -> Boxes], reading'.on \in BOOLEAN, reading'.revision \in Nat,
         requests' \in 0..exp.setup.requests, faults' \in 0..exp.setup.faults,
         tick' = tick \/ \E k \in Ticks : tick' = [tick EXCEPT ![k] = Idle]
  PROVE  Types'
<1>1. \A j \in Ticks : PictureTyped(tick'[j], child')
  <2>1. CASE tick' = tick
    <3>1. ASSUME NEW j \in Ticks PROVE PictureTyped(tick'[j], child')
      <4>1. PictureTyped(tick[j], child)
        BY DEF Types, PictureTyped
      <4>2. PictureTyped(tick[j], child')
        BY <4>1, PictureGrows
      <4>3. QED
        BY <2>1, <4>2
    <3>2. QED
      BY <3>1
  <2>2. ASSUME NEW k \in Ticks, tick' = [tick EXCEPT ![k] = Idle]
        PROVE  \A j \in Ticks : PictureTyped(tick'[j], child')
    <3>1. PictureTyped(Idle, child)
      BY IdleTyped
    <3>2. PictureTyped(Idle, child')
      BY <3>1, PictureGrows
    <3>3. QED
      BY <2>2, <3>2, TicksTyped
  <2>3. QED
    BY <2>1, <2>2
<1>2. DOMAIN tick' = Ticks /\ tick' = [k \in Ticks |-> tick'[k]]
  BY DEF Types
<1>3. exp' \in ExpRow(exp') /\ exp'.setup = exp.setup
  BY DEF SameExp
<1>4. QED
  BY <1>1, <1>2, <1>3, TypesFrom

\* Steps of agents and users change cells one by one.
LEMMA MovesTyped ==
  ASSUME Types, Shaped, \A c \in Cells : At(Move, c)
  PROVE  /\ Grows /\ cell' \in [Cells -> Rows] /\ ledger' \in [Cells -> SUBSET Nat]
         /\ \A c \in Cells : cell'[c].task \in 0..Len(child'[c])
<1>1. ASSUME NEW c \in Cells
      PROVE  Typed(cell'[c], ledger'[c], child'[c]) /\ Len(child'[c]) = Len(child[c])
  <2>1. Typed(cell[c], ledger[c], child[c])
    BY DEF Types, Typed
  <2>2. Move(cell[c], ledger[c], child[c], cell'[c], ledger'[c], child'[c])
    BY DEF At
  <2>3. QED
    BY <2>1, <2>2, MoveTyped
<1>2. \A c \in Cells : Len(child[c]) \in Nat
  BY LenProperties DEF Types
<1>3. QED
  BY <1>1, <1>2 DEF Shaped, Typed, Grows

\* The types after a claim, whatever the tick had in its picture.
LEMMA ClaimTypes ==
  ASSUME Types, NEW k \in Ticks, Claim(k)
  PROVE  Types'
<1> DEFINE t == tick[k]
<1>1. PICK list \in ClaimLists(t) :
      \E broken \in SUBSET {c \in ToSet(list) : c[2] \in External} :
      \E childless \in SUBSET broken : ClaimAll(k, list, broken, childless)
  BY DEF Claim
<1>2. PICK broken \in SUBSET {c \in ToSet(list) : c[2] \in External} :
      \E childless \in SUBSET broken : ClaimAll(k, list, broken, childless)
  BY <1>1
<1>3. PICK childless \in SUBSET broken : ClaimAll(k, list, broken, childless)
  BY <1>2
<1>4. /\ t \in TickRow /\ t.view \in [Cells -> Rows] /\ PictureTyped(t, child) /\ cell \in [Cells -> Rows]
      /\ child \in [Cells -> Seq(Child)] /\ tick \in [Ticks -> TickRow]
      /\ \A c \in Cells : Len(child[c]) \in Nat
  BY LenProperties DEF Types, PictureTyped, TickRow
<1>5. PICK m \in Nat : list \in [1..m -> InView(t, {"pending"})]
  BY <1>4, ClaimListed
<1>6. ASSUME NEW c \in Cells
      PROVE  /\ cell'[c] \in Rows /\ child'[c] \in Seq(Child) /\ Len(child'[c]) >= Len(child[c])
             /\ cell'[c].task = cell[c].task \/ cell'[c].task \in 0..Len(child'[c])
  <2> DEFINE i == CHOOSE j \in DOMAIN list : list[j] = c
             kids == child[c]
             n == IF c \in childless THEN 0 ELSE Len(kids) + 1
             l == LaneOf(t, list, i)
             s == Starts(c, broken)
             b == IF c \in broken THEN "failed" ELSE IF c[2] \in External THEN "backlog" ELSE "ready"
  <2>1. /\ cell'[c] = IF c \in ToSet(list) THEN ClaimedRow(t, list, i, broken, childless)
                      ELSE Flushed(t, cell)[c]
        /\ child'[c] = IF c \in ToSet(list) THEN Children(c, broken, childless) ELSE Released(t)[c]
    BY <1>3, Zenon DEF ClaimAll
  <2>2. CASE c \notin ToSet(list)
    <3>1. Flushed(t, cell)[c] \in Rows /\ Flushed(t, cell)[c].task = cell[c].task
      <4>1. Flushed(t, cell) \in [Cells -> Rows] /\ \A d \in Cells : Flushed(t, cell)[d].task = cell[d].task
        BY <1>4, FlushTyped
      <4>2. QED
        BY <4>1
    <3>2. Released(t)[c] \in Seq(Child) /\ Len(Released(t)[c]) = Len(child[c])
      <4>1. Released(t) \in [Cells -> Seq(Child)] /\ \A d \in Cells : Len(Released(t)[d]) = Len(child[d])
        BY <1>4, ReleaseTyped DEF PictureTyped
      <4>2. QED
        BY <4>1
    <3>3. QED
      BY <1>4, <2>1, <2>2, <3>1, <3>2
  <2>3. CASE c \in ToSet(list)
    <3>1. i \in DOMAIN list /\ list[i] = c
      BY <2>3 DEF ToSet
    <3> HIDE DEF i
    <3>2. l \in Nat
      <4>1. CASE Lanes = 0 \/ c[2] \notin External
        BY <3>1, <4>1 DEF LaneOf
      <4>2. CASE Lanes # 0 /\ c[2] \in External
        <5>1. Lanes \in Nat /\ Lanes > 0
          BY <4>2, TargetBounds
        <5>2. l \in FreeLanes(t)
          BY <1>4, <3>1, <4>2, <5>1, LaneFree
        <5>3. QED
          BY <5>1, <5>2 DEF FreeLanes
      <4>3. QED
        BY <4>1, <4>2
    <3>3. n \in Nat /\ s \in RowStatuses /\ b \in ChildStatuses
      BY <1>4 DEF Starts, RowStatuses, CellSettled, InFlight, ChildStatuses, ChildTerminal
    <3>4. cell'[c] = ClaimRow(t.view[c], s, n, l)
      BY <2>1, <2>3, <3>1, Zenon DEF ClaimedRow, ClaimRow, Starts
    <3>5. child'[c] = IF c \in childless THEN kids ELSE Created(kids, b)
      BY <2>1, <2>3, Zenon DEF Children, Created
    <3> HIDE DEF l, s, n, b
    <3>6. cell'[c] \in Rows /\ cell'[c].task = n
      <4> DEFINE v == t.view[c]
                 f == ClaimRow(v, s, n, l)
      <4>1. v \in Rows
        BY <1>4
      <4> HIDE DEF v
      <4>2. f \in Rows /\ f.task = n
        BY <3>2, <3>3, <4>1, ClaimRowMade
      <4>3. QED
        BY <3>4, <4>2 DEF v
    <3>7. Created(kids, b) \in Seq(Child) /\ Len(Created(kids, b)) = Len(kids) + 1
      BY <1>4, <3>3, CreatedChild
    <3>8. QED
      BY <1>4, <3>5, <3>6, <3>7 DEF n
  <2>4. QED
    BY <2>2, <2>3
<1>7. /\ cell' = [c \in Cells |-> cell'[c]] /\ child' = [c \in Cells |-> child'[c]]
      /\ UNCHANGED <<ledger, reading, requests>> /\ tick' = [tick EXCEPT ![k] = Idle]
      /\ faults' = faults + Cardinality(broken) /\ faults + Cardinality(broken) <= exp.setup.faults
      /\ box' = [c \in Cells |-> IF c \in ToSet(list) /\ c[2] \in External
                                THEN IF c \in broken THEN "none" ELSE "preparing" ELSE box[c]]
  BY <1>3 DEF ClaimAll
<1>8. faults' \in 0..exp.setup.faults
  <2>1. broken \in SUBSET Cells
    BY <1>4, <1>5 DEF ToSet, InView, TickRow
  <2>2. Cardinality(broken) \in Nat
    BY <2>1, PartsFinite
  <2>3. exp.setup.faults \in Nat /\ faults \in 0..exp.setup.faults
    BY ExperimentsAssumption DEF Types, ExpRow, ExperimentsAssumption, Setup
  <2>4. QED
    BY <1>7, <2>2, <2>3
<1>9. box' \in [Cells -> Boxes]
  BY <1>7 DEF Types, Boxes
<1>10. Grows /\ cell' \in [Cells -> Rows]
  BY <1>6, <1>7 DEF Grows
<1>11. SameExp(exp, exp') /\ exp'.retired \subseteq exp'.configs /\ exp'.report.revision \in Nat
  <2>1. ExpBecomes(exp.status, exp.configs, exp.retired, exp.revision, exp.due, exp.report)
    BY <1>3, TickExp
  <2>2. QED
    BY <2>1 DEF ExpBecomes, Types
<1>12. /\ ledger' \in [Cells -> SUBSET Nat] /\ reading'.on \in BOOLEAN /\ reading'.revision \in Nat
       /\ requests' \in 0..exp.setup.requests
  BY <1>7 DEF Types
<1>13. QED
  BY <1>6, <1>7, <1>8, <1>9, <1>10, <1>11, <1>12, TypesOfOther

\* The types after a tick that finishes.
LEMMA FinishTypes ==
  ASSUME Types, NEW k \in Ticks, Finish(k)
  PROVE  Types'
<1> DEFINE t == tick[k]
           u == Over(t)
<1>1. /\ cell' = Flushed(u, cell) /\ child' = Released(u) /\ tick' = [tick EXCEPT ![k] = Idle]
      /\ UNCHANGED <<ledger, box, reading, requests, faults>>
  BY FinishParts
<1>2. t \in TickRow /\ PictureTyped(t, child)
  BY DEF Types, PictureTyped
<1>3. u \in TickRow /\ \A c \in Cells : u.view[c].task = t.view[c].task
  <2> DEFINE view == [c \in Cells |-> IF Hit(t) /\ c \in InView(t, {"pending"})
                                     THEN WithStatus(t.view[c], "skipped") ELSE t.view[c]]
             dirty == IF Hit(t) THEN t.dirty \cup InView(t, {"pending"}) ELSE t.dirty
  <2>1. u = [[t EXCEPT !.view = view] EXCEPT !.dirty = dirty]
    BY Zenon DEF Over, WithStatus
  <2>2. \A v \in Rows : WithStatus(v, "skipped") \in Rows /\ WithStatus(v, "skipped").task = v.task
    <3>1. "skipped" \in RowStatuses /\ "none" \in {"none", "pass", "fail"}
      BY DEF RowStatuses, CellSettled
    <3>2. QED
      BY <3>1, RowEdited DEF Becomes
  <2>3. view \in [Cells -> Rows] /\ \A c \in Cells : view[c].task = t.view[c].task
    BY <1>2, <2>2 DEF TickRow
  <2>4. dirty \in SUBSET Cells
    BY <1>2 DEF InView, TickRow
  <2> HIDE DEF view, dirty, u
  <2>5. u \in TickRow /\ u.view = view
    BY <1>2, <2>1, <2>3, <2>4 DEF TickRow
  <2>6. QED
    BY <2>3, <2>5
<1> HIDE DEF u
<1>4. PictureTyped(u, child)
  BY <1>2, <1>3 DEF PictureTyped
<1>5. cell' \in [Cells -> Rows] /\ \A c \in Cells : cell'[c].task = cell[c].task
  BY <1>1, <1>3, FlushTyped DEF Types
<1>6. Grows
  <2>1. child' \in [Cells -> Seq(Child)] /\ \A c \in Cells : Len(child'[c]) = Len(child[c])
    BY <1>1, <1>3, <1>4, ReleaseTyped DEF Types, PictureTyped
  <2>2. \A c \in Cells : Len(child[c]) \in Nat
    BY LenProperties DEF Types
  <2>3. QED
    BY <2>1, <2>2 DEF Grows
<1>7. SameExp(exp, exp') /\ exp'.retired \subseteq exp'.configs /\ exp'.report.revision \in Nat
  <2>1. ExpBecomes(exp'.status, exp.configs, exp.retired, exp.revision, exp.due, exp.report)
    BY FinishExp
  <2>2. QED
    BY <2>1 DEF ExpBecomes, Types
<1>8. /\ ledger' \in [Cells -> SUBSET Nat] /\ reading'.on \in BOOLEAN /\ reading'.revision \in Nat
      /\ requests' \in 0..exp.setup.requests /\ faults' \in 0..exp.setup.faults
      /\ box' \in [Cells -> Boxes]
  BY <1>1 DEF Types, Boxes
<1>9. QED
  BY <1>1, <1>5, <1>6, <1>7, <1>8, TypesOfOther

\* What the picture of a tick that begins holds.
Picture ==
  [on |-> TRUE, live |-> Live, view |-> cell,
   todo |-> {c \in Live : cell[c].status \in InFlight},
   ended |-> [c \in Cells |-> Current(c)],
   seen |-> [c \in Cells |-> IF cell[c].task = 0 THEN 0 ELSE child[c][cell[c].task].cost],
   dirty |-> {}]

\* The picture a tick begins with has its types.
LEMMA PictureTypes ==
  ASSUME Types
  PROVE  PictureTyped(Picture, child)
<1>1. ASSUME NEW c \in Cells
      PROVE  /\ Current(c) \in {"none"} \cup ChildStatuses
             /\ (IF cell[c].task = 0 THEN 0 ELSE child[c][cell[c].task].cost) \in 0..MaxCost
  <2>1. child[c] \in Seq(Child) /\ cell[c].task \in 0..Len(child[c])
    BY DEF Types
  <2>2. cell[c].task # 0 => child[c][cell[c].task] \in Child
    <3>1. cell[c].task # 0 => cell[c].task \in 1..Len(child[c])
      BY <2>1, LenProperties
    <3>2. QED
      BY <2>1, <3>1, ElementOfSeq
  <2>3. QED
    BY <2>2, NoCost DEF Current, Child
<1>2. Live \in SUBSET Cells
  BY DEF Live, LiveOf
<1>3. Picture \in TickRow /\ Picture.view = cell
  BY <1>1, <1>2 DEF Picture, TickRow, Types
<1>4. QED
  BY <1>3 DEF PictureTyped, Types

\* The types after a tick that begins, or ends by an error.
LEMMA TickTypes ==
  ASSUME Types, NEW k \in Ticks, TickBegin(k) \/ TickAborts(k)
  PROVE  Types'
<1>0. Grows
  <2>1. child' = child
    BY DEF TickBegin, TickAborts
  <2>2. QED
    BY <2>1, LenProperties DEF Grows, Types
<1>1. CASE TickBegin(k)
  <2>1. tick' = [tick EXCEPT ![k] = Picture] /\ UNCHANGED <<cell, ledger, child, box, reading, requests, faults>>
    BY <1>1, Zenon DEF TickBegin, Picture
  <2>2. PictureTyped(Picture, child')
    BY <1>0, PictureTypes, PictureGrows
  <2>3. \A j \in Ticks : PictureTyped(tick'[j], child')
    BY <1>0, <2>1, <2>2, TicksTyped
  <2>4. DOMAIN tick' = Ticks /\ tick' = [j \in Ticks |-> tick'[j]]
    BY <2>1 DEF Types
  <2>5. /\ exp' \in ExpRow(exp') /\ exp'.setup = exp.setup /\ exp'.retired \subseteq exp'.configs
        /\ exp'.report.revision \in Nat
    BY <1>1, TickExp DEF ExpBecomes, SameExp, Types
  <2>6. /\ cell' \in [Cells -> Rows] /\ ledger' \in [Cells -> SUBSET Nat] /\ box' \in [Cells -> Boxes]
        /\ reading'.on \in BOOLEAN /\ reading'.revision \in Nat
        /\ requests' \in 0..exp.setup.requests /\ faults' \in 0..exp.setup.faults
        /\ \A c \in Cells : cell'[c].task = cell[c].task
    BY <2>1 DEF Types, Boxes
  <2>7. QED
    BY <1>0, <2>3, <2>4, <2>5, <2>6, TypesFrom
<1>2. CASE TickAborts(k)
  <2>1. tick' = [tick EXCEPT ![k] = Idle] /\ UNCHANGED <<exp, cell, ledger, child, reading, requests>>
    BY <1>2 DEF TickAborts
  <2>2. box' \in [Cells -> Boxes]
    BY <1>2 DEF TickAborts, Types, Boxes
  <2>3. faults' \in 0..exp.setup.faults
    <3>1. exp.setup.faults \in Nat
      BY ExperimentsAssumption DEF Types, ExpRow, ExperimentsAssumption, Setup
    <3>2. QED
      BY <1>2, <3>1 DEF TickAborts, Types
  <2>4. /\ SameExp(exp, exp') /\ exp'.retired \subseteq exp'.configs /\ exp'.report.revision \in Nat
        /\ cell' \in [Cells -> Rows] /\ ledger' \in [Cells -> SUBSET Nat]
        /\ reading'.on \in BOOLEAN /\ reading'.revision \in Nat /\ requests' \in 0..exp.setup.requests
        /\ \A c \in Cells : cell'[c].task = cell[c].task
    BY <2>1 DEF Types, SameExp
  <2>5. QED
    BY <1>0, <2>1, <2>2, <2>3, <2>4, TypesOfOther
<1>3. QED
  BY <1>1, <1>2

-----------------------------------------------------------------------------
\* A request counts itself and leaves ticks, reports under way and faults alone.
LEMMA AsksTyped ==
  ASSUME Types, NEW kind, Asks(kind)
  PROVE  /\ requests' \in 0..exp.setup.requests /\ faults' \in 0..exp.setup.faults
         /\ reading'.on \in BOOLEAN /\ reading'.revision \in Nat /\ tick' = tick
<1>1. exp.setup.requests \in Nat
  BY ExperimentsAssumption DEF Types, ExpRow, ExperimentsAssumption, Setup
<1>2. QED
  BY <1>1 DEF Asks, Types

\* What cells moved does not matter for the types, once it is a move.
LEMMA TypesOfMoves ==
  ASSUME Types, Shaped, \A c \in Cells : At(Move, c),
         SameExp(exp, exp'), exp'.retired \subseteq exp'.configs, exp'.report.revision \in Nat,
         box' \in [Cells -> Boxes], reading'.on \in BOOLEAN, reading'.revision \in Nat,
         requests' \in 0..exp.setup.requests, faults' \in 0..exp.setup.faults, tick' = tick
  PROVE  Types'
<1>1. /\ Grows /\ cell' \in [Cells -> Rows] /\ ledger' \in [Cells -> SUBSET Nat]
      /\ \A c \in Cells : cell'[c].task \in 0..Len(child'[c])
  BY MovesTyped
<1>2. QED
  BY <1>1, TypesOfOther

\* The types after a request of a user.
LEMMA RequestTypes ==
  ASSUME Types,
         \/ Start \/ Pause \/ Resume \/ Cancel \/ RetryFailed \/ AddConfig \/ DeleteExperiment
         \/ (\E g \in Configs : RetireConfig(g)) \/ (\E c \in Cells : DeleteChild(c))
  PROVE  Types'
<1>0. /\ box \in [Cells -> Boxes] /\ exp.report.revision \in Nat /\ exp.retired \subseteq exp.configs
      /\ exp \in ExpRow(exp) /\ exp.revision + 1 \in Nat /\ Unwritten.revision \in Nat
  BY DEF Types, Boxes, ExpRow, Unwritten
<1>1. CASE Start
  <2>1. Shaped /\ \A c \in Cells : At(Move, c)
    BY <1>1, StartMoves, Zenon DEF Move, At
  <2>2. /\ SameExp(exp, exp') /\ exp'.retired \subseteq exp'.configs /\ exp'.report.revision \in Nat
    BY <1>0, <1>1, RequestExp DEF ExpBecomes
  <2>3. /\ reading'.on \in BOOLEAN /\ reading'.revision \in Nat /\ tick' = tick /\ box' \in [Cells -> Boxes]
        /\ requests' \in 0..exp.setup.requests /\ faults' \in 0..exp.setup.faults
    BY <1>0, <1>1 DEF Start, Types
  <2>4. QED
    BY <2>1, <2>2, <2>3, TypesOfMoves
<1>2. CASE Pause \/ Resume
  <2>1. Shaped /\ \A c \in Cells : At(Move, c)
    <3>1. UNCHANGED <<cell, ledger, child>>
      BY <1>2 DEF Pause, Resume
    <3>2. Shaped /\ \A c \in Cells : At(Rests, c)
      BY <3>1 DEF Shaped, At, Rests, Types
    <3>3. QED
      BY <3>2, Zenon DEF Move, At
  <2>2. /\ SameExp(exp, exp') /\ exp'.retired \subseteq exp'.configs /\ exp'.report.revision \in Nat
    BY <1>0, <1>2, RequestExp DEF ExpBecomes
  <2>3. /\ reading'.on \in BOOLEAN /\ reading'.revision \in Nat /\ tick' = tick
        /\ requests' \in 0..exp.setup.requests /\ faults' \in 0..exp.setup.faults
    BY <1>2, AsksTyped DEF Pause, Resume
  <2>4. box' \in [Cells -> Boxes]
    BY <1>0, <1>2 DEF Pause, Resume
  <2>5. QED
    BY <2>1, <2>2, <2>3, <2>4, TypesOfMoves
<1>3. CASE Cancel
  <2>1. Shaped /\ \A c \in Cells : At(Move, c)
    <3>1. Shaped /\ \A c \in Cells : At(Skipped, c) \/ At(Rests, c)
      BY <1>3, CancelMoves
    <3>2. QED
      BY <3>1, Zenon DEF Move, At
  <2>2. /\ SameExp(exp, exp') /\ exp'.retired \subseteq exp'.configs /\ exp'.report.revision \in Nat
    BY <1>0, <1>3, RequestExp DEF ExpBecomes
  <2>3. /\ reading'.on \in BOOLEAN /\ reading'.revision \in Nat /\ tick' = tick
        /\ requests' \in 0..exp.setup.requests /\ faults' \in 0..exp.setup.faults
    BY <1>3, AsksTyped DEF Cancel
  <2>4. box' \in [Cells -> Boxes]
    BY <1>0, <1>3 DEF Cancel, Boxes
  <2>5. QED
    BY <2>1, <2>2, <2>3, <2>4, TypesOfMoves
<1>4. CASE RetryFailed
  <2>1. Shaped /\ \A c \in Cells : At(Move, c)
    <3>1. Shaped /\ \A c \in Cells : At(Retried, c) \/ At(Rests, c)
      BY <1>4, RetryMoves
    <3>2. QED
      BY <3>1, Zenon DEF Move, At
  <2>2. /\ SameExp(exp, exp') /\ exp'.retired \subseteq exp'.configs /\ exp'.report.revision \in Nat
    BY <1>0, <1>4, RequestExp DEF ExpBecomes
  <2>3. /\ reading'.on \in BOOLEAN /\ reading'.revision \in Nat /\ tick' = tick
        /\ requests' \in 0..exp.setup.requests /\ faults' \in 0..exp.setup.faults
    BY <1>4, AsksTyped DEF RetryFailed
  <2>4. box' \in [Cells -> Boxes]
    BY <1>0, <1>4 DEF RetryFailed, Boxes
  <2>5. QED
    BY <2>1, <2>2, <2>3, <2>4, TypesOfMoves
<1>5. CASE AddConfig
  <2>1. Shaped /\ \A c \in Cells : At(Move, c)
    <3>1. Shaped /\ \A c \in Cells : At(Begun, c) \/ At(Rests, c)
      BY <1>5, AddMoves
    <3>2. QED
      BY <3>1, Zenon DEF Move, At
  <2>2. /\ SameExp(exp, exp') /\ exp'.retired \subseteq exp'.configs /\ exp'.report.revision \in Nat
    BY <1>0, <1>5, AddExp DEF ExpBecomes
  <2>3. /\ reading'.on \in BOOLEAN /\ reading'.revision \in Nat /\ tick' = tick
        /\ requests' \in 0..exp.setup.requests /\ faults' \in 0..exp.setup.faults
    BY <1>5, AsksTyped DEF AddConfig
  <2>4. box' \in [Cells -> Boxes]
    BY <1>0, <1>5 DEF AddConfig
  <2>5. QED
    BY <2>1, <2>2, <2>3, <2>4, TypesOfMoves
<1>6. CASE DeleteExperiment
  <2>1. Shaped /\ \A c \in Cells : At(Move, c)
    <3>1. Shaped /\ \A c \in Cells : At(Removed, c)
      BY <1>6, DeleteMoves
    <3>2. QED
      BY <3>1, Zenon DEF Move, At
  <2>2. /\ SameExp(exp, exp') /\ exp'.retired \subseteq exp'.configs /\ exp'.report.revision \in Nat
    BY <1>0, <1>6, RequestExp DEF ExpBecomes
  <2>3. /\ reading'.on \in BOOLEAN /\ reading'.revision \in Nat /\ tick' = tick
        /\ requests' \in 0..exp.setup.requests /\ faults' \in 0..exp.setup.faults
    BY <1>6, AsksTyped DEF DeleteExperiment
  <2>4. box' \in [Cells -> Boxes]
    BY <1>0, <1>6 DEF DeleteExperiment
  <2>5. QED
    BY <2>1, <2>2, <2>3, <2>4, TypesOfMoves
<1>7. ASSUME NEW g \in Configs, RetireConfig(g)
      PROVE  Types'
  <2>1. Shaped /\ \A c \in Cells : At(Move, c)
    <3>1. Shaped /\ \A c \in Cells : At(Retired, c) \/ At(Rests, c)
      BY <1>7, RetireMoves
    <3>2. QED
      BY <3>1, Zenon DEF Move, At
  <2>2. /\ SameExp(exp, exp') /\ exp'.retired \subseteq exp'.configs /\ exp'.report.revision \in Nat
    <3>1. ExpBecomes(exp'.status, exp.configs, exp.retired \cup {g}, exp.revision + 1, exp.due, Unwritten)
      BY <1>7, RetireExp
    <3>2. g \in exp.configs
      BY <1>7 DEF RetireConfig, LiveConfigs
    <3>3. QED
      BY <1>0, <3>1, <3>2 DEF ExpBecomes
  <2>3. /\ reading'.on \in BOOLEAN /\ reading'.revision \in Nat /\ tick' = tick
        /\ requests' \in 0..exp.setup.requests /\ faults' \in 0..exp.setup.faults
    <3>1. Asks("retire")
      BY <1>7 DEF RetireConfig
    <3>2. QED
      BY <3>1, AsksTyped
  <2>4. box' \in [Cells -> Boxes]
    <3>1. box' = [c \in Cells |-> IF c \in {d \in Cells : d[1] = g /\ cell[d].status # "absent"}
                                 THEN "none" ELSE box[c]]
      BY <1>7, Zenon DEF RetireConfig
    <3>2. QED
      BY <1>0, <3>1 DEF Boxes
  <2>5. QED
    BY <2>1, <2>2, <2>3, <2>4, TypesOfMoves
<1>8. ASSUME NEW d \in Cells, DeleteChild(d)
      PROVE  Types'
  <2>1. Shaped /\ \A c \in Cells : At(Move, c)
    <3>1. Shaped /\ Elsewhere({d}) /\ At(Unlinked, d)
      BY <1>8, DeleteChildMoves
    <3>2. \A c \in Cells : At(Unlinked, c) \/ At(Rests, c)
      BY <3>1, Zenon DEF Elsewhere
    <3>3. QED
      BY <3>1, <3>2, Zenon DEF Move, At
  <2>2. /\ SameExp(exp, exp') /\ exp'.retired \subseteq exp'.configs /\ exp'.report.revision \in Nat
    BY <1>0, <1>8 DEF DeleteChild, SameExp
  <2>3. /\ reading'.on \in BOOLEAN /\ reading'.revision \in Nat /\ tick' = tick
        /\ requests' \in 0..exp.setup.requests /\ faults' \in 0..exp.setup.faults
    <3>1. Asks("delete_child")
      BY <1>8 DEF DeleteChild
    <3>2. QED
      BY <3>1, AsksTyped
  <2>4. box' \in [Cells -> Boxes]
    BY <1>0, <1>8 DEF DeleteChild
  <2>5. QED
    BY <2>1, <2>2, <2>3, <2>4, TypesOfMoves
<1>9. QED
  BY <1>1, <1>2, <1>3, <1>4, <1>5, <1>6, <1>7, <1>8

-----------------------------------------------------------------------------
\* The types after the steps of agents and containers, and of a report.
LEMMA AroundTypes ==
  ASSUME Types,
         \/ \E c \in Cells : AgentEnds(c) \/ ContainerExits(c) \/ ContainerLost(c)
         \/ ReportBegins \/ ReportEnds
  PROVE  Types'
<1>0. /\ box \in [Cells -> Boxes] /\ exp.report.revision \in Nat /\ exp.retired \subseteq exp.configs
      /\ exp \in ExpRow(exp) /\ exp.revision \in Nat /\ exp.setup.faults \in Nat
      /\ exp.setup.requests \in Nat /\ requests \in 0..exp.setup.requests /\ faults \in 0..exp.setup.faults
      /\ reading.on \in BOOLEAN /\ reading.revision \in Nat
  BY ExperimentsAssumption DEF Types, Boxes, ExpRow, ExperimentsAssumption, Setup
<1>1. ASSUME UNCHANGED <<cell, ledger, child>>
      PROVE  Shaped /\ \A c \in Cells : At(Move, c)
  <2>1. Shaped /\ \A c \in Cells : At(Rests, c)
    BY <1>1 DEF Shaped, At, Rests, Types
  <2>2. QED
    BY <2>1, Zenon DEF Move, At
<1>2. ASSUME NEW d \in Cells, AgentEnds(d)
      PROVE  Types'
  <2>1. Shaped /\ \A c \in Cells : At(Move, c)
    <3>1. Shaped /\ Elsewhere({d}) /\ At(Executed, d)
      BY <1>2, AgentMoves
    <3>2. \A c \in Cells : At(Executed, c) \/ At(Rests, c)
      BY <3>1, Zenon DEF Elsewhere
    <3>3. QED
      BY <3>1, <3>2, Zenon DEF Move, At
  <2>2. /\ SameExp(exp, exp') /\ exp'.retired \subseteq exp'.configs /\ exp'.report.revision \in Nat
        /\ reading'.on \in BOOLEAN /\ reading'.revision \in Nat /\ tick' = tick
        /\ requests' \in 0..exp.setup.requests /\ faults' \in 0..exp.setup.faults
        /\ box' \in [Cells -> Boxes]
    BY <1>0, <1>2 DEF AgentEnds, SameExp
  <2>3. QED
    BY <2>1, <2>2, TypesOfMoves
<1>3. ASSUME NEW d \in Cells, ContainerExits(d) \/ ContainerLost(d)
      PROVE  Types'
  <2>1. UNCHANGED <<cell, ledger, child>>
    BY <1>3 DEF ContainerExits, ContainerLost
  <2>2. Shaped /\ \A c \in Cells : At(Move, c)
    BY <1>1, <2>1
  <2>3. /\ SameExp(exp, exp') /\ exp'.retired \subseteq exp'.configs /\ exp'.report.revision \in Nat
        /\ reading'.on \in BOOLEAN /\ reading'.revision \in Nat /\ tick' = tick
        /\ requests' \in 0..exp.setup.requests
    BY <1>0, <1>3 DEF ContainerExits, ContainerLost, SameExp
  <2>4. faults' \in 0..exp.setup.faults
    BY <1>0, <1>3 DEF ContainerExits, ContainerLost
  <2>5. box' \in [Cells -> Boxes]
    BY <1>0, <1>3 DEF ContainerExits, ContainerLost, Boxes
  <2>6. QED
    BY <2>2, <2>3, <2>4, <2>5, TypesOfMoves
<1>4. CASE ReportBegins
  <2>1. UNCHANGED <<exp, cell, ledger, child, box, tick, faults>>
    BY <1>4 DEF ReportBegins
  <2>2. Shaped /\ \A c \in Cells : At(Move, c)
    BY <1>1, <2>1
  <2>3. /\ SameExp(exp, exp') /\ exp'.retired \subseteq exp'.configs /\ exp'.report.revision \in Nat
        /\ tick' = tick /\ box' \in [Cells -> Boxes] /\ faults' \in 0..exp.setup.faults
    BY <1>0, <2>1 DEF SameExp
  <2>4. requests' \in 0..exp.setup.requests
    BY <1>0, <1>4 DEF ReportBegins
  <2>5. reading'.on \in BOOLEAN /\ reading'.revision \in Nat
    <3>1. reading' = [on |-> TRUE, revision |-> exp.revision, rows |-> Counted]
      BY <1>4 DEF ReportBegins
    <3>2. QED
      BY <1>0, <3>1
  <2>6. QED
    BY <2>2, <2>3, <2>4, <2>5, TypesOfMoves
<1>5. CASE ReportEnds
  <2>1. UNCHANGED <<cell, ledger, child, box, tick, requests, faults>>
        /\ reading' = [on |-> FALSE, revision |-> 0, rows |-> {}]
    BY <1>5 DEF ReportEnds
  <2>2. Shaped /\ \A c \in Cells : At(Move, c)
    BY <1>1, <2>1
  <2>3. SameExp(exp, exp') /\ exp'.retired \subseteq exp'.configs /\ exp'.report.revision \in Nat
    <3>1. ExpBecomes(exp.status, exp.configs, exp.retired, exp.revision, exp.due, exp'.report)
      BY <1>5, ReportExp
    <3>2. exp'.report = exp.report
          \/ \E rows : exp'.report = [revision |-> reading.revision, rows |-> rows]
      BY <1>5, ReportExp
    <3>3. exp'.report.revision \in Nat
      <4>1. ASSUME NEW rows PROVE [revision |-> reading.revision, rows |-> rows].revision = reading.revision
        OBVIOUS
      <4>2. exp'.report.revision = exp.report.revision \/ exp'.report.revision = reading.revision
        BY <3>2, <4>1, Zenon
      <4>3. QED
        BY <1>0, <4>2
    <3>4. QED
      BY <1>0, <3>1, <3>3 DEF ExpBecomes
  <2>4. /\ reading'.on \in BOOLEAN /\ reading'.revision \in Nat /\ tick' = tick
        /\ requests' \in 0..exp.setup.requests /\ faults' \in 0..exp.setup.faults
        /\ box' \in [Cells -> Boxes]
    BY <1>0, <2>1
  <2>5. QED
    BY <2>2, <2>3, <2>4, TypesOfMoves
<1>6. QED
  BY <1>2, <1>3, <1>4, <1>5

\* Every step keeps the types, whatever may overlap.
LEMMA TypesStep == Types /\ [Next]_expVars => Types'
<1> SUFFICES ASSUME Types, [Next]_expVars PROVE Types'
  OBVIOUS
<1>1. CASE UNCHANGED expVars
  BY <1>1 DEF expVars, Types, ExpRow
<1>2. ASSUME NEW k \in Ticks, TickStep(k) \/ TickAborts(k) PROVE Types'
  <2>1. CASE TickBegin(k) \/ TickAborts(k)
    BY <2>1, TickTypes
  <2>2. CASE Claim(k)
    BY <2>2, ClaimTypes
  <2>3. CASE Finish(k)
    BY <2>3, FinishTypes
  <2>4. ASSUME NEW c \in Cells,
               PollPreprocessing(k, c) \/ PollRunning(k, c) \/ PollEvaluating(k, c)
        PROVE  Types'
    <3>1. Polls(k, c)
      BY <2>4, PreprocessingPolls, RunningPolls, EvaluatingPolls
    <3>2. QED
      BY <3>1, PollTypes
  <2>5. QED
    BY <1>2, <2>1, <2>2, <2>3, <2>4 DEF TickStep
<1>3. CASE \/ \E c \in Cells : AgentEnds(c) \/ ContainerExits(c) \/ ContainerLost(c)
           \/ ReportBegins \/ ReportEnds
  BY <1>3, AroundTypes
<1>4. CASE \/ Start \/ Pause \/ Resume \/ Cancel \/ RetryFailed \/ AddConfig \/ DeleteExperiment
           \/ (\E g \in Configs : RetireConfig(g)) \/ (\E c \in Cells : DeleteChild(c))
  BY <1>4, RequestTypes
<1>5. QED
  BY <1>1, <1>2, <1>3, <1>4 DEF Next

\* The types hold at the start.
LEMMA TypesInit == Init => Types
<1> SUFFICES ASSUME Init PROVE Types
  OBVIOUS
<1>1. PICK s \in Setups :
       exp = [setup |-> s, status |-> "draft", configs |-> 1..s.initial, retired |-> {},
              revision |-> 1, spent |-> 0, due |-> FALSE,
              report |-> [revision |-> 0, rows |-> {}]]
  BY DEF Init
<1>2. s.initial \in 1..MaxConfigs /\ s.requests \in Nat /\ s.faults \in Nat /\ MaxConfigs \in Nat
  BY ExperimentsAssumption DEF ExperimentsAssumption, Setup
<1>3. 1..s.initial \in SUBSET Configs
  BY <1>2 DEF Configs
<1>4. /\ exp \in ExpRow(exp) /\ exp.retired \subseteq exp.configs /\ exp.report.revision \in Nat
      /\ exp.setup = s
  BY <1>1, <1>3 DEF ExpRow, ExpStatuses
<1>5. cell = [c \in Cells |-> NoRow] /\ ledger = [c \in Cells |-> {}] /\ child = [c \in Cells |-> <<>>]
      /\ box = [c \in Cells |-> "none"] /\ tick = [k \in Ticks |-> Idle]
      /\ reading = [on |-> FALSE, revision |-> 0, rows |-> {}] /\ requests = 0 /\ faults = 0
  BY DEF Init
<1>6. <<>> \in Seq(Child) /\ Len(<<>>) = 0
  BY EmptySeq
<1>7. NoRow \in Rows /\ NoRow.task = 0
  BY RowsMade
<1>8. Idle \in TickRow /\ \A c \in Cells : Idle.view[c] = NoRow
  BY <1>7, NoCost DEF Idle, TickRow
<1>9. QED
  BY <1>2, <1>4, <1>5, <1>6, <1>7, <1>8 DEF Types

\* The rows of the experiment, its cells, their tasks and the ledger keep their types, and
\* a child number names a child, whatever requests and ticks overlap.
THEOREM MatrixTypeCorrect == Spec => []TypeOK
<1>1. Init => Types
  BY TypesInit
<1>2. Types /\ [Next]_expVars => Types'
  BY TypesStep
<1>3. Types => TypeOK
  BY DEF Types, TypeOK, ExpRow, ExpStatuses
<1>4. QED
  BY <1>1, <1>2, <1>3, PTL DEF Spec

-----------------------------------------------------------------------------
\* What the steps have in common: each cell goes one of the ways above, and what the rows
\* say of their archives and children is kept.
LEMMA RowsStay ==
  ASSUME Types, RowsKept, exp.status # "deleted", \A c \in Cells : At(CellMove, c)
  PROVE  RowsKept'
<1>1. ASSUME NEW c \in Cells
      PROVE  /\ Kept(cell'[c], ledger'[c], child'[c])
             /\ \A i \in DOMAIN child'[c] : child'[c][i].status \in Working => i = Len(child'[c])
  <2>1. Typed(cell[c], ledger[c], child[c]) /\ Kept(cell[c], ledger[c], child[c])
    BY DEF Types, Typed, RowsKept
  <2>2. CellMove(cell[c], ledger[c], child[c], cell'[c], ledger'[c], child'[c])
    BY DEF At
  <2>3. Kept(cell'[c], ledger'[c], child'[c])
    BY <2>1, <2>2, CellMoveKept
  <2>4. QED
    BY <2>3, Zenon DEF Kept
<1>2. QED
  BY <1>1, Zenon DEF RowsKept

\* Without a new configuration no row appears.
LEMMA TableStays ==
  ASSUME Tabled, exp'.configs = exp.configs,
         exp'.status \in {"draft", "deleted"} => exp.status \in {"draft", "deleted"},
         \A c \in Cells : At(Goes, c)
  PROVE  Tabled'
<1>1. ASSUME NEW c \in Cells, c[1] \notin exp'.configs \/ exp'.status \in {"draft", "deleted"}
      PROVE  cell'[c] = NoRow /\ ledger'[c] = {}
  <2>1. cell[c] = NoRow /\ ledger[c] = {}
    BY <1>1 DEF Tabled
  <2>2. Goes(NoRow, ledger[c], child[c], cell'[c], ledger'[c], child'[c])
    BY <2>1 DEF At
  <2>3. QED
    BY <2>1, <2>2, NoRowStays
<1>2. QED
  BY <1>1 DEF Tabled

\* What a report counts depends on the status, verdict and retirement of the rows.
LEMMA CountedStays ==
  ASSUME \A c \in Cells : /\ cell'[c].status = cell[c].status /\ cell'[c].verdict = cell[c].verdict
                          /\ cell'[c].retired = cell[c].retired
  PROVE  Counted' = Counted
BY DEF Counted, Live, LiveOf

\* A report that is kept or under way while the revision stays: it is about an experiment
\* that has not ended before, or one whose rows stay.
LEMMA ReportStays ==
  ASSUME Reported, exp.status # "deleted", exp'.revision = exp.revision, exp'.report = exp.report,
         reading' = reading,
         \/ exp.status \notin ExpTerminal
         \/ exp'.status = exp.status /\ Counted' = Counted
         \/ exp'.status = "deleted"
  PROVE  Reported'
BY DEF Reported

\* A mutation that moves the revision leaves every report behind.
LEMMA ReportDropped ==
  ASSUME Types, Reported, exp'.revision = exp.revision + 1, exp'.report = Unwritten, reading' = reading
  PROVE  Reported'
<1>1. exp.revision \in Nat /\ reading.revision \in Nat /\ Unwritten.revision = 0
  BY DEF Types, ExpRow, Unwritten
<1>2. QED
  BY <1>1 DEF Reported

\* Where no tick is on, nothing is pictured and nobody is alone.
LEMMA NoTick ==
  ASSUME \A k \in Ticks : ~tick'[k].on, ~exp'.due
  PROVE  Open' /\ Alone'
BY DEF Open, Alone

\* No request but pause and resume arrives while a tick is on, or is due.
LEMMA AsksAlone ==
  ASSUME Undisturbed, NEW kind, Asks(kind), kind \notin {"pause", "resume"}
  PROVE  (\A k \in Ticks : ~tick[k].on) /\ ~exp.due /\ tick' = tick /\ reading' = reading
         /\ exp.status # "deleted"
BY DEF Undisturbed, Asks

-----------------------------------------------------------------------------
\* The picture of a tick after one of its polls.
Seen(t, u, c, row, dirty) ==
  /\ u.on = t.on /\ u.live = t.live /\ u.ended = t.ended /\ u.todo = t.todo \ {c}
  /\ u.dirty = dirty /\ u.view = [t.view EXCEPT ![c] = row]

\* What a poll changes of the picture of its tick, and whether it commits.
LEMMA PollTick ==
  ASSUME Types, NEW k \in Ticks, NEW c \in Cells, Polls(k, c)
  PROVE  /\ \A j \in Ticks \ {k} : tick'[j] = tick[j]
         /\ \/ /\ Seen(tick[k], tick'[k], c, tick[k].view[c], tick[k].dirty)
               /\ UNCHANGED <<cell, child>>
            \/ \E row : /\ PolledRow(tick[k].view[c], tick[k].ended[c], row)
                        /\ \/ /\ Seen(tick[k], tick'[k], c, row, tick[k].dirty \cup {c})
                              /\ UNCHANGED <<cell, child>>
                           \/ /\ Seen(tick[k], tick'[k], c, row, {c})
                              /\ cell' = Flushed(tick[k], cell) /\ child' = Released(tick[k])
<1> DEFINE t == tick[k]
<1>0. t \in TickRow /\ tick \in [Ticks -> TickRow] /\ t.view \in [Cells -> Rows]
  BY DEF Types, TickRow
<1>1. ASSUME NEW row, NEW dirty
      PROVE  LET u == [[[t EXCEPT !.view = [t.view EXCEPT ![c] = row]]
                          EXCEPT !.dirty = dirty] EXCEPT !.todo = t.todo \ {c}]
             IN  Seen(t, u, c, row, dirty)
  BY <1>0 DEF Seen, TickRow
<1>2. CASE Pass(k, c) /\ UNCHANGED <<cell, child>>
  <2>1. tick' = [tick EXCEPT ![k] = [t EXCEPT !.todo = t.todo \ {c}]]
    BY <1>0, <1>2 DEF Pass
  <2>2. tick'[k] = [t EXCEPT !.todo = t.todo \ {c}] /\ \A j \in Ticks \ {k} : tick'[j] = tick[j]
    BY <1>0, <2>1
  <2>3. Seen(t, [t EXCEPT !.todo = t.todo \ {c}], c, t.view[c], t.dirty)
    BY <1>0 DEF Seen, TickRow
  <2>4. QED
    BY <1>2, <2>2, <2>3
<1>3. ASSUME NEW row, PolledRow(t.view[c], t.ended[c], row), Write(k, c, row)
      PROVE  /\ \A j \in Ticks \ {k} : tick'[j] = tick[j]
             /\ Seen(t, tick'[k], c, row, t.dirty \cup {c})
  <2> DEFINE u == [[[t EXCEPT !.view = [t.view EXCEPT ![c] = row]]
                      EXCEPT !.dirty = t.dirty \cup {c}] EXCEPT !.todo = t.todo \ {c}]
  <2>1. tick' = [tick EXCEPT ![k] = u]
    BY <1>0, <1>3 DEF Write, TickRow
  <2>2. Seen(t, u, c, row, t.dirty \cup {c})
    BY <1>1
  <2> HIDE DEF u
  <2>3. QED
    BY <1>0, <2>1, <2>2
<1>4. ASSUME NEW row, PolledRow(t.view[c], t.ended[c], row), Commits(k, c, row)
      PROVE  /\ \A j \in Ticks \ {k} : tick'[j] = tick[j]
             /\ Seen(t, tick'[k], c, row, {c})
             /\ cell' = Flushed(t, cell) /\ child' = Released(t)
  <2> DEFINE u == [[[t EXCEPT !.view = [t.view EXCEPT ![c] = row]]
                      EXCEPT !.dirty = {c}] EXCEPT !.todo = t.todo \ {c}]
  <2>1. tick' = [tick EXCEPT ![k] = u]
    BY <1>0, <1>4 DEF Commits, TickRow
  <2>2. Seen(t, u, c, row, {c})
    BY <1>1
  <2> HIDE DEF u
  <2>3. QED
    BY <1>0, <1>4, <2>1, <2>2 DEF Commits
<1>5. QED
  BY <1>2, <1>3, <1>4 DEF Polls

\* What a poll makes of a row in flight fits its child.
LEMMA PolledPicture ==
  ASSUME NEW r \in Rows, NEW a, NEW kids, Kept(r, a, kids), ~r.retired, r.status \in InFlight,
         NEW ended, ended \in ChildTerminal => r.task # 0 /\ kids[r.task].status \in ChildTerminal,
         NEW row, PolledRow(r, ended, row)
  PROVE  Polled(r, row, kids)
<1>1. r.task # 0 => Fits(r.status, kids[r.task].status)
  BY DEF Kept
<1>2. /\ row.task = r.task /\ row.attempts = r.attempts /\ row.retired = r.retired /\ row.lane = r.lane
  BY DEF PolledRow
<1>3. row.status \in InFlight \cup {"success", "failed"}
  BY DEF PolledRow, InFlight
<1>4. ASSUME r.task # 0
      PROVE  /\ row.status \in {"preprocessing", "running"} => kids[r.task].status = "backlog"
             /\ row.status = "failed" => kids[r.task].status \in {"backlog"} \cup ChildTerminal
             /\ row.status \in {"evaluating", "success"} => kids[r.task].status \in ChildTerminal
  BY <1>1, <1>4 DEF PolledRow, Fits, InFlight
<1>5. QED
  BY <1>2, <1>3, <1>4 DEF Polled

\* A child that has ended is not changed by a commit, and one that a commit releases was held back.
LEMMA FreedStays ==
  ASSUME NEW f, NEW kids \in Seq(Child), f.task \in 0..Len(kids), f.task # 0,
         kids[f.task].status \in ChildTerminal
  PROVE  Freed(f, kids) = kids
BY DEF Freed, ChildTerminal

\* The picture of a cell that is not polled, after a commit.
LEMMA CommittedPicture ==
  ASSUME Types, NEW t, Opened(t), NEW c \in Cells, NEW u, NEW d \in Cells, d # c, NEW row,
         Seen(t, u, c, row, {c})
  PROVE  Pictured(u, d, Flushed(t, cell)[d], Released(t)[d])
<1> DEFINE f == Flushed(t, cell)[d]
           new == Released(t)[d]
           r == cell[d]
           kids == child[d]
<1>0. /\ t \in TickRow /\ r \in Rows /\ kids \in Seq(Child) /\ r.task \in 0..Len(kids)
      /\ Pictured(t, d, r, kids)
  BY DEF Types, Opened
<1>1. /\ Flows(r, ledger[d], kids, f, ledger[d], new) \/ Rests(r, ledger[d], kids, f, ledger[d], new)
      /\ f = t.view[d]
      /\ d \notin t.dirty => f = r /\ new = kids
  BY FlushMoves
<1>2. /\ u.live = t.live /\ u.ended = t.ended /\ (d \in u.todo <=> d \in t.todo) /\ d \notin u.dirty
      /\ u.view[d] = t.view[d]
  BY <1>0 DEF Seen, TickRow
<1> HIDE DEF f, new, r, kids
<1>3. ASSUME Flows(r, ledger[d], kids, f, ledger[d], new) PROVE Pictured(u, d, f, new)
  <2>1. /\ r.status \in InFlight /\ f.status \in InFlight \cup {"success", "failed"}
        /\ f.retired = r.retired /\ f.task = r.task /\ new = Freed(f, kids) /\ ~r.retired
    BY <1>3 DEF Flows, Polled
  <2>2. d \in t.live
    BY <1>0, <2>1 DEF Pictured, InFlight
  <2>3. f.status # "absent" /\ ~f.retired
    BY <2>1 DEF InFlight
  <2>4. u.ended[d] \in ChildTerminal => f.task # 0 /\ new[f.task].status \in ChildTerminal
    <3>1. u.ended[d] \in ChildTerminal => r.task # 0 /\ kids[r.task].status \in ChildTerminal
      BY <1>0, <1>2 DEF Pictured
    <3>2. u.ended[d] \in ChildTerminal => new = kids
      BY <1>0, <2>1, <3>1, FreedStays
    <3>3. QED
      BY <2>1, <3>1, <3>2
  <2>5. d \in u.todo => f.status \in InFlight
    <3>1. d \in t.todo => d \notin t.dirty /\ r.status \in InFlight
      BY <1>0 DEF Pictured
    <3>2. QED
      BY <1>1, <1>2, <3>1
  <2>6. QED
    BY <1>1, <1>2, <2>2, <2>3, <2>4, <2>5 DEF Pictured
<1>4. ASSUME Rests(r, ledger[d], kids, f, ledger[d], new) PROVE Pictured(u, d, f, new)
  <2>1. f = r /\ new = kids
    BY <1>4 DEF Rests
  <2>2. QED
    BY <1>0, <1>1, <1>2, <2>1 DEF Pictured
<1>5. QED
  BY <1>1, <1>3, <1>4 DEF f, new, r, kids

\* A tick that is on: nobody else's is, its experiment has not ended, and it is open.
LEMMA OnlyTick ==
  ASSUME MatrixInv, NEW k \in Ticks, tick[k].on
  PROVE  /\ Opened(tick[k]) /\ \A j \in Ticks \ {k} : ~tick[j].on
         /\ exp.status \in {"running", "paused"} /\ exp.status \notin ExpTerminal
         /\ exp.status # "deleted" /\ ~exp.due
<1>1. tick[k] \in TickRow /\ exp.status \in {"running", "paused"} /\ ~exp.due
  BY DEF MatrixInv, Consistent, Types, Alone
<1>2. exp.status \notin ExpTerminal /\ exp.status # "deleted"
  BY <1>1 DEF ExpTerminal
<1>3. QED
  BY <1>1, <1>2 DEF MatrixInv, Consistent, Alone, Open, Opened

\* A poll keeps the picture of its tick beside the table.
LEMMA PollOpen ==
  ASSUME MatrixInv, NEW k \in Ticks, NEW c \in Cells, Polls(k, c)
  PROVE  /\ tick[k].on /\ tick'[k].on /\ \A j \in Ticks \ {k} : ~tick'[j].on
         /\ \A d \in Cells : At(Goes, d)
         /\ \A d \in Cells : Pictured(tick'[k], d, cell'[d], child'[d])
<1> DEFINE t == tick[k]
           u == tick'[k]
<1>0. tick[k].on /\ c \in t.todo
  BY DEF Polls, PollOrder
<1>1. Types /\ RowsKept /\ Opened(t) /\ (\A j \in Ticks \ {k} : ~tick[j].on) /\ exp.status # "deleted"
  BY <1>0, OnlyTick DEF MatrixInv, Consistent
<1>2. /\ \A j \in Ticks \ {k} : tick'[j] = tick[j]
      /\ \/ /\ Seen(t, u, c, t.view[c], t.dirty) /\ UNCHANGED <<cell, child>>
         \/ \E row : /\ PolledRow(t.view[c], t.ended[c], row)
                     /\ \/ /\ Seen(t, u, c, row, t.dirty \cup {c})
                           /\ UNCHANGED <<cell, child>>
                        \/ /\ Seen(t, u, c, row, {c})
                           /\ cell' = Flushed(t, cell) /\ child' = Released(t)
  BY <1>1, PollTick
<1>3. ledger' = ledger /\ t \in TickRow /\ t.view \in [Cells -> Rows]
  BY <1>1 DEF Polls, Opened, TickRow
<1>4. /\ c \in t.live /\ c \notin t.dirty /\ cell[c].status \in InFlight /\ ~cell[c].retired
      /\ t.view[c] = cell[c] /\ cell[c].status # "absent"
  BY <1>0, <1>1 DEF Opened, Pictured, InFlight
<1>5. ASSUME NEW row, PolledRow(t.view[c], t.ended[c], row)
      PROVE  Polled(cell[c], row, child[c])
  <2>1. /\ cell[c] \in Rows /\ Kept(cell[c], ledger[c], child[c])
        /\ t.ended[c] \in ChildTerminal => cell[c].task # 0 /\ child[c][cell[c].task].status \in ChildTerminal
    BY <1>1 DEF Types, RowsKept, Opened, Pictured
  <2>2. PolledRow(cell[c], t.ended[c], row)
    BY <1>4, <1>5
  <2> HIDE DEF t
  <2>3. QED
    BY <1>4, <2>1, <2>2, PolledPicture
<1>6. u.on
  BY <1>0, <1>2 DEF Seen
<1>7. CASE Seen(t, u, c, t.view[c], t.dirty) /\ UNCHANGED <<cell, child>>
  <2>1. \A d \in Cells : At(Goes, d)
    BY <1>3, <1>7 DEF At, Goes, Rests
  <2>2. u.live = t.live /\ u.ended = t.ended /\ u.dirty = t.dirty /\ u.todo = t.todo \ {c}
        /\ \A d \in Cells : u.view[d] = t.view[d]
    BY <1>3, <1>7 DEF Seen
  <2>3. \A d \in Cells : Pictured(t, d, cell'[d], child'[d])
    BY <1>1, <1>7 DEF Opened
  <2> HIDE DEF t, u
  <2>4. \A d \in Cells : Pictured(u, d, cell'[d], child'[d])
    BY <2>2, <2>3 DEF Pictured
  <2>5. QED
    BY <1>0, <1>1, <1>2, <1>6, <2>1, <2>4 DEF t, u
<1>8. ASSUME NEW row, PolledRow(t.view[c], t.ended[c], row), Seen(t, u, c, row, t.dirty \cup {c}),
             UNCHANGED <<cell, child>>
      PROVE  /\ \A d \in Cells : At(Goes, d)
             /\ \A d \in Cells : Pictured(u, d, cell'[d], child'[d])
  <2>1. \A d \in Cells : At(Goes, d)
    BY <1>3, <1>8 DEF At, Goes, Rests
  <2>2. u.live = t.live /\ u.ended = t.ended /\ u.dirty = t.dirty \cup {c} /\ u.todo = t.todo \ {c}
        /\ u.view[c] = row /\ \A d \in Cells \ {c} : u.view[d] = t.view[d]
    BY <1>3, <1>8 DEF Seen
  <2>3. \A d \in Cells : Pictured(t, d, cell'[d], child'[d])
    BY <1>1, <1>8 DEF Opened
  <2>4. Polled(cell'[c], row, child'[c]) /\ c \in t.live
    BY <1>4, <1>5, <1>8
  <2> HIDE DEF t, u
  <2>5. Pictured(u, c, cell'[c], child'[c])
    BY <2>2, <2>3, <2>4 DEF Pictured
  <2>6. \A d \in Cells \ {c} : Pictured(u, d, cell'[d], child'[d])
    BY <2>2, <2>3 DEF Pictured
  <2>7. QED
    BY <2>1, <2>5, <2>6
<1>9. ASSUME NEW row, PolledRow(t.view[c], t.ended[c], row), Seen(t, u, c, row, {c}),
             cell' = Flushed(t, cell), child' = Released(t)
      PROVE  /\ \A d \in Cells : At(Goes, d)
             /\ \A d \in Cells : Pictured(u, d, cell'[d], child'[d])
  <2>1. ASSUME NEW d \in Cells
        PROVE  /\ \/ Flows(cell[d], ledger[d], child[d], cell'[d], ledger[d], child'[d])
                  \/ Rests(cell[d], ledger[d], child[d], cell'[d], ledger[d], child'[d])
               /\ d \notin t.dirty => cell'[d] = cell[d] /\ child'[d] = child[d]
    BY <1>1, <1>9, FlushMoves
  <2>2. \A d \in Cells : At(Goes, d)
    BY <1>3, <2>1, Zenon DEF At, Goes
  <2>3. ASSUME NEW d \in Cells, d # c
        PROVE  Pictured(u, d, cell'[d], child'[d])
    <3>1. Pictured(u, d, Flushed(t, cell)[d], Released(t)[d])
      BY <1>1, <1>9, <2>3, CommittedPicture
    <3>2. QED
      BY <1>9, <3>1
  <2>4. u.live = t.live /\ u.ended = t.ended /\ u.dirty = {c} /\ u.todo = t.todo \ {c} /\ u.view[c] = row
    BY <1>3, <1>9 DEF Seen
  <2>5. Pictured(t, c, cell[c], child[c]) /\ cell'[c] = cell[c] /\ child'[c] = child[c]
    BY <1>1, <1>4, <2>1 DEF Opened
  <2>6. Polled(cell[c], row, child[c]) /\ c \in t.live
    BY <1>4, <1>5, <1>9
  <2> HIDE DEF t, u
  <2>7. Pictured(u, c, cell'[c], child'[c])
    BY <2>4, <2>5, <2>6 DEF Pictured
  <2>8. QED
    BY <2>2, <2>3, <2>7
<1>10. QED
  BY <1>0, <1>1, <1>2, <1>6, <1>7, <1>8, <1>9

\* A poll keeps all of it.
LEMMA PollKeeps ==
  ASSUME MatrixInv, NEW k \in Ticks, NEW c \in Cells, Polls(k, c)
  PROVE  Consistent' /\ \A d \in Cells : At(CellMove, d)
<1>1. /\ tick[k].on /\ tick'[k].on /\ \A j \in Ticks \ {k} : ~tick'[j].on
      /\ \A d \in Cells : At(Goes, d)
      /\ \A d \in Cells : Pictured(tick'[k], d, cell'[d], child'[d])
  BY PollOpen
<1>2. exp.status \in {"running", "paused"} /\ exp.status \notin ExpTerminal /\ exp.status # "deleted" /\ ~exp.due
  BY <1>1, OnlyTick
<1>3. exp' = exp /\ reading' = reading
  BY DEF Polls
<1>4. \A d \in Cells : At(CellMove, d)
  BY <1>1, Zenon DEF At, CellMove
<1>5. RowsKept'
  BY <1>2, <1>4, RowsStay DEF MatrixInv, Consistent
<1>6. Tabled'
  BY <1>1, <1>3, TableStays DEF MatrixInv, Consistent
<1>7. Alone' /\ Open'
  BY <1>1, <1>2, <1>3 DEF Alone, Open
<1>8. Reported'
  BY <1>2, <1>3, ReportStays DEF MatrixInv, Consistent
<1>9. Ended'
  BY <1>2, <1>3 DEF Ended
<1>10. QED
  BY <1>4, <1>5, <1>6, <1>7, <1>8, <1>9 DEF Consistent

-----------------------------------------------------------------------------
\* A tick that ends leaves no tick on.
LEMMA TickEnds ==
  ASSUME MatrixInv, NEW k \in Ticks, tick[k].on, tick' = [tick EXCEPT ![k] = Idle], ~exp'.due
  PROVE  Open' /\ Alone'
<1>1. \A j \in Ticks \ {k} : ~tick[j].on
  BY OnlyTick
<1>2. ~Idle.on /\ tick \in [Ticks -> TickRow]
  BY DEF Idle, MatrixInv, Types
<1>3. \A j \in Ticks : ~tick'[j].on
  BY <1>1, <1>2
<1>4. QED
  BY <1>3, NoTick

\* A claim keeps all of it.
LEMMA ClaimKeeps ==
  ASSUME MatrixInv, NEW k \in Ticks, Claim(k)
  PROVE  Consistent' /\ \A d \in Cells : At(CellMove, d)
<1> DEFINE t == tick[k]
<1>1. PICK list \in ClaimLists(t) :
      \E broken \in SUBSET {c \in ToSet(list) : c[2] \in External} :
      \E childless \in SUBSET broken : ClaimAll(k, list, broken, childless)
  BY DEF Claim
<1>2. PICK broken \in SUBSET {c \in ToSet(list) : c[2] \in External} :
      \E childless \in SUBSET broken : ClaimAll(k, list, broken, childless)
  BY <1>1
<1>3. PICK childless \in SUBSET broken : ClaimAll(k, list, broken, childless)
  BY <1>2
<1>4. /\ t.on /\ Opened(t) /\ exp.status \in {"running", "paused"} /\ exp.status \notin ExpTerminal
      /\ exp.status # "deleted" /\ ~exp.due
  BY OnlyTick DEF Claim, Decides
<1>5. \A c \in Cells : At(Goes, c)
  <2>1. ASSUME NEW c \in Cells PROVE At(Flows, c) \/ At(Rests, c) \/ At(Claimed, c)
    <3>1. Types /\ Opened(tick[k])
      BY <1>4 DEF MatrixInv
    <3>2. \/ c \notin ToSet(list) /\ cell'[c] = t.view[c] /\ (At(Flows, c) \/ At(Rests, c))
          \/ At(Claimed, c)
      BY <1>3, <3>1, ClaimMoves
    <3>3. QED
      BY <3>2
  <2>2. QED
    BY <2>1, Zenon DEF At, Goes
<1>6. /\ ExpBecomes(exp.status, exp.configs, exp.retired, exp.revision, exp.due, exp.report)
      /\ tick' = [tick EXCEPT ![k] = Idle] /\ reading' = reading
  <2>1. tick' = [tick EXCEPT ![k] = Idle] /\ reading' = reading
    BY <1>3 DEF ClaimAll
  <2>2. ExpBecomes(exp.status, exp.configs, exp.retired, exp.revision, exp.due, exp.report)
    BY <1>3, TickExp DEF MatrixInv
  <2>3. QED
    BY <2>1, <2>2
<1>7. /\ exp'.status = exp.status /\ exp'.configs = exp.configs /\ exp'.revision = exp.revision
      /\ exp'.due = exp.due /\ exp'.report = exp.report
  BY <1>6 DEF ExpBecomes
<1>8. \A d \in Cells : At(CellMove, d)
  BY <1>5, Zenon DEF At, CellMove
<1>9. RowsKept'
  BY <1>4, <1>8, RowsStay DEF MatrixInv, Consistent
<1>10. Tabled'
  BY <1>5, <1>7, TableStays DEF MatrixInv, Consistent
<1>11. Alone' /\ Open'
  BY <1>4, <1>6, <1>7, TickEnds
<1>12. Reported'
  BY <1>4, <1>6, <1>7, ReportStays DEF MatrixInv, Consistent
<1>13. Ended'
  BY <1>4, <1>7 DEF Ended
<1>14. QED
  BY <1>8, <1>9, <1>10, <1>11, <1>12, <1>13 DEF Consistent

\* A tick that finishes keeps all of it; where it ends the experiment, every cell has settled.
LEMMA FinishKeeps ==
  ASSUME MatrixInv, NEW k \in Ticks, Finish(k)
  PROVE  Consistent' /\ \A d \in Cells : At(CellMove, d)
<1> DEFINE t == tick[k]
           u == Over(t)
<1>1. /\ cell' = Flushed(u, cell) /\ child' = Released(u) /\ tick' = [tick EXCEPT ![k] = Idle]
      /\ ledger' = ledger /\ reading' = reading /\ Decides(k)
  BY FinishParts
<1>2. /\ t.on /\ Opened(t) /\ exp.status \in {"running", "paused"} /\ exp.status \notin ExpTerminal
      /\ exp.status # "deleted" /\ ~exp.due /\ Types
  BY <1>1, OnlyTick DEF Decides, MatrixInv
<1>3. ASSUME NEW c \in Cells
      PROVE  /\ \/ Flows(cell[c], ledger[c], child[c], cell'[c], ledger'[c], child'[c])
                \/ Rests(cell[c], ledger[c], child[c], cell'[c], ledger'[c], child'[c])
                \/ Skipped(cell[c], ledger[c], child[c], cell'[c], ledger'[c], child'[c])
             /\ cell'[c] = u.view[c]
  <2> DEFINE f == Flushed(u, cell)[c]
             new == Released(u)[c]
  <2>1. /\ \/ Flows(cell[c], ledger[c], child[c], f, ledger[c], new)
           \/ Rests(cell[c], ledger[c], child[c], f, ledger[c], new)
           \/ Skipped(cell[c], ledger[c], child[c], f, ledger[c], new)
        /\ f = u.view[c]
    BY <1>2, OverMoves
  <2>2. cell'[c] = f /\ child'[c] = new /\ ledger'[c] = ledger[c]
    BY <1>1
  <2> HIDE DEF f, new, u
  <2>3. QED
    BY <2>1, <2>2
<1>4. \A c \in Cells : At(Goes, c)
  BY <1>3, Zenon DEF At, Goes
<1>5. /\ exp'.configs = exp.configs /\ exp'.revision = exp.revision
      /\ exp'.due = exp.due /\ exp'.report = exp.report
      /\ Ends(t) => exp'.status \in ExpTerminal
      /\ ~Ends(t) => exp'.status = exp.status
  BY <1>2, FinishExp DEF ExpBecomes
<1>6. \A d \in Cells : At(CellMove, d)
  BY <1>4, Zenon DEF At, CellMove
<1>7. RowsKept'
  BY <1>2, <1>6, RowsStay DEF MatrixInv, Consistent
<1>8. Tabled'
  <2>1. exp'.status \notin {"draft", "deleted"}
    BY <1>2, <1>5 DEF ExpTerminal
  <2>2. QED
    BY <1>4, <1>5, <2>1, TableStays DEF MatrixInv, Consistent
<1>9. Alone' /\ Open'
  BY <1>1, <1>2, <1>5, TickEnds
<1>10. Reported'
  BY <1>1, <1>2, <1>5, ReportStays DEF MatrixInv, Consistent
<1>11. Ended'
  <2> SUFFICES ASSUME Ends(t), NEW c \in Cells, c \in Live'
               PROVE  cell'[c].status \in CellSettled
    BY <1>2, <1>5 DEF Ended, Live, LiveOf
  <2>1. cell'[c].status # "absent" /\ ~cell'[c].retired
    BY DEF Live, LiveOf
  <2>2. cell'[c] \in Rows /\ cell[c] \in Rows /\ t.view[c] \in Rows
    <3>1. Typed(cell[c], ledger[c], child[c])
      BY <1>2 DEF Types, Typed
    <3>2. CellMove(cell[c], ledger[c], child[c], cell'[c], ledger'[c], child'[c])
      BY <1>6 DEF At
    <3>3. Typed(cell'[c], ledger'[c], child'[c])
      BY <3>1, <3>2, CellMoveTyped
    <3>4. QED
      BY <1>2, <3>1, <3>3 DEF Typed, Opened, TickRow
  <2>3. c \in t.live
    <3>1. Pictured(t, c, cell[c], child[c])
      BY <1>2 DEF Opened
    <3>2. cell[c].status # "absent" /\ ~cell[c].retired
      <4>1. CASE Flows(cell[c], ledger[c], child[c], cell'[c], ledger'[c], child'[c])
        BY <4>1 DEF Flows, Polled, InFlight
      <4>2. CASE Rests(cell[c], ledger[c], child[c], cell'[c], ledger'[c], child'[c])
        BY <2>1, <4>2 DEF Rests
      <4>3. CASE Skipped(cell[c], ledger[c], child[c], cell'[c], ledger'[c], child'[c])
        BY <4>3 DEF Skipped, InFlight
      <4>4. QED
        BY <1>3, <4>1, <4>2, <4>3
    <3>3. QED
      BY <3>1, <3>2 DEF Pictured
  <2>4. u.live = t.live /\ u.view[c].status \notin {"pending"} /\ u.view[c] = cell'[c]
    <3>1. u.live = t.live
      BY <1>2 DEF Over, Opened, TickRow
    <3>2. InView(u, {"pending"}) = {}
      BY DEF Ends
    <3>3. QED
      BY <1>3, <2>3, <3>1, <3>2 DEF InView
  <2>5. cell'[c].status \notin InFlight
    <3>1. t.view[c].status \notin InFlight
      BY <2>3 DEF Ends, InView
    <3>2. cell'[c] = WithStatus(t.view[c], "skipped") \/ cell'[c] = t.view[c]
      <4>1. u.view = [d \in Cells |-> IF Hit(t) /\ d \in InView(t, {"pending"})
                                     THEN WithStatus(t.view[d], "skipped") ELSE t.view[d]]
        BY <1>2 DEF Over, WithStatus, Opened, TickRow
      <4>2. u.view[c] = WithStatus(t.view[c], "skipped") \/ u.view[c] = t.view[c]
        BY <4>1
      <4>3. QED
        BY <2>4, <4>2
    <3>3. WithStatus(t.view[c], "skipped").status = "skipped"
      <4>1. "skipped" \in RowStatuses /\ "none" \in {"none", "pass", "fail"}
        BY DEF RowStatuses, CellSettled
      <4>2. Becomes(t.view[c], WithStatus(t.view[c], "skipped"), "skipped")
        BY <2>2, <4>1, RowEdited
      <4>3. QED
        BY <4>2 DEF Becomes
    <3>4. QED
      BY <3>1, <3>2, <3>3 DEF InFlight
  <2>6. QED
    BY <2>1, <2>2, <2>4, <2>5 DEF Rows
<1>12. QED
  BY <1>6, <1>7, <1>8, <1>9, <1>10, <1>11 DEF Consistent

-----------------------------------------------------------------------------
\* A tick begins alone, with a picture of the table as it is.
LEMMA BeginKeeps ==
  ASSUME MatrixInv, Undisturbed, NEW k \in Ticks, TickBegin(k)
  PROVE  Consistent' /\ \A d \in Cells : At(CellMove, d)
<1>0. /\ Types /\ Alone /\ Reported /\ Ended /\ RowsKept /\ Tabled
      /\ tick' = [tick EXCEPT ![k] = Picture] /\ UNCHANGED <<cell, ledger, child, reading>>
      /\ MayBegin(k)
  BY Zenon DEF TickBegin, Picture, MatrixInv, Consistent
<1>1. \A j \in Ticks : ~tick[j].on /\ (exp.due => k = "api")
  BY DEF TickBegin, Undisturbed
<1>2. exp.status \in {"running", "paused"}
  BY <1>0, <1>1 DEF MayBegin, Alone
<1>3. exp.status \notin ExpTerminal /\ exp.status \notin {"draft", "deleted"}
  BY <1>2 DEF ExpTerminal
<1>4. /\ exp'.status = exp.status /\ exp'.configs = exp.configs /\ exp'.revision = exp.revision
      /\ exp'.report = exp.report /\ ~exp'.due
  <2>1. exp'.due => exp.due /\ k # "api"
    BY <1>0, TickExp
  <2>2. ExpBecomes(exp.status, exp.configs, exp.retired, exp.revision, exp'.due, exp.report)
    BY <1>0, TickExp
  <2>3. QED
    BY <1>1, <2>1, <2>2 DEF ExpBecomes
<1>5. \A d \in Cells : At(Goes, d)
  BY <1>0 DEF At, Goes, Rests
<1>6. \A d \in Cells : At(CellMove, d)
  BY <1>5, Zenon DEF At, CellMove
<1>7. RowsKept'
  BY <1>0, <1>3, <1>6, RowsStay
<1>8. Tabled'
  BY <1>0, <1>3, <1>4, <1>5, TableStays
<1>9. tick'[k] = Picture /\ Picture.on /\ \A j \in Ticks \ {k} : ~tick'[j].on
  BY <1>0, <1>1 DEF Types, Picture
<1>10. Alone'
  BY <1>2, <1>4, <1>9 DEF Alone
<1>11. Open'
  <2>1. ASSUME NEW c \in Cells PROVE Pictured(Picture, c, cell[c], child[c])
    <3>1. /\ Picture.live = Live /\ Picture.todo = {d \in Live : cell[d].status \in InFlight}
          /\ Picture.dirty = {} /\ Picture.view[c] = cell[c] /\ Picture.ended[c] = Current(c)
      BY DEF Picture
    <3>2. c \in Live <=> (cell[c].status # "absent" /\ ~cell[c].retired)
      BY DEF Live, LiveOf
    <3>3. Current(c) \in ChildTerminal =>
            cell[c].task # 0 /\ child[c][cell[c].task].status \in ChildTerminal
      BY DEF Current, ChildTerminal
    <3>4. QED
      BY <3>1, <3>2, <3>3 DEF Pictured
  <2>2. QED
    BY <1>0, <1>9, <2>1 DEF Open
<1>12. Reported'
  BY <1>0, <1>3, <1>4, ReportStays
<1>13. Ended'
  BY <1>3, <1>4 DEF Ended
<1>14. QED
  BY <1>6, <1>7, <1>8, <1>10, <1>11, <1>12, <1>13 DEF Consistent

\* A tick that is lost leaves the table as it was committed.
LEMMA AbortKeeps ==
  ASSUME MatrixInv, NEW k \in Ticks, TickAborts(k)
  PROVE  Consistent' /\ \A d \in Cells : At(CellMove, d)
<1>0. /\ tick[k].on /\ tick' = [tick EXCEPT ![k] = Idle]
      /\ UNCHANGED <<exp, cell, ledger, child, reading>>
  BY DEF TickAborts
<1>1. exp.status \notin ExpTerminal /\ exp.status # "deleted" /\ ~exp.due
  BY <1>0, OnlyTick
<1>2. \A d \in Cells : At(CellMove, d)
  BY <1>0 DEF At, CellMove, Goes, Rests
<1>3. Alone' /\ Open'
  BY <1>0, <1>1, TickEnds
<1>4. Tabled' /\ RowsKept' /\ Ended'
  BY <1>0 DEF MatrixInv, Consistent, Tabled, RowsKept, Ended, Live, LiveOf
<1>5. Reported'
  BY <1>0, <1>1, ReportStays DEF MatrixInv, Consistent
<1>6. QED
  BY <1>2, <1>3, <1>4, <1>5 DEF Consistent

\* Nothing but a container, or a report under way, has changed.
LEMMA AsideKeeps ==
  ASSUME MatrixInv, UNCHANGED <<exp, cell, ledger, child, tick>>, Reported'
  PROVE  Consistent' /\ \A d \in Cells : At(CellMove, d)
<1>1. \A d \in Cells : At(CellMove, d)
  BY DEF At, CellMove, Goes, Rests
<1>2. Alone' /\ Open' /\ Tabled' /\ RowsKept' /\ Ended'
  BY DEF MatrixInv, Consistent, Alone, Open, Tabled, RowsKept, Ended, Live, LiveOf
<1>3. QED
  BY <1>1, <1>2 DEF Consistent

\* A container that exits or is lost touches no row.
LEMMA ContainerKeeps ==
  ASSUME MatrixInv, NEW c \in Cells, ContainerExits(c) \/ ContainerLost(c)
  PROVE  Consistent' /\ \A d \in Cells : At(CellMove, d)
<1>1. UNCHANGED <<exp, cell, ledger, child, tick, reading>>
  BY DEF ContainerExits, ContainerLost
<1>2. Reported'
  BY <1>1 DEF MatrixInv, Consistent, Reported, Counted, Live, LiveOf
<1>3. QED
  BY <1>1, <1>2, AsideKeeps

\* A report begins with the rows of the present revision.
LEMMA ReportBeginKeeps ==
  ASSUME MatrixInv, ReportBegins
  PROVE  Consistent' /\ \A d \in Cells : At(CellMove, d)
<1>1. /\ UNCHANGED <<exp, cell, ledger, child, tick>> /\ exp.status \in ExpTerminal
      /\ reading' = [on |-> TRUE, revision |-> exp.revision, rows |-> Counted]
  BY DEF ReportBegins
<1>2. reading'.revision = exp.revision /\ reading'.rows = Counted /\ Counted' = Counted
  BY <1>1 DEF Counted, Live, LiveOf
<1>3. exp.revision \in Nat
  BY DEF MatrixInv, Types, ExpRow
<1>4. Reported'
  BY <1>1, <1>2, <1>3 DEF MatrixInv, Consistent, Reported
<1>5. QED
  BY <1>1, <1>4, AsideKeeps

\* What a report writes at its end is what the rows are, unless the revision has moved.
LEMMA ReportEndKeeps ==
  ASSUME MatrixInv, ReportEnds
  PROVE  Consistent' /\ \A d \in Cells : At(CellMove, d)
<1>1. /\ UNCHANGED <<cell, ledger, child, tick>> /\ reading.on
      /\ reading' = [on |-> FALSE, revision |-> 0, rows |-> {}] /\ Counted' = Counted
  BY DEF ReportEnds, Counted, Live, LiveOf
<1>2. /\ ExpBecomes(exp.status, exp.configs, exp.retired, exp.revision, exp.due, exp'.report)
      /\ \/ exp.status = "deleted" /\ exp'.report = exp.report
         \/ \E rows \in {reading.rows, Counted} :
              exp'.report = [revision |-> reading.revision, rows |-> rows]
  BY ReportExp DEF MatrixInv
<1>3. /\ exp'.status = exp.status /\ exp'.configs = exp.configs /\ exp'.revision = exp.revision
      /\ exp'.due = exp.due
  BY <1>2 DEF ExpBecomes
<1>4. exp.revision \in Nat /\ exp.revision > 0 /\ reading'.revision = 0 /\ ~reading'.on
  BY <1>1 DEF MatrixInv, Consistent, Types, ExpRow, Reported
<1>5. Reported'
  <2>1. CASE exp.status = "deleted" /\ exp'.report = exp.report
    BY <1>3, <1>4, <2>1 DEF MatrixInv, Consistent, Reported
  <2>2. ASSUME NEW rows \in {reading.rows, Counted},
               exp'.report = [revision |-> reading.revision, rows |-> rows]
        PROVE  Reported'
    <3>1. exp'.report.revision = reading.revision /\ exp'.report.rows = rows
      BY <2>2
    <3>2. QED
      BY <1>1, <1>3, <1>4, <3>1 DEF MatrixInv, Consistent, Reported
  <2>3. QED
    BY <1>2, <2>1, <2>2
<1>6. \A d \in Cells : At(CellMove, d)
  BY <1>1 DEF At, CellMove, Goes, Rests
<1>7. Alone' /\ Open' /\ Tabled' /\ RowsKept' /\ Ended'
  BY <1>1, <1>3 DEF MatrixInv, Consistent, Alone, Open, Tabled, RowsKept, Ended, Live, LiveOf
<1>8. QED
  BY <1>5, <1>6, <1>7 DEF Consistent

-----------------------------------------------------------------------------
\* What is left to show of a step that moves cells.
LEMMA MovesKeep ==
  ASSUME MatrixInv, exp.status # "deleted", \A c \in Cells : At(CellMove, c),
         Alone', Tabled', Open', Reported', Ended'
  PROVE  Consistent'
<1>1. RowsKept'
  BY RowsStay DEF MatrixInv, Consistent
<1>2. QED
  BY <1>1 DEF Consistent

\* The end of an agent is no news to the picture of a tick: a row that a poll changed
\* has a child that waited, or had ended.
LEMMA ExecutedPictured ==
  ASSUME NEW t, NEW c, NEW r, NEW a, NEW kids, NEW f, NEW b, NEW new,
         Typed(r, a, kids), Pictured(t, c, r, kids), Executed(r, a, kids, f, b, new)
  PROVE  Pictured(t, c, r, new)
<1>1. PICK i \in DOMAIN kids, s \in ChildTerminal, p \in 0..MaxCost : kids[i].status = "ready" /\ new = Done(kids, i, s, p)
  BY DEF Executed
<1>2. kids \in Seq(Child) /\ DOMAIN kids = 1..Len(kids) /\ r.task \in 0..Len(kids) /\ s \in ChildStatuses
  BY LenProperties DEF Typed, ChildStatuses
<1>3. Replaced(kids, new, i, kids[i].tag, s)
  BY <1>1, <1>2, ChildReplaced
<1>4. r.task # 0 /\ r.task # i => new[r.task] = kids[r.task]
  BY <1>2, <1>3 DEF Replaced
<1>5. ASSUME NEW v, Polled(r, v, kids) PROVE Polled(r, v, new)
  <2>1. CASE r.task = 0
    BY <1>5, <2>1 DEF Polled
  <2>2. CASE r.task # 0 /\ r.task # i
    BY <1>4, <1>5, <2>2 DEF Polled
  <2>3. r.task # 0 => r.task # i
    BY <1>1, <1>5 DEF Polled, InFlight, ChildTerminal
  <2>4. QED
    BY <2>1, <2>2, <2>3
<1>6. r.task # 0 /\ kids[r.task].status \in ChildTerminal => new[r.task].status \in ChildTerminal
  BY <1>1, <1>4 DEF ChildTerminal
<1>7. QED
  BY <1>5, <1>6 DEF Pictured

\* An agent that ends leaves the rows as they are.
LEMMA AgentKeeps ==
  ASSUME MatrixInv, NEW d \in Cells, AgentEnds(d)
  PROVE  Consistent' /\ \A c \in Cells : At(CellMove, c)
<1>0. Types /\ Alone /\ Tabled /\ RowsKept /\ Open /\ Reported /\ Ended
      /\ UNCHANGED <<exp, cell, ledger, tick, reading>>
  BY DEF MatrixInv, Consistent, AgentEnds
<1>1. \A c \in Cells : At(Rests, c) \/ At(Executed, c)
  BY <1>0, AgentMoves, Zenon DEF Elsewhere
<1>2. \A c \in Cells : At(CellMove, c)
  BY <1>1, Zenon DEF At, CellMove, Goes
<1>3. \A c \in Cells : Typed(cell[c], ledger[c], child[c])
  BY <1>0 DEF Types, Typed
<1>4. RowsKept'
  <2>1. CASE exp.status # "deleted"
    BY <1>0, <1>2, <2>1, RowsStay
  <2>2. ASSUME NEW c \in Cells, NEW j \in DOMAIN child'[c], child'[c][j].status \in Working
        PROVE  j = Len(child'[c])
    <3>1. CASE At(Rests, c)
      BY <1>0, <2>2, <3>1 DEF At, Rests, RowsKept
    <3>2. CASE At(Executed, c)
      <4> DEFINE kids == child[c]
                 new == child'[c]
      <4>1. PICK i \in DOMAIN kids, s \in ChildTerminal, p \in 0..MaxCost : kids[i].status = "ready" /\ new = Done(kids, i, s, p)
        BY <3>2 DEF At, Executed
      <4>2. kids \in Seq(Child) /\ DOMAIN kids = 1..Len(kids) /\ s \in ChildStatuses
        BY <1>3, LenProperties DEF Typed, ChildStatuses
      <4>3. Replaced(kids, new, i, kids[i].tag, s)
        BY <4>1, <4>2, ChildReplaced
      <4>4. s \notin Working
        BY DEF Working, ChildTerminal
      <4>5. \A l \in DOMAIN kids : kids[l].status \in Working => l = Len(kids)
        BY <1>0 DEF RowsKept
      <4> HIDE DEF kids, new
      <4>6. j \in DOMAIN new /\ new[j].status \in Working
        BY <2>2 DEF new
      <4>7. j = Len(new)
        BY <4>3, <4>4, <4>5, <4>6 DEF Replaced
      <4>8. QED
        BY <4>7 DEF new
    <3>3. QED
      BY <1>1, <3>1, <3>2
  <2>3. CASE exp.status = "deleted"
    BY <1>0, <2>2, <2>3 DEF RowsKept
  <2>4. QED
    BY <2>1, <2>3
<1>5. Open'
  <2>1. ASSUME NEW k \in Ticks, tick[k].on, NEW c \in Cells
        PROVE  Pictured(tick[k], c, cell[c], child'[c])
    <3>1. Pictured(tick[k], c, cell[c], child[c]) /\ Typed(cell[c], ledger[c], child[c])
      BY <1>0, <1>3, <2>1 DEF Open
    <3>2. CASE At(Executed, c)
      <4>1. Executed(cell[c], ledger[c], child[c], cell'[c], ledger'[c], child'[c])
        BY <3>2 DEF At
      <4>2. QED
        BY <3>1, <4>1, ExecutedPictured
    <3>3. CASE At(Rests, c)
      BY <3>1, <3>3 DEF At, Rests
    <3>4. QED
      BY <1>1, <3>2, <3>3
  <2>2. QED
    BY <1>0, <2>1 DEF Open
<1>6. Alone' /\ Tabled' /\ Ended'
  BY <1>0 DEF Alone, Tabled, Ended, Live, LiveOf
<1>7. Reported'
  BY <1>0 DEF Reported, Counted, Live, LiveOf
<1>8. QED
  BY <1>2, <1>4, <1>5, <1>6, <1>7 DEF Consistent

\* Pausing and resuming touch no row, and a tick goes on through both.
LEMMA PauseKeeps ==
  ASSUME MatrixInv, Pause \/ Resume
  PROVE  Consistent' /\ \A c \in Cells : At(CellMove, c)
<1>0. Types /\ Alone /\ Tabled /\ RowsKept /\ Open /\ Reported /\ Ended
      /\ UNCHANGED <<cell, ledger, child, tick, reading>> /\ exp.status \in {"running", "paused"}
  BY DEF MatrixInv, Consistent, Pause, Resume, Asks
<1>1. /\ exp'.status \in {"running", "paused"} /\ exp'.configs = exp.configs
      /\ exp'.revision = exp.revision /\ exp'.due = exp.due /\ exp'.report = exp.report
  BY <1>0, RequestExp DEF ExpBecomes
<1>2. exp.status \notin ExpTerminal /\ exp'.status \notin ExpTerminal /\ exp.status # "deleted"
      /\ exp'.status \notin {"draft", "deleted"}
  BY <1>0, <1>1 DEF ExpTerminal
<1>3. \A c \in Cells : At(Goes, c)
  BY <1>0 DEF At, Goes, Rests
<1>4. \A c \in Cells : At(CellMove, c)
  BY <1>3, Zenon DEF At, CellMove
<1>5. Alone' /\ Open' /\ Ended'
  BY <1>0, <1>1, <1>2 DEF Alone, Open, Ended
<1>6. Tabled'
  BY <1>0, <1>1, <1>2, <1>3, TableStays
<1>7. Reported'
  BY <1>0, <1>1, <1>2, ReportStays
<1>8. QED
  BY <1>4, <1>5, <1>6, <1>7, <1>2, MovesKeep

\* The starting request makes the rows of a draft: there were none.
LEMMA StartKeeps ==
  ASSUME MatrixInv, Start
  PROVE  Consistent' /\ \A c \in Cells : At(CellMove, c)
<1>0. Types /\ Alone /\ Tabled /\ RowsKept /\ Open /\ Reported /\ Ended
      /\ UNCHANGED <<tick, reading>> /\ exp.status = "draft"
  BY DEF MatrixInv, Consistent, Start
<1>1. /\ exp'.status = "running" /\ exp'.configs = exp.configs
      /\ exp'.revision = exp.revision /\ exp'.report = exp.report
  BY <1>0, RequestExp DEF ExpBecomes
<1>2. exp.status \notin ExpTerminal /\ exp'.status \notin ExpTerminal /\ exp.status # "deleted"
  BY <1>0, <1>1 DEF ExpTerminal
<1>3. \A k \in Ticks : ~tick[k].on
  BY <1>0 DEF Alone
<1>4. \A c \in Cells : At(Rests, c) \/ (c[1] \in exp.configs /\ At(Begun, c))
  BY <1>0, StartMoves
<1>5. \A c \in Cells : cell[c] = NoRow /\ ledger[c] = {}
  BY <1>0 DEF Tabled
<1>6. \A c \in Cells : At(CellMove, c)
  BY <1>4, <1>5, Zenon DEF At, CellMove, Goes
<1>7. Alone' /\ Open' /\ Ended'
  BY <1>0, <1>1, <1>2, <1>3 DEF Alone, Open, Ended
<1>8. Tabled'
  BY <1>0, <1>1, <1>4, <1>5 DEF Tabled, At, Rests
<1>9. Reported'
  BY <1>0, <1>1, <1>2, ReportStays
<1>10. QED
  BY <1>6, <1>7, <1>8, <1>9, <1>2, MovesKeep

\* Cancelling skips what is open, so that nothing is left to advance.
LEMMA CancelKeeps ==
  ASSUME MatrixInv, Undisturbed, Cancel
  PROVE  Consistent' /\ \A c \in Cells : At(CellMove, c)
<1>0. Types /\ Alone /\ Tabled /\ RowsKept /\ Open /\ Reported /\ Ended
      /\ exp.status \notin ExpTerminal
  BY DEF MatrixInv, Consistent, Cancel
<1>1. (\A k \in Ticks : ~tick[k].on) /\ ~exp.due /\ tick' = tick /\ reading' = reading
         /\ exp.status # "deleted"
  <2>1. Asks("cancel") /\ "cancel" \notin {"pause", "resume"}
    BY DEF Cancel
  <2>2. QED
    BY <2>1, AsksAlone
<1>2. /\ exp'.status = "cancelled" /\ exp'.configs = exp.configs
      /\ exp'.revision = exp.revision /\ exp'.due = exp.due /\ exp'.report = exp.report
  BY <1>0, RequestExp DEF ExpBecomes
<1>3. \A c \in Cells :
        IF c \in Live /\ cell[c].status \notin CellSettled THEN At(Skipped, c) ELSE At(Rests, c)
  BY <1>0, CancelMoves
<1>4. \A c \in Cells : At(Goes, c)
  BY <1>3, Zenon DEF At, Goes
<1>5. \A c \in Cells : At(CellMove, c)
  BY <1>4, Zenon DEF At, CellMove
<1>6. Alone' /\ Open'
  BY <1>1, <1>2, NoTick
<1>7. Tabled'
  BY <1>0, <1>2, <1>4, TableStays
<1>8. Reported'
  BY <1>0, <1>1, <1>2, ReportStays
<1>9. Ended'
  <2>1. ASSUME NEW c \in Cells, c \in Live' PROVE cell'[c].status \in CellSettled
    <3>1. CASE c \in Live /\ cell[c].status \notin CellSettled
      <4>0. At(Skipped, c)
        BY <1>3, <3>1
      <4>1. "skipped" \in RowStatuses /\ "none" \in {"none", "pass", "fail"}
        BY DEF RowStatuses, CellSettled
      <4>2. cell[c] \in Rows
        BY <1>0 DEF Types
      <4>3. Becomes(cell[c], WithStatus(cell[c], "skipped"), "skipped")
        BY <4>1, <4>2, RowEdited
      <4>4. QED
        BY <4>0, <4>3 DEF At, Skipped, Becomes, CellSettled
    <3>2. CASE ~(c \in Live /\ cell[c].status \notin CellSettled)
      <4>1. At(Rests, c)
        BY <1>3, <3>2
      <4>2. c \in Live /\ cell'[c] = cell[c]
        BY <2>1, <4>1 DEF At, Rests, Live, LiveOf
      <4>3. QED
        BY <3>2, <4>2
    <3>3. QED
      BY <3>1, <3>2
  <2>2. \A c \in Live' : c \in Cells
    BY DEF Live, LiveOf
  <2>3. QED
    BY <2>1, <2>2 DEF Ended
<1>10. QED
  BY <1>5, <1>6, <1>7, <1>8, <1>9, <1>1, MovesKeep

\* Failed cells start over, and the experiment runs again.
LEMMA RetryKeeps ==
  ASSUME MatrixInv, Undisturbed, RetryFailed
  PROVE  Consistent' /\ \A c \in Cells : At(CellMove, c)
<1>0. Types /\ Alone /\ Tabled /\ RowsKept /\ Open /\ Reported /\ Ended
  BY DEF MatrixInv, Consistent
<1>1. (\A k \in Ticks : ~tick[k].on) /\ ~exp.due /\ tick' = tick /\ reading' = reading
         /\ exp.status # "deleted"
  <2>1. Asks("retry") /\ "retry" \notin {"pause", "resume"}
    BY DEF RetryFailed
  <2>2. QED
    BY <2>1, AsksAlone
<1>2. /\ exp'.status = "running" /\ exp'.configs = exp.configs
      /\ exp'.revision = exp.revision + 1 /\ exp'.due = exp.due /\ exp'.report = Unwritten
  BY <1>0, RequestExp DEF ExpBecomes
<1>3. exp'.status \notin ExpTerminal
  BY <1>2 DEF ExpTerminal
<1>4. \A c \in Cells : At(Goes, c)
  <2>1. \A c \in Cells : IF c \in Live /\ cell[c].status = "failed" THEN At(Retried, c) ELSE At(Rests, c)
    BY <1>0, RetryMoves
  <2>2. QED
    BY <2>1, Zenon DEF At, Goes
<1>5. \A c \in Cells : At(CellMove, c)
  BY <1>4, Zenon DEF At, CellMove
<1>6. Alone' /\ Open'
  BY <1>1, <1>2, NoTick
<1>7. Tabled'
  BY <1>0, <1>2, <1>4, TableStays
<1>8. Reported'
  BY <1>0, <1>1, <1>2, ReportDropped
<1>9. Ended'
  BY <1>3 DEF Ended
<1>10. QED
  BY <1>5, <1>6, <1>7, <1>8, <1>9, <1>1, MovesKeep

\* A new configuration has the next number, and its rows were not there.
LEMMA AddKeeps ==
  ASSUME MatrixInv, Undisturbed, AddConfig
  PROVE  Consistent' /\ \A c \in Cells : At(CellMove, c)
<1> DEFINE n == Cardinality(exp.configs)
           g == n + 1
<1>0. Types /\ Alone /\ Tabled /\ RowsKept /\ Open /\ Reported /\ Ended
      /\ exp.status # "draft"
  BY DEF MatrixInv, Consistent, AddConfig
<1>1. (\A k \in Ticks : ~tick[k].on) /\ ~exp.due /\ tick' = tick /\ reading' = reading
         /\ exp.status # "deleted"
  <2>1. Asks("add") /\ "add" \notin {"pause", "resume"}
    BY DEF AddConfig
  <2>2. QED
    BY <2>1, AsksAlone
<1>2. /\ exp'.configs = exp.configs \cup {g} /\ exp'.revision = exp.revision + 1
      /\ exp'.due = exp.due /\ exp'.report = Unwritten
      /\ exp'.status = IF exp.status \in ExpTerminal THEN "running" ELSE exp.status
  BY <1>0, AddExp DEF ExpBecomes
<1>3. exp'.status \notin ExpTerminal
  BY <1>2 DEF ExpTerminal
<1>4. exp.configs = 1..n /\ n \in Nat
  <2>1. exp.configs = 1..n /\ exp.configs \subseteq Configs /\ MaxConfigs \in Nat
    BY <1>0, ExperimentsAssumption DEF Tabled, Types, ExpRow, ExperimentsAssumption
  <2>2. IsFiniteSet(exp.configs)
    <3>1. IsFiniteSet(Configs)
      BY <2>1, FS_Interval DEF Configs
    <3>2. QED
      BY <2>1, <3>1, FS_Subset
  <2>3. QED
    BY <2>1, <2>2, FS_CardinalityType
<1>5. exp'.configs = 1..g /\ Cardinality(exp'.configs) = g /\ g \notin exp.configs
  <2> HIDE DEF n
  <2>1. 1..g = (1..n) \cup {g} /\ g \in Nat /\ g \notin 1..n
    BY <1>4
  <2>2. exp'.configs = 1..g
    BY <1>2, <1>4, <2>1
  <2>3. Cardinality(1..g) = g
    BY <2>1, FS_Interval
  <2>4. QED
    BY <1>4, <2>1, <2>2, <2>3
<1>6. \A c \in Cells : At(Rests, c) \/ (c[1] = g /\ At(Begun, c))
  BY <1>0, AddMoves
<1>7. \A c \in Cells : At(CellMove, c)
  <2>1. \A c \in Cells : c[1] = g => cell[c] = NoRow /\ ledger[c] = {}
    BY <1>0, <1>5 DEF Tabled
  <2>2. QED
    BY <1>6, <2>1, Zenon DEF At, CellMove, Goes
<1>8. Alone' /\ Open'
  BY <1>1, <1>2, NoTick
<1>9. Tabled'
  <2>1. exp'.status \notin {"draft", "deleted"}
    BY <1>0, <1>1, <1>2
  <2>2. ASSUME NEW c \in Cells, c[1] \notin exp'.configs
        PROVE  cell'[c] = NoRow /\ ledger'[c] = {}
    <3>1. c[1] # g /\ c[1] \notin exp.configs
      BY <1>2, <2>2
    <3>2. QED
      BY <1>0, <1>6, <3>1 DEF Tabled, At, Rests
  <2>3. QED
    BY <1>5, <2>1, <2>2 DEF Tabled
<1>10. Reported'
  BY <1>0, <1>1, <1>2, ReportDropped
<1>11. Ended'
  BY <1>3 DEF Ended
<1>12. QED
  BY <1>1, <1>7, <1>8, <1>9, <1>10, <1>11, MovesKeep

\* Retiring a configuration leaves no row of it in flight.
LEMMA RetireKeeps ==
  ASSUME MatrixInv, Undisturbed, NEW g \in Configs, RetireConfig(g)
  PROVE  Consistent' /\ \A c \in Cells : At(CellMove, c)
<1>0. Types /\ Alone /\ Tabled /\ RowsKept /\ Open /\ Reported /\ Ended
  BY DEF MatrixInv, Consistent
<1>1. (\A k \in Ticks : ~tick[k].on) /\ ~exp.due /\ tick' = tick /\ reading' = reading
         /\ exp.status # "deleted"
  <2>1. Asks("retire") /\ "retire" \notin {"pause", "resume"}
    BY DEF RetireConfig
  <2>2. QED
    BY <2>1, AsksAlone
<1>2. /\ exp'.configs = exp.configs
      /\ exp'.revision = exp.revision + 1 /\ exp'.due = exp.due /\ exp'.report = Unwritten
      /\ \/ exp'.status = exp.status
         \/ exp.status \in ExpTerminal /\ exp'.status \in ExpTerminal
  <2>1. Types
    BY <1>0
  <2>2. /\ ExpBecomes(exp'.status, exp.configs, exp.retired \cup {g}, exp.revision + 1, exp.due, Unwritten)
        /\ \/ exp'.status = exp.status
           \/ exp.status \in ExpTerminal /\ exp'.status \in ExpTerminal
    BY <2>1, RetireExp
  <2>3. QED
    BY <2>2 DEF ExpBecomes
<1>3. \A c \in Cells :
        IF c[1] = g /\ cell[c].status # "absent" THEN At(Retired, c) ELSE At(Rests, c)
  BY <1>0, RetireMoves
<1>4. \A c \in Cells : At(Goes, c)
  BY <1>3, Zenon DEF At, Goes
<1>5. \A c \in Cells : At(CellMove, c)
  BY <1>4, Zenon DEF At, CellMove
<1>6. Alone' /\ Open'
  BY <1>1, <1>2, NoTick
<1>7. Tabled'
  <2>1. exp'.status \in {"draft", "deleted"} => exp.status \in {"draft", "deleted"}
    BY <1>2 DEF ExpTerminal
  <2>2. QED
    BY <1>0, <1>2, <1>4, <2>1, TableStays
<1>8. Reported'
  BY <1>0, <1>1, <1>2, ReportDropped
<1>9. Ended'
  <2>1. ASSUME exp'.status \in ExpTerminal, NEW c \in Cells, c \in Live'
        PROVE  cell'[c].status \in CellSettled
    <3>1. exp.status \in ExpTerminal
      BY <1>2, <2>1
    <3>2. CASE c[1] = g /\ cell[c].status # "absent"
      <4>1. At(Retired, c) /\ cell[c] \in Rows
        BY <1>0, <1>3, <3>2 DEF Types
      <4>2. PICK s \in RowStatuses : cell'[c] = OutOfUse(cell[c], s)
        BY <4>1 DEF At, Retired, Rows, RowStatuses, CellSettled
      <4>3. cell'[c].retired
        BY <4>1, <4>2, RowsMade
      <4>4. QED
        BY <2>1, <4>3 DEF Live, LiveOf
    <3>3. CASE ~(c[1] = g /\ cell[c].status # "absent")
      <4>1. At(Rests, c)
        BY <1>3, <3>3
      <4>2. c \in Live /\ cell'[c] = cell[c]
        BY <2>1, <4>1 DEF At, Rests, Live, LiveOf
      <4>3. QED
        BY <1>0, <3>1, <4>2 DEF Ended
    <3>4. QED
      BY <3>2, <3>3
  <2>2. \A c \in Live' : c \in Cells
    BY DEF Live, LiveOf
  <2>3. QED
    BY <2>1, <2>2 DEF Ended
<1>10. QED
  BY <1>5, <1>6, <1>7, <1>8, <1>9, <1>1, MovesKeep

\* Deleting the experiment takes its rows and its ledger; what is left are children.
LEMMA DeleteKeeps ==
  ASSUME MatrixInv, Undisturbed, DeleteExperiment
  PROVE  Consistent' /\ \A c \in Cells : At(Removed, c)
<1>0. Types /\ Alone /\ Tabled /\ RowsKept /\ Open /\ Reported /\ Ended
  BY DEF MatrixInv, Consistent
<1>1. (\A k \in Ticks : ~tick[k].on) /\ ~exp.due /\ tick' = tick /\ reading' = reading
         /\ exp.status # "deleted"
  <2>1. Asks("delete") /\ "delete" \notin {"pause", "resume"}
    BY DEF DeleteExperiment
  <2>2. QED
    BY <2>1, AsksAlone
<1>2. /\ exp'.status = "deleted" /\ exp'.configs = exp.configs
      /\ exp'.revision = exp.revision /\ exp'.due = exp.due /\ exp'.report = exp.report
  BY <1>0, RequestExp DEF ExpBecomes
<1>3. \A c \in Cells : At(Removed, c)
  BY <1>0, DeleteMoves
<1>4. Alone' /\ Open'
  BY <1>1, <1>2, NoTick
<1>5. Tabled'
  BY <1>0, <1>2, <1>3 DEF Tabled, At, Removed
<1>6. RowsKept'
  BY <1>0, <1>2, <1>3 DEF RowsKept, At, Removed
<1>7. Reported'
  BY <1>0, <1>1, <1>2, ReportStays
<1>8. Ended'
  BY <1>2 DEF Ended, ExpTerminal
<1>9. QED
  BY <1>3, <1>4, <1>5, <1>6, <1>7, <1>8 DEF Consistent

\* A child that waited is deleted, and its row points to none.
LEMMA DeleteChildKeeps ==
  ASSUME MatrixInv, Undisturbed, NEW d \in Cells, DeleteChild(d)
  PROVE  Consistent' /\ \A c \in Cells : At(CellMove, c)
<1>0. Types /\ Alone /\ Tabled /\ RowsKept /\ Open /\ Reported /\ Ended /\ UNCHANGED exp
  BY DEF MatrixInv, Consistent, DeleteChild
<1>1. (\A k \in Ticks : ~tick[k].on) /\ ~exp.due /\ tick' = tick /\ reading' = reading
         /\ exp.status # "deleted"
  <2>1. Asks("delete_child") /\ "delete_child" \notin {"pause", "resume"}
    BY DEF DeleteChild
  <2>2. QED
    BY <2>1, AsksAlone
<1>2. \A c \in Cells : At(Rests, c) \/ At(Unlinked, c)
  BY <1>0, DeleteChildMoves, Zenon DEF Elsewhere
<1>3. \A c \in Cells : At(Goes, c)
  BY <1>2, Zenon DEF At, Goes
<1>4. \A c \in Cells : At(CellMove, c)
  BY <1>3, Zenon DEF At, CellMove
<1>5. \A c \in Cells : /\ cell'[c].status = cell[c].status /\ cell'[c].verdict = cell[c].verdict
                       /\ cell'[c].retired = cell[c].retired
  <2>1. ASSUME NEW c \in Cells, At(Unlinked, c)
        PROVE  /\ cell'[c].status = cell[c].status /\ cell'[c].verdict = cell[c].verdict
               /\ cell'[c].retired = cell[c].retired
    BY <1>0, <2>1, RowsMade DEF At, Unlinked, Types
  <2>2. QED
    BY <1>2, <2>1 DEF At, Rests
<1>6. Counted' = Counted
  BY <1>5, CountedStays
<1>7. Alone' /\ Open'
  BY <1>0, <1>1, NoTick
<1>8. Tabled'
  BY <1>0, <1>3, TableStays
<1>9. Reported'
  BY <1>0, <1>1, <1>6, ReportStays
<1>10. Ended'
  BY <1>0, <1>5 DEF Ended, Live, LiveOf
<1>11. QED
  BY <1>1, <1>4, <1>7, <1>8, <1>9, <1>10, MovesKeep

-----------------------------------------------------------------------------
\* The table is empty at the start.
LEMMA MatrixInit == Init => MatrixInv
<1> SUFFICES ASSUME Init PROVE MatrixInv
  OBVIOUS
<1>1. Types
  BY TypesInit
<1>2. PICK s \in Setups :
       exp = [setup |-> s, status |-> "draft", configs |-> 1..s.initial, retired |-> {},
              revision |-> 1, spent |-> 0, due |-> FALSE,
              report |-> [revision |-> 0, rows |-> {}]]
  BY DEF Init
<1>3. /\ exp.status = "draft" /\ exp.configs = 1..s.initial /\ exp.revision = 1 /\ ~exp.due
      /\ exp.report.revision = 0 /\ s.initial \in Nat
  BY <1>2, ExperimentsAssumption DEF ExperimentsAssumption, Setup
<1>4. cell = [c \in Cells |-> NoRow] /\ ledger = [c \in Cells |-> {}] /\ child = [c \in Cells |-> <<>>]
      /\ tick = [k \in Ticks |-> Idle] /\ reading = [on |-> FALSE, revision |-> 0, rows |-> {}]
  BY DEF Init
<1>5. \A k \in Ticks : ~tick[k].on
  BY <1>4 DEF Idle
<1>6. Alone /\ Open /\ Ended
  BY <1>3, <1>5 DEF Alone, Open, Ended, ExpTerminal
<1>7. Tabled
  <2>1. Cardinality(1..s.initial) = s.initial
    BY <1>3, FS_Interval
  <2>2. QED
    BY <1>3, <1>4, <2>1 DEF Tabled
<1>8. RowsKept
  <2>1. DOMAIN <<>> = {}
    BY EmptySeq, LenProperties
  <2>2. Kept(NoRow, {}, <<>>)
    BY <2>1, RowsMade DEF Kept, InFlight
  <2>3. QED
    BY <1>4, <2>1, <2>2 DEF RowsKept
<1>9. Reported
  BY <1>3, <1>4 DEF Reported
<1>10. QED
  BY <1>1, <1>6, <1>7, <1>8, <1>9 DEF MatrixInv, Consistent

\* Every step keeps the invariant, and each cell goes one way, unless all rows are deleted.
LEMMA MatrixStep ==
  ASSUME Undisturbed, MatrixInv, [Next]_expVars
  PROVE  /\ MatrixInv'
         /\ (\A c \in Cells : At(CellMove, c)) \/ (\A c \in Cells : At(Removed, c))
<1> DEFINE Kind == (\A c \in Cells : At(CellMove, c)) \/ (\A c \in Cells : At(Removed, c))
<1>1. Types'
  BY TypesStep DEF MatrixInv
<1>2. ASSUME UNCHANGED expVars
      PROVE  Consistent' /\ Kind
  <2>1. UNCHANGED <<exp, cell, ledger, child, tick, reading>>
    BY <1>2 DEF expVars
  <2>2. Reported'
    BY <2>1 DEF MatrixInv, Consistent, Reported, Counted, Live, LiveOf
  <2>3. QED
    BY <2>1, <2>2, AsideKeeps
<1>3. ASSUME NEW k \in Ticks, TickStep(k) \/ TickAborts(k)
      PROVE  Consistent' /\ Kind
  <2>1. CASE TickBegin(k)
    BY <2>1, BeginKeeps
  <2>2. CASE TickAborts(k)
    BY <2>2, AbortKeeps
  <2>3. CASE Claim(k)
    BY <2>3, ClaimKeeps
  <2>4. CASE Finish(k)
    BY <2>4, FinishKeeps
  <2>5. ASSUME NEW c \in Cells,
               PollPreprocessing(k, c) \/ PollRunning(k, c) \/ PollEvaluating(k, c)
        PROVE  Consistent' /\ Kind
    <3>1. Polls(k, c)
      BY <2>5, PreprocessingPolls, RunningPolls, EvaluatingPolls DEF MatrixInv
    <3>2. QED
      BY <3>1, PollKeeps
  <2>6. QED
    BY <1>3, <2>1, <2>2, <2>3, <2>4, <2>5 DEF TickStep
<1>4. ASSUME NEW c \in Cells, AgentEnds(c) \/ ContainerExits(c) \/ ContainerLost(c)
      PROVE  Consistent' /\ Kind
  BY <1>4, AgentKeeps, ContainerKeeps
<1>5. ASSUME ReportBegins \/ ReportEnds
      PROVE  Consistent' /\ Kind
  BY <1>5, ReportBeginKeeps, ReportEndKeeps
<1>6. ASSUME Start \/ Pause \/ Resume \/ Cancel \/ RetryFailed \/ AddConfig
      PROVE  Consistent' /\ Kind
  BY <1>6, StartKeeps, PauseKeeps, CancelKeeps, RetryKeeps, AddKeeps
<1>7. ASSUME DeleteExperiment
      PROVE  Consistent' /\ Kind
  BY <1>7, DeleteKeeps
<1>8. ASSUME NEW g \in Configs, RetireConfig(g)
      PROVE  Consistent' /\ Kind
  BY <1>8, RetireKeeps
<1>9. ASSUME NEW c \in Cells, DeleteChild(c)
      PROVE  Consistent' /\ Kind
  BY <1>9, DeleteChildKeeps
<1>10. Consistent' /\ Kind
  <2> HIDE DEF Kind
  <2>1. CASE UNCHANGED expVars
    BY <1>2, <2>1
  <2>2. CASE Next
    BY <1>3, <1>4, <1>5, <1>6, <1>7, <1>8, <1>9, <2>2, Zenon DEF Next
  <2>3. QED
    BY <2>1, <2>2
<1>11. QED
  BY <1>1, <1>10 DEF MatrixInv

\* The invariant of the matrix runner where nothing but pausing and resuming gets between
\* two steps of a tick.
LEMMA MatrixInvariant ==
  ASSUME Undisturbed
  PROVE  Spec => []MatrixInv
<1>1. Init => MatrixInv
  BY MatrixInit
<1>2. MatrixInv /\ [Next]_expVars => MatrixInv'
  BY MatrixStep
<1>3. QED
  BY <1>1, <1>2, PTL DEF Spec

-----------------------------------------------------------------------------
\* What the rows of a deleted experiment were is gone.
LEMMA DeletedRows ==
  ASSUME MatrixInv, exp.status = "deleted", NEW c \in Cells
  PROVE  cell[c] = NoRow /\ ledger[c] = {}
BY DEF MatrixInv, Consistent, Tabled

\* The first number of a ledger that reaches back to the first execution.
LEMMA FirstIsOne ==
  ASSUME NEW n \in Nat, NEW a, a \subseteq 1..n, 1..(n - 1) \subseteq a, n > 0
  PROVE  (IF a = {} THEN n ELSE Min(a)) = 1
<1>1. CASE a = {}
  <2>1. n = 1
    BY <1>1
  <2>2. QED
    BY <1>1, <2>1
<1>2. CASE a # {}
  <2>1. 1 \in a
    <3>1. CASE n = 1
      <4>1. PICK x \in a : x \in 1..n
        BY <1>2
      <4>2. QED
        BY <3>1, <4>1
    <3>2. CASE n > 1
      BY <3>2
    <3>3. QED
      BY <3>1, <3>2
  <2>2. \A m \in a : m \in Nat /\ 1 <= m
    OBVIOUS
  <2>3. Min(a) = CHOOSE x \in a : \A y \in a : x <= y
    BY DEF Min
  <2>4. \A x \in a : (\A y \in a : x <= y) => x = 1
    BY <2>1, <2>2
  <2>5. \E x \in a : \A y \in a : x <= y
    BY <2>1, <2>2
  <2>6. Min(a) = 1
    BY <2>3, <2>4, <2>5
  <2>7. QED
    BY <1>2, <2>6
<1>3. QED
  BY <1>1, <1>2

\* The executions counted from the ledger and by the row make up all of them, each once.
LEMMA CountedOnce ==
  ASSUME Types, NEW c \in Cells, Kept(cell[c], ledger[c], child[c]), cell[c].attempts > 0
  PROVE  LET shown == IF HoldsExecution(c) THEN {cell[c].attempts} ELSE {} IN
         /\ Superseded(c) \cup shown = 1..cell[c].attempts /\ Superseded(c) \cap shown = {}
<1> DEFINE n == cell[c].attempts
           a == ledger[c]
           h == HoldsExecution(c)
           s == Superseded(c)
<1>1. n \in Nat /\ n > 0 /\ a \subseteq 1..n /\ 1..(n - 1) \subseteq a
  BY DEF Types, Rows, Kept
<1>2. s = {i \in a : i < n \/ ~h}
  BY DEF Superseded
<1>3. CASE h
  <2>0. s = {i \in a : i < n}
    BY <1>2, <1>3
  <2> HIDE DEF n, a, h, s
  <2>1. \A i : i \in s <=> i \in 1..(n - 1)
    <3>1. \A i \in s : i \in a /\ i < n /\ i \in 1..n
      BY <1>1, <2>0
    <3>2. \A i \in 1..(n - 1) : i \in a /\ i < n
      BY <1>1
    <3>3. \A i \in 1..(n - 1) : i \in s
      BY <2>0, <3>2
    <3>4. \A i \in 1..n : i < n => i \in 1..(n - 1)
      BY <1>1
    <3>5. QED
      BY <3>1, <3>3, <3>4
  <2>2. s = 1..(n - 1)
    BY <2>1
  <2>3. s \cup {n} = 1..n /\ s \cap {n} = {}
    BY <1>1, <2>2
  <2>4. QED
    BY <1>3, <2>3 DEF n, s, h
<1>4. CASE ~h
  <2>1. cell[c].status = "pending"
    BY <1>4 DEF HoldsExecution
  <2>2. a = 1..n
    BY <2>1 DEF Kept
  <2> HIDE DEF n, a, h, s
  <2>3. s = 1..n
    BY <1>2, <1>4, <2>2
  <2>4. QED
    BY <1>4, <2>3 DEF n, s, h
<1>5. QED
  BY <1>3, <1>4

\* No execution is lost: what a cell went through before its present execution is in the
\* attempt ledger (retry_failed_experiment, remove_config_from_experiment), and select_runs
\* counts each execution once, by its row or from the ledger.
THEOREM ExecutionsArchived ==
  ASSUME Undisturbed
  PROVE  Spec => []LedgerComplete
<1>1. MatrixInv => LedgerComplete
  <2> SUFFICES ASSUME MatrixInv, NEW c \in Cells
               PROVE /\ ledger[c] \subseteq 1..cell[c].attempts
                     /\ 1..(cell[c].attempts - 1) \subseteq ledger[c]
                     /\ cell[c].status = "pending" \/ cell[c].retired => ledger[c] = 1..cell[c].attempts
                     /\ cell[c].attempts > 0 =>
                         LET shown == IF HoldsExecution(c) THEN {cell[c].attempts} ELSE {} IN
                         /\ Superseded(c) \cup shown = 1..cell[c].attempts /\ Superseded(c) \cap shown = {}
                         /\ FirstAttempt(c) = 1
                         /\ ~cell[c].retired /\ cell[c].attempts \in ledger[c] =>
                              cell[c].task = 0 /\ cell[c].status \in {"pending", "skipped"}
    BY Zenon DEF LedgerComplete
  <2>1. CASE exp.status = "deleted"
    <3>1. cell[c] = NoRow /\ ledger[c] = {}
      BY <2>1, DeletedRows
    <3>2. NoRow.status = "absent" /\ ~NoRow.retired /\ NoRow.attempts = 0
      BY RowsMade
    <3>3. QED
      BY <3>1, <3>2
  <2>2. CASE exp.status # "deleted"
    <3>1. Types /\ Kept(cell[c], ledger[c], child[c])
      BY <2>2 DEF MatrixInv, Consistent, RowsKept
    <3>2. cell[c].attempts \in Nat
      BY <3>1 DEF Types, Rows
    <3>3. /\ ledger[c] \subseteq 1..cell[c].attempts
          /\ 1..(cell[c].attempts - 1) \subseteq ledger[c]
          /\ cell[c].status = "pending" \/ cell[c].retired => ledger[c] = 1..cell[c].attempts
          /\ ~cell[c].retired /\ cell[c].attempts \in ledger[c] =>
               cell[c].task = 0 /\ cell[c].status \in {"pending", "skipped"}
      BY <3>1, Zenon DEF Kept
    <3>4. ASSUME cell[c].attempts > 0
          PROVE  FirstAttempt(c) = 1
      <4> DEFINE n == cell[c].attempts
                 a == ledger[c]
      <4>1. n \in Nat /\ a \subseteq 1..n /\ 1..(n - 1) \subseteq a /\ n > 0
        BY <3>2, <3>3, <3>4
      <4>2. FirstAttempt(c) = IF a = {} THEN n ELSE Min(a)
        BY DEF FirstAttempt
      <4> HIDE DEF n, a
      <4>3. QED
        BY <4>1, <4>2, FirstIsOne
    <3>5. ASSUME cell[c].attempts > 0
          PROVE  LET shown == IF HoldsExecution(c) THEN {cell[c].attempts} ELSE {} IN
                 /\ Superseded(c) \cup shown = 1..cell[c].attempts /\ Superseded(c) \cap shown = {}
      BY <3>1, <3>5, CountedOnce
    <3>6. QED
      BY <3>3, <3>4, <3>5, Zenon
  <2>3. QED
    BY <2>1, <2>2
<1>2. QED
  BY <1>1, MatrixInvariant, PTL

\* An experiment that has ended leaves no live cell that nobody will advance, and a retired
\* cell is never in flight (cancel_experiment, remove_config_from_experiment, the tick's end).
THEOREM NothingIsStranded ==
  ASSUME Undisturbed
  PROVE  Spec => []NothingStranded
<1>1. MatrixInv => NothingStranded
  <2> SUFFICES ASSUME MatrixInv PROVE NothingStranded
    OBVIOUS
  <2>1. exp.status \in ExpTerminal => \A c \in Live : cell[c].status \in CellSettled
    BY DEF MatrixInv, Consistent, Ended
  <2>2. ASSUME NEW c \in Cells, cell[c].retired PROVE cell[c].status \notin InFlight
    <3>1. CASE exp.status = "deleted"
      <4>1. cell[c] = NoRow
        BY <3>1, DeletedRows
      <4>2. QED
        BY <2>2, <4>1, RowsMade
    <3>2. CASE exp.status # "deleted"
      BY <2>2, <3>2 DEF MatrixInv, Consistent, RowsKept, Kept
    <3>3. QED
      BY <3>1, <3>2
  <2>3. QED
    BY <2>1, <2>2 DEF NothingStranded
<1>2. QED
  BY <1>1, MatrixInvariant, PTL

\* A cached report is served only while it counts the cells as they are: every mutation
\* of an ended experiment moves the revision (get_experiment_report).
THEOREM ServedReportsAreCurrent ==
  ASSUME Undisturbed
  PROVE  Spec => []ServedReportCurrent
<1>1. MatrixInv => ServedReportCurrent
  BY DEF MatrixInv, Consistent, Reported, ServedReportCurrent, Served, ExpTerminal
<1>2. QED
  BY <1>1, MatrixInvariant, PTL

\* Every cell has one task that counts, the one its live row points to, so that counting
\* by tag and by row agree, and at most one agent at work (retry_failed_experiment,
\* remove_config_from_experiment, delete_experiment).
THEOREM OneTaskForEachCell ==
  ASSUME Undisturbed
  PROVE  Spec => []OneTaskPerCell
<1>1. MatrixInv => OneTaskPerCell
  <2> SUFFICES ASSUME MatrixInv PROVE OneTaskPerCell
    OBVIOUS
  <2>1. OnePopulation
    BY DEF MatrixInv, Consistent, RowsKept, Kept, OnePopulation
  <2>2. ASSUME NEW c \in Cells
        PROVE  Cardinality({i \in DOMAIN child[c] : child[c][i].status \in {"backlog", "ready"}}) <= 1
    <3> DEFINE kids == child[c]
               w == {i \in DOMAIN kids : kids[i].status \in {"backlog", "ready"}}
    <3>1. \A i \in w : i = Len(kids)
      BY DEF MatrixInv, Consistent, RowsKept, Working
    <3> HIDE DEF w, kids
    <3>2. w \subseteq {Len(kids)}
      BY <3>1
    <3>3. IsFiniteSet({Len(kids)}) /\ Cardinality({Len(kids)}) = 1
      BY FS_Singleton
    <3>4. Cardinality(w) <= 1
      BY <3>2, <3>3, FS_Subset
    <3>5. QED
      BY <3>4 DEF w, kids
  <2>3. QED
    BY <2>1, <2>2 DEF OneTaskPerCell, OneAgentPerCell
<1>2. QED
  BY <1>1, MatrixInvariant, PTL

-----------------------------------------------------------------------------
PhasesTyped ==
  \A c \in Cells : /\ Phase(cell[c].status) \in Lifecycle!Phases /\ cell[c].attempts \in Nat
                   /\ ledger[c] \in SUBSET (Nat \ {0})

\* The phases of the cells, as CellLifecycle has them.
LEMMA PhasesKept == MatrixInv => PhasesTyped
<1> SUFFICES ASSUME MatrixInv, NEW c \in Cells
             PROVE  /\ Phase(cell[c].status) \in Lifecycle!Phases /\ cell[c].attempts \in Nat
                    /\ ledger[c] \in SUBSET (Nat \ {0})
  BY DEF PhasesTyped
<1>1. cell[c] \in Rows
  BY DEF MatrixInv, Types
<1>2. Phase(cell[c].status) \in Lifecycle!Phases
  BY <1>1 DEF Rows, Phase, Lifecycle!Phases, Lifecycle!Settled, CellSettled, InFlight
<1>3. cell[c].attempts \in Nat
  BY <1>1 DEF Rows
<1>4. ledger[c] \subseteq 1..cell[c].attempts
  <2>1. CASE exp.status = "deleted"
    BY <2>1, DeletedRows
  <2>2. CASE exp.status # "deleted"
    BY <2>2 DEF MatrixInv, Consistent, RowsKept, Kept
  <2>3. QED
    BY <2>1, <2>2
<1>5. QED
  BY <1>2, <1>3, <1>4

\* The runner keeps what CellLifecycle promises of every cell: executions settle before the
\* next is asked for, what is superseded is archived first, and a success is not rewritten.
THEOREM CellsFollowLifecycle ==
  ASSUME Undisturbed
  PROVE  Spec => CellsKeepLifecycle
<1> DEFINE phase == [c \in Cells |->
              IF cell[c].status = "pending" THEN "waiting"
              ELSE IF cell[c].status \in InFlight THEN "executing" ELSE cell[c].status]
           count == [c \in Cells |-> cell[c].attempts]
<1>1. Init => Lifecycle!Init
  <2> SUFFICES ASSUME Init PROVE Lifecycle!Init
    OBVIOUS
  <2>1. cell = [c \in Cells |-> NoRow] /\ ledger = [c \in Cells |-> {}]
    BY DEF Init
  <2>2. \A c \in Cells : cell[c].status = "absent" /\ cell[c].attempts = 0
    BY <2>1, RowsMade
  <2>3. QED
    BY <2>1, <2>2 DEF Lifecycle!Init, InFlight
<1>2. MatrixInv /\ [Next]_expVars => [Lifecycle!CellNext]_(Lifecycle!cellVars)
  <2> SUFFICES ASSUME MatrixInv, [Next]_expVars
               PROVE  Lifecycle!CellNext
    OBVIOUS
  <2>1. MatrixInv' /\ ((\A c \in Cells : At(CellMove, c)) \/ (\A c \in Cells : At(Removed, c)))
    BY MatrixStep
  <2>2. \A c \in Cells : /\ phase[c] = Phase(cell[c].status) /\ phase'[c] = Phase(cell'[c].status)
                         /\ count[c] = cell[c].attempts /\ count'[c] = cell'[c].attempts
    BY DEF Phase
  <2>3. ASSUME NEW c \in Cells
        PROVE  /\ Phase(cell'[c].status) \in Lifecycle!Phases /\ cell'[c].attempts \in Nat
               /\ ledger'[c] \in SUBSET (Nat \ {0})
    <3>1. MatrixInv' => PhasesTyped'
      BY PhasesKept, PTL
    <3>2. QED
      BY <2>1, <3>1 DEF PhasesTyped
  <2>4. ledger' = [c \in Cells |-> ledger'[c]]
    BY <2>1 DEF MatrixInv, Types
  <2>5. ASSUME NEW c \in Cells
        PROVE  Lives(Phase(cell[c].status), cell[c].attempts, ledger[c],
                     Phase(cell'[c].status), cell'[c].attempts, ledger'[c])
    <3>1. CASE At(CellMove, c)
      <4>1. Typed(cell[c], ledger[c], child[c])
        BY DEF MatrixInv, Types, Typed
      <4>2. CellMove(cell[c], ledger[c], child[c], cell'[c], ledger'[c], child'[c])
        BY <3>1 DEF At
      <4>3. QED
        BY <4>1, <4>2, CellMoveLives
    <3>2. CASE At(Removed, c)
      <4>1. cell'[c].status = "absent" /\ cell'[c].attempts = 0 /\ ledger'[c] = {}
        BY <3>2, RowsMade DEF At, Removed
      <4>2. QED
        BY <4>1 DEF Lives, Phase, InFlight
    <3>3. QED
      BY <2>1, <3>1, <3>2
  <2>6. ASSUME NEW c \in Cells
        PROVE  Lifecycle!CellStep(c)
    BY <2>2, <2>5, ZenonT(40) DEF Lives, Past, Lifecycle!CellStep, Lifecycle!Stays, Lifecycle!Appears,
      Lifecycle!Disappears, Lifecycle!Executes, Lifecycle!Settles, Lifecycle!Requeues, Lifecycle!Retires,
      Lifecycle!Archived, Lifecycle!Settled
  <2>7. /\ phase' \in [Cells -> Lifecycle!Phases] /\ count' \in [Cells -> Nat]
        /\ ledger' \in [Cells -> SUBSET (Nat \ {0})]
    BY <2>2, <2>3, <2>4
  <2>8. QED
    BY <2>6, <2>7 DEF Lifecycle!CellNext
<1>3. QED
  BY <1>1, <1>2, MatrixInvariant, PTL DEF Spec, CellsKeepLifecycle, Lifecycle!CellSpec

-----------------------------------------------------------------------------
\* What the experiment was created with stays.
LEMMA SetupStays ==
  ASSUME Types, [Next]_expVars
  PROVE  exp'.setup = exp.setup
<1>1. CASE UNCHANGED expVars
  BY <1>1 DEF expVars
<1>2. ASSUME NEW k \in Ticks, TickStep(k) \/ TickAborts(k)
      PROVE  exp'.setup = exp.setup
  <2>1. CASE TickBegin(k)
    BY <2>1, TickExp DEF ExpBecomes, SameExp
  <2>2. CASE TickAborts(k)
    BY <2>2 DEF TickAborts
  <2>3. CASE Claim(k)
    BY <2>3, TickExp DEF Claim, ExpBecomes, SameExp
  <2>4. CASE Finish(k)
    BY <2>4, FinishExp DEF ExpBecomes, SameExp
  <2>5. ASSUME NEW c \in Cells,
               PollPreprocessing(k, c) \/ PollRunning(k, c) \/ PollEvaluating(k, c)
        PROVE  exp'.setup = exp.setup
    BY <2>5 DEF PollPreprocessing, PollRunning, PollEvaluating
  <2>6. QED
    BY <1>2, <2>1, <2>2, <2>3, <2>4, <2>5 DEF TickStep
<1>3. ASSUME NEW c \in Cells, AgentEnds(c) \/ ContainerExits(c) \/ ContainerLost(c) \/ DeleteChild(c)
      PROVE  exp'.setup = exp.setup
  BY <1>3 DEF AgentEnds, ContainerExits, ContainerLost, DeleteChild
<1>4. CASE ReportBegins \/ ReportEnds
  BY <1>4, ReportExp DEF ReportBegins, ExpBecomes, SameExp
<1>5. CASE Start \/ Pause \/ Resume \/ Cancel \/ RetryFailed \/ DeleteExperiment
  BY <1>5, RequestExp DEF ExpBecomes, SameExp
<1>6. CASE AddConfig
  BY <1>6, AddExp DEF ExpBecomes, SameExp
<1>7. ASSUME NEW g \in Configs, RetireConfig(g)
      PROVE  exp'.setup = exp.setup
  <2>1. ExpBecomes(exp'.status, exp.configs, exp.retired \cup {g}, exp.revision + 1, exp.due, Unwritten)
    BY <1>7, RetireExp
  <2>2. QED
    BY <2>1 DEF ExpBecomes, SameExp
<1>8. QED
  BY <1>1, <1>2, <1>3, <1>4, <1>5, <1>6, <1>7, Zenon DEF Next

\* Only a claim counts an execution.
LEMMA OnlyClaimsCount ==
  ASSUME Types, [Next]_expVars, \A k \in Ticks : ~Claim(k), NEW c \in Cells
  PROVE  cell'[c].attempts # cell[c].attempts + 1
<1>0. cell \in [Cells -> Rows] /\ cell[c] \in Rows /\ cell[c].attempts \in Nat
      /\ Pending.attempts = 0 /\ NoRow.attempts = 0
  BY RowsMade DEF Types, Rows
<1>1. ASSUME cell'[c] = cell[c] \/ cell'[c] = Pending \/ cell'[c] = NoRow
      PROVE  cell'[c].attempts # cell[c].attempts + 1
  BY <1>0, <1>1
<1>2. CASE cell' = cell
  BY <1>1, <1>2
<1>3. ASSUME NEW t, cell' = Flushed(t, cell)
      PROVE  cell'[c].attempts # cell[c].attempts + 1
  <2>1. cell'[c] = cell[c] \/ cell'[c] = Overwritten(cell[c], t.view[c])
    BY <1>3, Zenon DEF Flushed, Overwritten
  <2>2. \A v : Overwritten(cell[c], v).attempts = cell[c].attempts
    BY <1>0 DEF Overwritten, Rows
  <2>3. QED
    BY <1>0, <2>1, <2>2
<1>4. ASSUME NEW k \in Ticks, TickStep(k) \/ TickAborts(k)
      PROVE  cell'[c].attempts # cell[c].attempts + 1
  <2>1. CASE TickBegin(k) \/ TickAborts(k)
    <3>1. cell' = cell
      BY <2>1 DEF TickBegin, TickAborts
    <3>2. QED
      BY <1>1, <3>1
  <2>2. CASE Finish(k)
    <3>1. cell' = Flushed(Over(tick[k]), cell)
      BY <2>2, FinishParts
    <3>2. QED
      BY <1>3, <3>1
  <2>3. ASSUME NEW d \in Cells,
               PollPreprocessing(k, d) \/ PollRunning(k, d) \/ PollEvaluating(k, d)
        PROVE  cell'[c].attempts # cell[c].attempts + 1
    <3>1. Polls(k, d)
      BY <2>3, PreprocessingPolls, RunningPolls, EvaluatingPolls
    <3>2. cell' = cell \/ cell' = Flushed(tick[k], cell)
      BY <3>1 DEF Polls, Commits
    <3>3. QED
      BY <1>1, <1>3, <3>2
  <2>4. QED
    BY <1>4, <2>1, <2>2, <2>3 DEF TickStep
<1>5. CASE Start \/ AddConfig
  <2>1. cell'[c] = Pending \/ cell'[c] = cell[c]
    BY <1>5 DEF Start, AddConfig
  <2>2. QED
    BY <1>1, <2>1
<1>6. CASE DeleteExperiment
  <2>1. cell'[c] = NoRow
    BY <1>6 DEF DeleteExperiment
  <2>2. QED
    BY <1>1, <2>1
<1>7. CASE Cancel
  <2>1. cell'[c] = WithStatus(cell[c], "skipped") \/ cell'[c] = cell[c]
    BY <1>7, CancelMoves DEF At, Skipped, Rests
  <2>2. WithStatus(cell[c], "skipped").attempts = cell[c].attempts
    BY <1>0 DEF WithStatus, Rows
  <2>3. QED
    BY <1>0, <2>1, <2>2
<1>8. CASE RetryFailed
  <2>1. cell'[c] = Again(cell[c].attempts) \/ cell'[c] = cell[c]
    BY <1>8, RetryMoves DEF At, Retried, Rests
  <2>2. QED
    BY <1>0, <2>1, RowsMade
<1>9. ASSUME NEW g \in Configs, RetireConfig(g)
      PROVE  cell'[c].attempts # cell[c].attempts + 1
  <2>1. (\E s : cell'[c] = OutOfUse(cell[c], s)) \/ cell'[c] = cell[c]
    BY <1>9, RetireMoves, Zenon DEF At, Retired, Rests
  <2>2. \A s : OutOfUse(cell[c], s).attempts = cell[c].attempts
    BY <1>0 DEF OutOfUse, Rows
  <2>3. QED
    BY <1>0, <2>1, <2>2
<1>10. ASSUME NEW d \in Cells, AgentEnds(d) \/ ContainerExits(d) \/ ContainerLost(d) \/ DeleteChild(d)
       PROVE  cell'[c].attempts # cell[c].attempts + 1
  <2>1. cell' = cell \/ cell'[c] = cell[c] \/ cell'[c] = Without(cell[c])
    BY <1>0, <1>10, Zenon DEF AgentEnds, ContainerExits, ContainerLost, DeleteChild, Without
  <2>2. QED
    BY <1>0, <2>1, RowsMade
<1>11. CASE Pause \/ Resume \/ ReportBegins \/ ReportEnds \/ UNCHANGED expVars
  <2>1. cell' = cell
    BY <1>11 DEF Pause, Resume, ReportBegins, ReportEnds, expVars
  <2>2. QED
    BY <1>1, <2>1
<1>12. QED
  BY <1>4, <1>5, <1>6, <1>7, <1>8, <1>9, <1>10, <1>11, Zenon DEF Next

-----------------------------------------------------------------------------
Flying == {c \in Live : cell[c].status \in InFlight}

\* No more cells in flight than there may be, and no lane for two of them.
Exclusive ==
  /\ Cardinality(Flying) <= Target
  /\ Lanes > 0 => \A c, d \in Flying : c # d /\ c[2] \in External /\ d[2] \in External
                                         => cell[c].lane # cell[d].lane

\* A cell in flight that was not claimed just now was in flight before, in the same lane.
LEMMA StaysInFlight ==
  ASSUME NEW r, NEW a, NEW kids, NEW f, NEW b, NEW new, Typed(r, a, kids),
         CellMove(r, a, kids, f, b, new) \/ Removed(r, a, kids, f, b, new),
         f.attempts # r.attempts + 1, f.status \in InFlight, ~f.retired
  PROVE  r.status \in InFlight /\ ~r.retired /\ f.lane = r.lane
<1>0. r \in Rows /\ r.attempts \in Nat
  BY DEF Typed, Rows
<1>1. CASE Rests(r, a, kids, f, b, new) \/ Executed(r, a, kids, f, b, new)
  BY <1>1 DEF Rests, Executed
<1>2. ~Begun(r, a, kids, f, b, new) /\ ~Removed(r, a, kids, f, b, new) /\ ~Retried(r, a, kids, f, b, new)
  BY <1>0, RowsMade DEF Begun, Removed, Retried, InFlight
<1>3. ~Skipped(r, a, kids, f, b, new)
  BY <1>0 DEF Skipped, WithStatus, Rows, InFlight
<1>4. ~Retired(r, a, kids, f, b, new)
  BY <1>0 DEF Retired, OutOfUse, Rows
<1>5. ~Claimed(r, a, kids, f, b, new)
  BY DEF Claimed
<1>6. CASE Unlinked(r, a, kids, f, b, new)
  BY <1>0, <1>6, RowsMade DEF Unlinked, Without, Rows
<1>7. CASE Flows(r, a, kids, f, b, new)
  BY <1>7 DEF Flows, Polled
<1>8. QED
  BY <1>1, <1>2, <1>3, <1>4, <1>5, <1>6, <1>7, Zenon DEF CellMove, Goes

\* What a tick sees in flight is in flight, in the lane it sees.
LEMMA SeenInFlight ==
  ASSUME Types, NEW t, Opened(t), NEW c \in InView(t, InFlight)
  PROVE  c \in Flying /\ cell[c].lane = t.view[c].lane
<1>1. c \in Cells /\ c \in t.live /\ t.view[c].status \in InFlight /\ Pictured(t, c, cell[c], child[c])
  BY DEF InView, Opened, TickRow
<1>2. cell[c].status # "absent" /\ ~cell[c].retired
  BY <1>1 DEF Pictured
<1>3. cell[c].status \in InFlight /\ cell[c].lane = t.view[c].lane
  BY <1>1 DEF Pictured, Polled
<1>4. QED
  BY <1>1, <1>2, <1>3 DEF Flying, Live, LiveOf

\* Two cells of a list that are claimed get different lanes.
LEMMA LanesApart ==
  ASSUME Types, NEW t \in TickRow, NEW list \in ClaimLists(t), Lanes > 0,
         NEW i \in DOMAIN list, list[i][2] \in External,
         NEW j \in DOMAIN list, list[j][2] \in External, i < j
  PROVE  LaneOf(t, list, i) # LaneOf(t, list, j)
<1>1. /\ Cardinality(UpTo(FreeLanes(t), LaneOf(t, list, i))) = Cardinality(Laned(list, i))
      /\ Cardinality(UpTo(FreeLanes(t), LaneOf(t, list, j))) = Cardinality(Laned(list, j))
  BY LaneFree
<1>2. i \in Nat /\ j \in Nat /\ i > 0 /\ j > 0
  <2>1. PICK n \in Nat : list \in [1..n -> InView(t, {"pending"})]
    BY ClaimListed
  <2>2. QED
    BY <2>1
<1>3. Laned(list, i) \subseteq Laned(list, j) /\ j \in Laned(list, j) /\ j \notin Laned(list, i)
  BY <1>2 DEF Laned
<1>4. IsFiniteSet(Laned(list, j))
  <2>1. IsFiniteSet(1..j) /\ Laned(list, j) \in SUBSET (1..j)
    BY <1>2, FS_Interval DEF Laned
  <2>2. QED
    BY <2>1, FS_Subset
<1>5. Cardinality(Laned(list, i)) < Cardinality(Laned(list, j))
  <2> DEFINE S == Laned(list, j)
             T == Laned(list, i)
  <2>1. IsFiniteSet(S) /\ T \in SUBSET S /\ j \in S \ T
    BY <1>3, <1>4
  <2> HIDE DEF S, T
  <2>2. Cardinality(T) < Cardinality(S)
    BY <2>1, CountedMore
  <2>3. QED
    BY <2>2 DEF S, T
<1>6. Cardinality(Laned(list, i)) \in Nat /\ Cardinality(Laned(list, j)) \in Nat
  BY <1>3, <1>4, FS_Subset, FS_CardinalityType
<1>7. QED
  BY <1>1, <1>5, <1>6

\* A claim, as the cells in flight after it: those it saw, and those it claimed.
LEMMA ClaimInFlight ==
  ASSUME MatrixInv, NEW k \in Ticks, NEW list \in ClaimLists(tick[k]), Opened(tick[k]),
         NEW broken \in SUBSET {c \in ToSet(list) : c[2] \in External}, NEW childless \in SUBSET broken,
         ClaimAll(k, list, broken, childless), NEW c \in Cells,
         cell'[c].status \in InFlight, cell'[c].status # "absent", ~cell'[c].retired
  PROVE  \/ c \in InView(tick[k], InFlight) /\ cell'[c].lane = tick[k].view[c].lane
         \/ \E i \in DOMAIN list : list[i] = c /\ cell'[c].lane = LaneOf(tick[k], list, i)
<1>0. Types
  BY DEF MatrixInv
<1>1. \/ c \notin ToSet(list) /\ cell'[c] = tick[k].view[c]
      \/ \E i \in DOMAIN list : list[i] = c /\ cell'[c].lane = LaneOf(tick[k], list, i)
  <2>1. \/ /\ c \notin ToSet(list) /\ cell'[c] = tick[k].view[c]
           /\ At(Flows, c) \/ At(Rests, c)
        \/ /\ At(Claimed, c) /\ c \in tick[k].live /\ tick[k].view[c].status = "pending"
           /\ cell'[c].status = Starts(c, broken)
           /\ \E i \in DOMAIN list : list[i] = c /\ cell'[c].lane = LaneOf(tick[k], list, i)
    BY <1>0, ClaimMoves
  <2>2. QED
    BY <2>1
<1>2. ASSUME cell'[c] = tick[k].view[c]
      PROVE  c \in InView(tick[k], InFlight) /\ cell'[c].lane = tick[k].view[c].lane
  <2>1. Pictured(tick[k], c, cell[c], child[c])
    BY DEF Opened
  <2>2. c \in tick[k].live
    BY <1>2, <2>1 DEF Pictured
  <2>3. QED
    BY <1>2, <2>2 DEF InView
<1>3. QED
  BY <1>1, <1>2

\* A claim keeps to the limits.
LEMMA ClaimExclusive ==
  ASSUME MatrixInv, Exclusive, NEW k \in Ticks, Claim(k), exp'.setup = exp.setup
  PROVE  Exclusive'
<1> DEFINE t == tick[k]
           seen == InView(t, InFlight)
<1>1. PICK list \in ClaimLists(t) :
      \E broken \in SUBSET {c \in ToSet(list) : c[2] \in External} :
      \E childless \in SUBSET broken : ClaimAll(k, list, broken, childless)
  BY DEF Claim
<1>2. PICK broken \in SUBSET {c \in ToSet(list) : c[2] \in External} :
      \E childless \in SUBSET broken : ClaimAll(k, list, broken, childless)
  BY <1>1
<1>3. PICK childless \in SUBSET broken : ClaimAll(k, list, broken, childless)
  BY <1>2
<1>4. Opened(t) /\ t \in TickRow /\ Types
  <2>1. tick[k].on
    BY DEF Claim, Decides
  <2>2. QED
    BY <2>1, OnlyTick DEF MatrixInv, Types
<1>5. Target' = Target /\ Lanes' = Lanes /\ External' = External
  BY DEF Target, Serial, Lanes, External
<1>6. PICK n \in Nat :
           /\ list \in [1..n -> InView(t, {"pending"})]
           /\ n > 0 => n + Cardinality(InView(t, InFlight)) <= Target
           /\ \A i, j \in 1..n : list[i] = list[j] => i = j
  BY <1>4, ClaimListed
<1>7. ASSUME NEW c \in Flying'
      PROVE  \/ c \in seen /\ cell'[c].lane = t.view[c].lane
             \/ \E i \in DOMAIN list : list[i] = c /\ cell'[c].lane = LaneOf(t, list, i)
  <2>1. c \in Cells /\ cell'[c].status \in InFlight /\ cell'[c].status # "absent" /\ ~cell'[c].retired
    BY <1>7 DEF Flying, Live, LiveOf
  <2>2. QED
    BY <1>3, <1>4, <2>1, ClaimInFlight
<1>8. \A c \in seen : c \in Flying /\ cell[c].lane = t.view[c].lane
  BY <1>4, SeenInFlight
<1>9. Cardinality(Flying') <= Target
  <2> DEFINE claimed == {list[i] : i \in 1..n}
             f == [i \in 1..n |-> list[i]]
  <2>1. IsFiniteSet(1..n) /\ Cardinality(1..n) = n
    BY FS_Interval
  <2>2. f \in Surjection(1..n, claimed)
    BY DEF Surjection
  <2>3. claimed \in SUBSET Cells /\ seen \in SUBSET Cells /\ Flying \in SUBSET Cells
    BY <1>4, <1>6 DEF InView, TickRow, Flying, Live, LiveOf
  <2>4. Flying' \subseteq seen \cup claimed
    BY <1>6, <1>7
  <2> HIDE DEF f, claimed
  <2>5. IsFiniteSet(claimed) /\ Cardinality(claimed) <= n /\ Cardinality(claimed) \in Nat
    BY <2>1, <2>2, <2>3, FS_Surjection, PartsFinite
  <2>6. /\ IsFiniteSet(seen) /\ Cardinality(seen) \in Nat
        /\ IsFiniteSet(Flying) /\ Cardinality(Flying) \in Nat /\ Cardinality(Flying) <= Target
    BY <2>3, PartsFinite DEF Exclusive
  <2>7. seen \subseteq Flying
    BY <1>8
  <2> HIDE DEF seen, t
  <2>8. /\ IsFiniteSet(seen \cup claimed)
        /\ Cardinality(seen \cup claimed) = Cardinality(seen) + Cardinality(claimed) - Cardinality(seen \cap claimed)
    BY <2>5, <2>6, FS_Union
  <2>9. IsFiniteSet(seen \cap claimed) /\ Cardinality(seen \cap claimed) \in Nat
    BY <2>5, FS_Subset, FS_CardinalityType
  <2>10. Cardinality(Flying') <= Cardinality(seen \cup claimed) /\ Cardinality(Flying') \in Nat
    BY <2>4, <2>8, FS_Subset, FS_CardinalityType
  <2>11. Cardinality(seen) <= Cardinality(Flying)
    BY <2>6, <2>7, FS_Subset
  <2>12. Target \in Nat
    BY <1>4, TargetBounds
  <2>13. Cardinality(seen \cup claimed) <= Target
    <3>1. CASE n = 0
      BY <2>5, <2>6, <2>8, <2>9, <2>11, <2>12, <3>1
    <3>2. CASE n > 0
      <4>1. n + Cardinality(seen) <= Target
        BY <1>6, <3>2 DEF seen
      <4>2. QED
        BY <2>5, <2>6, <2>8, <2>9, <2>12, <4>1
    <3>3. QED
      BY <3>1, <3>2
  <2>14. QED
    BY <2>8, <2>9, <2>10, <2>12, <2>13, <2>5, <2>6
<1>10. ASSUME Lanes > 0, NEW c \in Flying', NEW d \in Flying', c # d, c[2] \in External, d[2] \in External
       PROVE  cell'[c].lane # cell'[d].lane
  <2>1. CASE c \in seen /\ cell'[c].lane = t.view[c].lane /\ d \in seen /\ cell'[d].lane = t.view[d].lane
    BY <1>8, <1>10, <2>1 DEF Exclusive
  <2>2. ASSUME NEW x \in Cells, NEW y \in Cells, x[2] \in External,
               NEW i \in DOMAIN list, list[i] = x, cell'[x].lane = LaneOf(t, list, i),
               y \in seen, cell'[y].lane = t.view[y].lane
        PROVE  cell'[x].lane # cell'[y].lane
    <3>1. LaneOf(t, list, i) \in FreeLanes(t)
      BY <1>4, <1>10, <2>2, LaneFree
    <3>2. QED
      BY <2>2, <3>1 DEF FreeLanes
  <2>3. ASSUME NEW i \in DOMAIN list, list[i] = c, cell'[c].lane = LaneOf(t, list, i),
               NEW j \in DOMAIN list, list[j] = d, cell'[d].lane = LaneOf(t, list, j)
        PROVE  cell'[c].lane # cell'[d].lane
    <3>1. i \in Nat /\ j \in Nat /\ i # j
      BY <1>6, <1>10, <2>3
    <3>2. CASE i < j
      BY <1>4, <1>10, <2>3, <3>2, LanesApart
    <3>3. CASE j < i
      BY <1>4, <1>10, <2>3, <3>3, LanesApart
    <3>4. QED
      BY <3>1, <3>2, <3>3
  <2>4. c \in Cells /\ d \in Cells
    BY <1>10 DEF Flying, Live, LiveOf
  <2>5. /\ \/ c \in seen /\ cell'[c].lane = t.view[c].lane
           \/ \E i \in DOMAIN list : list[i] = c /\ cell'[c].lane = LaneOf(t, list, i)
        /\ \/ d \in seen /\ cell'[d].lane = t.view[d].lane
           \/ \E i \in DOMAIN list : list[i] = d /\ cell'[d].lane = LaneOf(t, list, i)
    BY <1>7, <1>10
  <2> HIDE DEF seen, t
  <2>6. QED
    BY <1>10, <2>1, <2>2, <2>3, <2>4, <2>5
<1>11. QED
  BY <1>5, <1>9, <1>10 DEF Exclusive

\* What is in flight without a claim was in flight before.
LEMMA OtherwiseExclusive ==
  ASSUME Undisturbed, MatrixInv, Exclusive, [Next]_expVars, \A k \in Ticks : ~Claim(k)
  PROVE  Exclusive'
<1>0. Types /\ exp'.setup = exp.setup
  BY SetupStays DEF MatrixInv
<1>1. Target' = Target /\ Lanes' = Lanes /\ External' = External
  BY <1>0 DEF Target, Serial, Lanes, External
<1>2. ASSUME NEW c \in Flying'
      PROVE  c \in Flying /\ cell'[c].lane = cell[c].lane
  <2>1. c \in Cells /\ cell'[c].status \in InFlight /\ ~cell'[c].retired
    BY <1>2 DEF Flying, Live, LiveOf
  <2>2. (\A d \in Cells : At(CellMove, d)) \/ (\A d \in Cells : At(Removed, d))
    BY MatrixStep
  <2>3. /\ Typed(cell[c], ledger[c], child[c])
        /\ \/ CellMove(cell[c], ledger[c], child[c], cell'[c], ledger'[c], child'[c])
           \/ Removed(cell[c], ledger[c], child[c], cell'[c], ledger'[c], child'[c])
    BY <1>0, <2>1, <2>2 DEF Types, Typed, At
  <2>4. cell'[c].attempts # cell[c].attempts + 1
    BY <1>0, <2>1, OnlyClaimsCount
  <2>5. cell[c].status \in InFlight /\ ~cell[c].retired /\ cell'[c].lane = cell[c].lane
    BY <2>1, <2>3, <2>4, StaysInFlight
  <2>6. cell[c].status # "absent"
    BY <2>5 DEF InFlight
  <2>7. QED
    BY <2>1, <2>5, <2>6 DEF Flying, Live, LiveOf
<1>3. Cardinality(Flying') <= Cardinality(Flying) /\ Cardinality(Flying) \in Nat
      /\ Cardinality(Flying') \in Nat
  <2>1. Flying \in SUBSET Cells
    BY DEF Flying, Live, LiveOf
  <2>2. IsFiniteSet(Flying) /\ Cardinality(Flying) \in Nat
    BY <2>1, PartsFinite
  <2>3. Flying' \in SUBSET Flying
    BY <1>2
  <2>4. QED
    BY <2>2, <2>3, FS_Subset, FS_CardinalityType
<1>4. Target \in Nat
  BY <1>0, TargetBounds
<1>5. Cardinality(Flying') <= Target
  BY <1>3, <1>4 DEF Exclusive
<1>6. Lanes > 0 => \A c, d \in Flying' : c # d /\ c[2] \in External /\ d[2] \in External
                                           => cell'[c].lane # cell'[d].lane
  BY <1>2 DEF Exclusive
<1>7. QED
  BY <1>1, <1>5, <1>6 DEF Exclusive

\* The limits on what is in flight hold at first, and every step keeps them.
LEMMA ExclusiveInit == Init => Exclusive
<1> SUFFICES ASSUME Init PROVE Exclusive
  OBVIOUS
<1>1. \A c \in Cells : cell[c] = NoRow
  BY DEF Init
<1>2. Flying = {}
  BY <1>1, RowsMade DEF Flying, Live, LiveOf
<1>3. Target \in Nat
  BY TypesInit, TargetBounds
<1>4. Cardinality({}) = 0
  BY FS_EmptySet
<1>5. QED
  BY <1>2, <1>3, <1>4 DEF Exclusive

\* A claim keeps to the limits because it counts, and no other step adds to what is in flight.
LEMMA ExclusiveStep ==
  ASSUME Undisturbed, MatrixInv, Exclusive, [Next]_expVars
  PROVE  Exclusive'
<1>1. exp'.setup = exp.setup
  BY SetupStays DEF MatrixInv
<1>2. QED
  BY <1>1, ClaimExclusive, OtherwiseExclusive

\* Prepared cells in flight never share a database: one at a time without lanes, each in a
\* lane of its own with them, and never more of them than the user allows
\* (_claimable_slots and the lanes of advance_experiment).
THEOREM DatabasesExclusive ==
  ASSUME Undisturbed
  PROVE  Spec => []DatabaseExclusive
<1>1. MatrixInv /\ Exclusive => DatabaseExclusive
  <2> SUFFICES ASSUME MatrixInv, Exclusive PROVE DatabaseExclusive
    OBVIOUS
  <2>1. /\ Target \in Nat /\ exp.setup.parallel \in Nat /\ Target <= exp.setup.parallel
        /\ Serial => Target = 1
    BY TargetBounds DEF MatrixInv
  <2>2. Flying \in SUBSET Cells
    BY DEF Flying, Live, LiveOf
  <2>3. Cardinality(Flying) \in Nat
    BY <2>2, PartsFinite
  <2>4. Cardinality(Flying) <= exp.setup.parallel /\ (Serial => Cardinality(Flying) <= 1)
    BY <2>1, <2>3 DEF Exclusive
  <2>5. QED
    BY <2>4 DEF Exclusive, DatabaseExclusive, Flying
<1>2. QED
  BY <1>1, ExclusiveInit, ExclusiveStep, MatrixInvariant, PTL DEF Spec

-----------------------------------------------------------------------------
(* The budget                                                              *)

\* What cells have cost, unit by unit.
Units(cost) == {u \in (DOMAIN cost) \X (1..MaxCost) : u[2] <= cost[u[1]]}

\* What a row may come to cost as long as it counts, which what is in flight still may spend.
Burden(r) ==
  IF r.status = "absent" \/ r.retired THEN 0 ELSE IF r.status \in InFlight THEN MaxCost ELSE r.cost
Burdens == [c \in Cells |-> Burden(cell[c])]

\* Even if all that is in flight spends all it may, the budget is exceeded by no more than that.
Budgeted ==
  /\ exp.spent \in Nat
  /\ exp.setup.budget > 0 => TotalCost(Burdens) < exp.setup.budget + Target * MaxCost

\* The cost of finitely many cells is a number.
LEMMA CostCounted ==
  ASSUME NEW f, DOMAIN f \in SUBSET Cells
  PROVE  IsFiniteSet(Units(f)) /\ TotalCost(f) = Cardinality(Units(f)) /\ TotalCost(f) \in Nat
<1>1. IsFiniteSet(DOMAIN f) /\ IsFiniteSet(1..MaxCost)
  BY PartsFinite, FS_Interval, ExperimentsAssumption
<1>2. IsFiniteSet((DOMAIN f) \X (1..MaxCost))
  BY <1>1, FS_Product
<1>3. Units(f) \in SUBSET ((DOMAIN f) \X (1..MaxCost))
  BY DEF Units
<1>4. IsFiniteSet(Units(f)) /\ Cardinality(Units(f)) \in Nat
  BY <1>2, <1>3, FS_Subset, FS_CardinalityType
<1>5. QED
  BY <1>4 DEF TotalCost, Units

\* Cells that cost no more than before, but for some of them, cost no more together
\* than before, but for what those may cost.
LEMMA CostWithin ==
  ASSUME NEW f, DOMAIN f \in SUBSET Cells, NEW g, DOMAIN g \in SUBSET Cells, NEW some \in SUBSET Cells,
         \A c \in DOMAIN f : f[c] \in Nat, \A c \in DOMAIN g : g[c] \in Nat,
         \A c \in (DOMAIN f) \ some : f[c] = 0 \/ (c \in DOMAIN g /\ f[c] <= g[c])
  PROVE  TotalCost(f) <= TotalCost(g) + Cardinality(some) * MaxCost
<1>1. MaxCost \in Nat /\ Cardinality(some) \in Nat
  BY PartsFinite, ExperimentsAssumption
<1>2. PICK more : more = some \X (1..MaxCost)
  OBVIOUS
<1>3. IsFiniteSet(more) /\ Cardinality(more) = Cardinality(some) * MaxCost
  <2>1. IsFiniteSet(1..MaxCost) /\ Cardinality(1..MaxCost) = MaxCost
    BY <1>1, FS_Interval
  <2>2. QED
    BY <1>2, <2>1, PartsFinite, FS_Product
<1>4. Units(f) \subseteq Units(g) \cup more
  <2>1. ASSUME NEW c \in DOMAIN f, NEW n \in 1..MaxCost, n <= f[c], c \notin some
        PROVE  c \in DOMAIN g /\ n <= g[c]
    BY <1>1, <2>1
  <2>2. ASSUME NEW u \in Units(f)
        PROVE  u \in Units(g) \cup more
    <3>1. /\ u \in (DOMAIN f) \X (1..MaxCost) /\ u[1] \in DOMAIN f /\ u[2] \in 1..MaxCost
          /\ u[2] <= f[u[1]] /\ u[1] \in Cells
      BY DEF Units
    <3>2. CASE u[1] \in some
      BY <1>2, <3>1, <3>2
    <3>3. CASE u[1] \notin some
      <4>1. u[1] \in DOMAIN g /\ u[2] <= g[u[1]]
        BY <2>1, <3>1, <3>3
      <4>2. QED
        BY <3>1, <4>1 DEF Units
    <3>4. QED
      BY <3>2, <3>3
  <2>3. QED
    BY <2>2
<1>5. PICK p : p = Units(f)
  OBVIOUS
<1>6. PICK q : q = Units(g)
  OBVIOUS
<1>7. /\ IsFiniteSet(q) /\ TotalCost(f) = Cardinality(p) /\ TotalCost(g) = Cardinality(q)
      /\ TotalCost(f) \in Nat /\ TotalCost(g) \in Nat
  BY <1>5, <1>6, CostCounted
<1>8. /\ IsFiniteSet(q \cup more)
      /\ Cardinality(q \cup more) = Cardinality(q) + Cardinality(more) - Cardinality(q \cap more)
  BY <1>3, <1>7, FS_Union
<1>9. Cardinality(q \cap more) \in Nat /\ Cardinality(more) \in Nat
  <2>1. IsFiniteSet(q \cap more)
    BY <1>3, FS_Subset
  <2>2. QED
    BY <1>3, <2>1, FS_CardinalityType
<1>10. p \in SUBSET (q \cup more)
  BY <1>4, <1>5, <1>6
<1>11. Cardinality(p) <= Cardinality(q \cup more)
  BY <1>8, <1>10, FS_Subset
<1>12. PICK n : n = Cardinality(q \cup more)
  OBVIOUS
<1>13. PICK m \in Nat : m = Cardinality(more)
  BY <1>9
<1>14. TotalCost(f) <= TotalCost(g) + m
  BY <1>7, <1>8, <1>9, <1>11, <1>12, <1>13
<1>15. QED
  BY <1>3, <1>13, <1>14

\* The budget, with what Target cells may spend, as a number.
LEMMA Allowance ==
  ASSUME Types
  PROVE  /\ Target * MaxCost \in Nat /\ exp.setup.budget \in Nat
         /\ \A n \in Nat : n <= Target => n * MaxCost <= Target * MaxCost
<1>1. Target \in Nat /\ MaxCost \in Nat
  BY TargetBounds, ExperimentsAssumption
<1>2. exp.setup.budget \in Nat
  BY ExperimentsAssumption DEF Types, ExpRow, ExperimentsAssumption, Setup
<1>3. ASSUME NEW n \in Nat, n <= Target
      PROVE  n * MaxCost <= Target * MaxCost
  <2>1. PICK d \in Nat : Target = n + d
    <3>1. Target - n \in Nat /\ Target = n + (Target - n)
      BY <1>1, <1>3
    <3>2. QED
      BY <3>1
  <2>2. Target * MaxCost = n * MaxCost + d * MaxCost /\ d * MaxCost \in Nat /\ n * MaxCost \in Nat
    BY <1>1, <2>1
  <2>3. QED
    BY <1>1, <2>2
<1>4. QED
  BY <1>1, <1>2, <1>3

\* Types of the burden of a row.
LEMMA BurdenTyped ==
  ASSUME NEW r \in Rows
  PROVE  Burden(r) \in 0..MaxCost
BY NoCost, ExperimentsAssumption DEF Burden, Rows

\* A cell that is not claimed does not become a greater burden.
LEMMA BurdenFalls ==
  ASSUME NEW r, NEW a, NEW kids, NEW f, NEW b, NEW new, Typed(r, a, kids), f \in Rows,
         CellMove(r, a, kids, f, b, new) \/ Removed(r, a, kids, f, b, new),
         f.attempts # r.attempts + 1
  PROVE  Burden(f) <= Burden(r)
<1>0. r \in Rows /\ r.attempts \in Nat
  BY DEF Typed, Rows
<1>1. Burden(r) \in 0..MaxCost /\ Burden(f) \in 0..MaxCost /\ MaxCost \in Nat
  BY <1>0, BurdenTyped, ExperimentsAssumption
<1>2. CASE Rests(r, a, kids, f, b, new) \/ Executed(r, a, kids, f, b, new)
  BY <1>1, <1>2 DEF Rests, Executed
<1>3. CASE Begun(r, a, kids, f, b, new) \/ Removed(r, a, kids, f, b, new) \/ Retried(r, a, kids, f, b, new)
  <2>1. f = NoRow \/ f = Pending \/ f = Again(r.attempts)
    BY <1>3 DEF Begun, Removed, Retried
  <2>2. NoRow.cost = 0 /\ NoRow.status = "absent"
    BY DEF NoRow
  <2>3. Pending.cost = 0 /\ Pending.status = "pending"
    BY DEF Pending, NoRow
  <2>4. Again(r.attempts).cost = 0 /\ Again(r.attempts).status = "pending"
    BY DEF Again, Pending, NoRow
  <2>5. f.cost = 0 /\ f.status \notin InFlight
    BY <2>1, <2>2, <2>3, <2>4 DEF InFlight
  <2>6. Burden(f) = 0
    BY <2>5 DEF Burden
  <2>7. QED
    BY <1>1, <2>6
<1>4. CASE Skipped(r, a, kids, f, b, new)
  <2>1. f.cost = r.cost /\ f.status = "skipped" /\ f.retired = r.retired /\ r.status # "absent" /\ ~r.retired
    BY <1>0, <1>4 DEF Skipped, WithStatus, Rows, InFlight
  <2>2. Burden(f) = r.cost /\ (r.status \in InFlight => Burden(r) = MaxCost)
        /\ (r.status \notin InFlight => Burden(r) = r.cost)
    BY <2>1 DEF Burden, InFlight
  <2>3. QED
    BY <1>1, <2>2
<1>5. CASE Retired(r, a, kids, f, b, new)
  <2>1. f.retired
    BY <1>0, <1>5 DEF Retired, OutOfUse, Rows
  <2>2. QED
    BY <1>1, <2>1 DEF Burden
<1>6. CASE Unlinked(r, a, kids, f, b, new)
  <2>1. f.cost = r.cost /\ f.status = r.status /\ f.retired = r.retired
    BY <1>0, <1>6 DEF Unlinked, Without, Rows
  <2>2. Burden(f) = Burden(r)
    BY <2>1 DEF Burden
  <2>3. QED
    BY <1>1, <2>2
<1>7. CASE Flows(r, a, kids, f, b, new)
  <2>1. r.status \in InFlight /\ ~r.retired
    BY <1>7 DEF Flows, Polled
  <2>2. Burden(r) = MaxCost
    BY <2>1 DEF Burden, InFlight
  <2>3. QED
    BY <1>1, <2>2
<1>8. ~Claimed(r, a, kids, f, b, new)
  BY DEF Claimed
<1>9. QED
  BY <1>2, <1>3, <1>4, <1>5, <1>6, <1>7, <1>8, Zenon DEF CellMove, Goes

\* What has been spent is a number.
LEMMA SpentCounted ==
  ASSUME Types, [Next]_expVars
  PROVE  exp'.spent = exp.spent \/ exp'.spent \in Nat
<1>0. exp \in ExpRow(exp)
  BY DEF Types
<1>1. ASSUME NEW k \in Ticks
      PROVE  Spent(tick[k]) \in Nat
  <2>1. tick[k].live \in SUBSET Cells /\ InView(tick[k], {"running", "evaluating"}) \in SUBSET Cells
    BY <1>1 DEF Types, TickRow, InView
  <2>2. /\ TotalCost([c \in tick[k].live |-> tick[k].view[c].cost]) \in Nat
        /\ TotalCost([c \in InView(tick[k], {"running", "evaluating"}) |-> tick[k].seen[c]]) \in Nat
    BY <2>1, CostCounted
  <2>3. QED
    BY <2>2 DEF Spent
<1>2. ASSUME NEW k \in Ticks, TickStep(k) \/ TickAborts(k)
      PROVE  exp'.spent = exp.spent \/ exp'.spent \in Nat
  <2>1. CASE TickBegin(k)
    BY <1>0, <2>1 DEF TickBegin, ExpRow
  <2>2. CASE TickAborts(k)
    BY <2>2 DEF TickAborts
  <2>3. CASE Claim(k)
    <3>1. exp' = [exp EXCEPT !.spent = Spent(tick[k])]
      BY <2>3 DEF Claim, ClaimAll
    <3>2. QED
      BY <1>0, <1>1, <3>1 DEF ExpRow
  <2>4. CASE Finish(k)
    <3>1. PICK s : exp' = [exp EXCEPT !.spent = Spent(tick[k]), !.status = s]
      BY <2>4 DEF Finish
    <3>2. QED
      BY <1>0, <1>1, <3>1 DEF ExpRow
  <2>5. ASSUME NEW c \in Cells,
               PollPreprocessing(k, c) \/ PollRunning(k, c) \/ PollEvaluating(k, c)
        PROVE  exp'.spent = exp.spent
    BY <2>5 DEF PollPreprocessing, PollRunning, PollEvaluating
  <2>6. QED
    BY <1>2, <2>1, <2>2, <2>3, <2>4, <2>5 DEF TickStep
<1>3. ASSUME NEW c \in Cells, AgentEnds(c) \/ ContainerExits(c) \/ ContainerLost(c) \/ DeleteChild(c)
      PROVE  exp'.spent = exp.spent
  BY <1>3 DEF AgentEnds, ContainerExits, ContainerLost, DeleteChild
<1>4. CASE Start \/ Pause \/ Resume \/ Cancel \/ DeleteExperiment \/ ReportBegins \/ ReportEnds
  BY <1>0, <1>4 DEF Start, Pause, Resume, Cancel, DeleteExperiment, ReportBegins, ReportEnds, ExpRow
<1>5. CASE RetryFailed \/ AddConfig
  <2>1. RetryFailed => exp'.spent = exp.spent
    BY <1>0 DEF RetryFailed, Bumped, ExpRow
  <2>2. AddConfig => exp'.spent = exp.spent
    BY <1>0 DEF AddConfig, Bumped, ExpRow
  <2>3. QED
    BY <1>5, <2>1, <2>2
<1>6. ASSUME NEW g \in Configs, RetireConfig(g)
      PROVE  exp'.spent \in Nat
  <2> DEFINE mine == {c \in Cells : c[1] = g /\ cell[c].status # "absent"}
             rest == Live \ mine
             flying == {c \in rest : cell[c].status \in InFlight /\ cell[c].task # 0}
             n == TotalCost([c \in rest |-> cell[c].cost])
                  + TotalCost([c \in flying |-> child[c][cell[c].task].cost])
             w == exp.retired \cup {g}
  <2>1. \E s : exp' = Bumped([exp EXCEPT !.retired = w, !.spent = n, !.status = s])
    BY <1>6, Zenon DEF RetireConfig
  <2>2. n \in Nat
    <3>1. rest \in SUBSET Cells /\ flying \in SUBSET Cells
      BY DEF Live, LiveOf
    <3> HIDE DEF rest, flying
    <3>2. /\ TotalCost([c \in rest |-> cell[c].cost]) \in Nat
          /\ TotalCost([c \in flying |-> child[c][cell[c].task].cost]) \in Nat
      BY <3>1, CostCounted
    <3>3. QED
      BY <3>2
  <2> HIDE DEF n, w
  <2>3. PICK s : exp' = Bumped([exp EXCEPT !.retired = w, !.spent = n, !.status = s])
    BY <2>1
  <2>4. exp'.spent = n
    BY <1>0, <2>3 DEF Bumped, ExpRow
  <2>5. QED
    BY <2>2, <2>4
<1>7. CASE UNCHANGED expVars
  BY <1>7 DEF expVars
<1>8. QED
  BY <1>2, <1>3, <1>4, <1>5, <1>6, <1>7, Zenon DEF Next

\* A claim is made below the budget, and what is in flight after it is no more than Target.
LEMMA ClaimBudgeted ==
  ASSUME MatrixInv, Exclusive', Types', NEW k \in Ticks, Claim(k), exp'.setup = exp.setup, exp.setup.budget > 0
  PROVE  TotalCost(Burdens') < exp.setup.budget + Target * MaxCost
<1>1. PICK t : t = tick[k]
  OBVIOUS
<1>2. PICK list \in ClaimLists(t) :
      \E broken \in SUBSET {c \in ToSet(list) : c[2] \in External} :
      \E childless \in SUBSET broken : ClaimAll(k, list, broken, childless)
  BY <1>1 DEF Claim
<1>3. PICK broken \in SUBSET {c \in ToSet(list) : c[2] \in External} :
      \E childless \in SUBSET broken : ClaimAll(k, list, broken, childless)
  BY <1>2
<1>4. PICK childless \in SUBSET broken : ClaimAll(k, list, broken, childless)
  BY <1>3
<1>5. Opened(tick[k]) /\ t \in TickRow /\ Types /\ Spent(t) < exp.setup.budget
  <2>1. tick[k].on /\ ~Hit(t)
    BY <1>1 DEF Claim, Decides, Exhausted
  <2>2. Opened(tick[k]) /\ t \in TickRow /\ Types
    BY <1>1, <2>1, OnlyTick DEF MatrixInv, Types
  <2>3. Spent(t) \in Nat /\ exp.setup.budget \in Nat
    <3>1. t.live \in SUBSET Cells /\ InView(t, {"running", "evaluating"}) \in SUBSET Cells
      BY <2>2 DEF TickRow, InView
    <3>2. /\ TotalCost([c \in t.live |-> t.view[c].cost]) \in Nat
          /\ TotalCost([c \in InView(t, {"running", "evaluating"}) |-> t.seen[c]]) \in Nat
      BY <3>1, CostCounted
    <3>3. QED
      BY <2>2, <3>2, Allowance DEF Spent
  <2>4. QED
    BY <2>1, <2>2, <2>3 DEF Hit
<1>6. PICK rows : rows = cell'
  OBVIOUS
<1>7. rows \in [Cells -> Rows] /\ \A c \in Cells : Burden(rows[c]) \in 0..MaxCost
  BY <1>6, BurdenTyped DEF Types
<1>8. PICK some \in SUBSET Cells : some = Flying'
  BY DEF Flying, Live, LiveOf
<1>9. PICK f : f = [c \in Cells |-> Burden(rows[c])]
  OBVIOUS
<1>10. PICK g : g = [c \in t.live |-> t.view[c].cost]
  OBVIOUS
<1>11. ASSUME NEW c \in Cells \ some
       PROVE  f[c] = 0 \/ (c \in DOMAIN g /\ f[c] <= g[c])
  <2>1. Burden(rows[c]) \in {0, rows[c].cost}
    BY <1>6, <1>8 DEF Flying, Live, LiveOf, Burden
  <2>2. rows[c].cost \in Nat
    BY <1>7, ExperimentsAssumption DEF Rows
  <2>3. rows[c] = t.view[c] \/ (c \in t.live /\ rows[c].cost = t.view[c].cost)
    BY <1>1, <1>2, <1>3, <1>4, <1>5, <1>6, ClaimMoves
  <2>4. CASE c \in t.live
    BY <1>9, <1>10, <2>1, <2>2, <2>3, <2>4
  <2>5. CASE c \notin t.live
    <3>1. rows[c] = t.view[c] /\ t.view[c] = cell[c] /\ (cell[c].status = "absent" \/ cell[c].retired)
      BY <1>1, <1>5, <2>3, <2>5 DEF Opened, Pictured
    <3>2. QED
      BY <1>9, <3>1 DEF Burden
  <2>6. QED
    BY <2>4, <2>5
<1>12. DOMAIN f \in SUBSET Cells /\ DOMAIN g \in SUBSET Cells
  BY <1>5, <1>9, <1>10 DEF TickRow
<1>13. \A c \in DOMAIN f : f[c] \in Nat
  BY <1>7, <1>9, ExperimentsAssumption
<1>14. \A c \in DOMAIN g : g[c] \in Nat
  BY <1>5, <1>10, ExperimentsAssumption DEF TickRow, Rows
<1>15. TotalCost(f) <= TotalCost(g) + Cardinality(some) * MaxCost
  <2>1. \A c \in (DOMAIN f) \ some : f[c] = 0 \/ (c \in DOMAIN g /\ f[c] <= g[c])
    BY <1>9, <1>11
  <2>2. QED
    BY <1>12, <1>13, <1>14, <2>1, CostWithin
<1>16. Cardinality(some) \in Nat /\ Cardinality(some) <= Target
  <2>1. Target' = Target
    BY DEF Target, Serial, Lanes, External
  <2>2. QED
    BY <1>8, <2>1, PartsFinite DEF Exclusive
<1>17. Cardinality(some) * MaxCost <= Target * MaxCost
  BY <1>5, <1>16, Allowance
<1>18. TotalCost(g) < exp.setup.budget
  <2>1. PICK h : h = [c \in InView(t, {"running", "evaluating"}) |-> t.seen[c]]
    OBVIOUS
  <2>2. DOMAIN h \in SUBSET Cells
    BY <1>5, <2>1 DEF InView, TickRow
  <2>3. Spent(t) = TotalCost(g) + TotalCost(h)
    BY <1>10, <2>1 DEF Spent
  <2>4. TotalCost(g) \in Nat /\ TotalCost(h) \in Nat /\ exp.setup.budget \in Nat
    BY <1>5, <1>12, <2>2, CostCounted, Allowance
  <2>5. QED
    BY <1>5, <2>3, <2>4
<1>19. Burdens' = f
  BY <1>6, <1>9 DEF Burdens
<1>20. PICK m : m = Cardinality(some) * MaxCost
  OBVIOUS
<1>21. PICK q \in Nat : q = Target * MaxCost
  BY <1>5, Allowance
<1>22. m \in Nat
  BY <1>16, <1>20, ExperimentsAssumption
<1>23. TotalCost(f) \in Nat /\ TotalCost(g) \in Nat /\ exp.setup.budget \in Nat
  BY <1>5, <1>12, CostCounted, Allowance
<1>24. TotalCost(f) < exp.setup.budget + q
  BY <1>15, <1>17, <1>18, <1>20, <1>21, <1>22, <1>23
<1>25. QED
  BY <1>19, <1>21, <1>24

\* Whatever else happens, no cell becomes a greater burden.
LEMMA OtherwiseBudgeted ==
  ASSUME Undisturbed, MatrixInv, [Next]_expVars, \A k \in Ticks : ~Claim(k)
  PROVE  TotalCost(Burdens') <= TotalCost(Burdens)
<1>0. Types /\ Types'
  BY TypesStep DEF MatrixInv
<1>1. (\A d \in Cells : At(CellMove, d)) \/ (\A d \in Cells : At(Removed, d))
  BY MatrixStep
<1>2. PICK rows : rows = cell'
  OBVIOUS
<1>3. ASSUME NEW c \in Cells
      PROVE  Burden(rows[c]) <= Burden(cell[c]) /\ Burden(rows[c]) \in Nat /\ Burden(cell[c]) \in Nat
  <2>1. /\ Typed(cell[c], ledger[c], child[c])
        /\ \/ CellMove(cell[c], ledger[c], child[c], cell'[c], ledger'[c], child'[c])
           \/ Removed(cell[c], ledger[c], child[c], cell'[c], ledger'[c], child'[c])
    BY <1>0, <1>1 DEF Types, Typed, At
  <2>2. cell'[c].attempts # cell[c].attempts + 1
    BY <1>0, OnlyClaimsCount
  <2>3. cell[c] \in Rows /\ rows[c] \in Rows /\ rows[c] = cell'[c]
    BY <1>0, <1>2 DEF Types
  <2>4. Burden(rows[c]) <= Burden(cell[c])
    BY <2>1, <2>2, <2>3, BurdenFalls
  <2>5. QED
    BY <2>3, <2>4, BurdenTyped, ExperimentsAssumption
<1>4. PICK f : f = [c \in Cells |-> Burden(rows[c])]
  OBVIOUS
<1>5. PICK g : g = [c \in Cells |-> Burden(cell[c])]
  OBVIOUS
<1>6. PICK some \in SUBSET Cells : some = {}
  OBVIOUS
<1>7. DOMAIN f \in SUBSET Cells /\ DOMAIN g \in SUBSET Cells
  BY <1>4, <1>5
<1>8. TotalCost(f) <= TotalCost(g) + Cardinality(some) * MaxCost
  <2>1. /\ \A c \in DOMAIN f : f[c] \in Nat
        /\ \A c \in DOMAIN g : g[c] \in Nat
        /\ \A c \in (DOMAIN f) \ some : f[c] = 0 \/ (c \in DOMAIN g /\ f[c] <= g[c])
    BY <1>3, <1>4, <1>5
  <2>2. QED
    BY <1>7, <2>1, CostWithin
<1>9. Cardinality(some) * MaxCost = 0
  BY <1>6, FS_EmptySet, ExperimentsAssumption
<1>10. TotalCost(f) \in Nat /\ TotalCost(g) \in Nat
  BY <1>7, CostCounted
<1>11. Burdens' = f /\ Burdens = g
  BY <1>2, <1>4, <1>5 DEF Burdens
<1>12. QED
  BY <1>8, <1>9, <1>10, <1>11

\* A cell has cost no more than the burden it is.
LEMMA BurdenCovers ==
  ASSUME MatrixInv, Budgeted
  PROVE  BudgetHeld
<1>0. Types
  BY DEF MatrixInv
<1>1. PICK f : f = [c \in Live |-> IF cell[c].status \in InFlight /\ cell[c].task # 0
                                    THEN child[c][cell[c].task].cost ELSE cell[c].cost]
  OBVIOUS
<1>2. PICK g : g = Burdens
  OBVIOUS
<1>3. PICK some \in SUBSET Cells : some = {}
  OBVIOUS
<1>4. ASSUME NEW c \in Live
      PROVE  f[c] \in Nat /\ f[c] <= g[c] /\ c \in Cells
  <2>1. c \in Cells /\ cell[c] \in Rows /\ cell[c].status # "absent" /\ ~cell[c].retired
    BY <1>0 DEF Types, Live, LiveOf
  <2>2. g[c] = (IF cell[c].status \in InFlight THEN MaxCost ELSE cell[c].cost)
    BY <1>2, <2>1 DEF Burdens, Burden
  <2>3. cell[c].cost \in 0..MaxCost
    BY <2>1 DEF Rows
  <2>4. cell[c].task # 0 => child[c][cell[c].task].cost \in 0..MaxCost
    <3>1. child[c] \in Seq(Child) /\ cell[c].task \in 0..Len(child[c])
      BY <1>0, <2>1 DEF Types
    <3>2. cell[c].task # 0 => child[c][cell[c].task] \in Child
      <4>1. cell[c].task # 0 => cell[c].task \in 1..Len(child[c])
        BY <3>1, LenProperties
      <4>2. QED
        BY <3>1, <4>1, ElementOfSeq
    <3>3. QED
      BY <3>2 DEF Child
  <2>5. f[c] = (IF cell[c].status \in InFlight /\ cell[c].task # 0
                THEN child[c][cell[c].task].cost ELSE cell[c].cost)
    BY <1>1
  <2>6. QED
    BY <2>1, <2>2, <2>3, <2>4, <2>5, ExperimentsAssumption
<1>5. DOMAIN f = Live /\ DOMAIN g = Cells /\ Live \in SUBSET Cells
  BY <1>1, <1>2 DEF Burdens, Live, LiveOf
<1>6. \A c \in DOMAIN g : g[c] \in Nat
  BY <1>0, <1>2, BurdenTyped, ExperimentsAssumption DEF Burdens, Types
<1>7. TotalCost(f) <= TotalCost(g) + Cardinality(some) * MaxCost
  <2>1. /\ \A c \in DOMAIN f : f[c] \in Nat
        /\ \A c \in (DOMAIN f) \ some : f[c] = 0 \/ (c \in DOMAIN g /\ f[c] <= g[c])
    BY <1>4, <1>5
  <2>2. QED
    BY <1>5, <1>6, <2>1, CostWithin
<1>8. Cardinality(some) * MaxCost = 0
  BY <1>3, FS_EmptySet, ExperimentsAssumption
<1>9. TotalCost(f) \in Nat /\ TotalCost(g) \in Nat
  BY <1>5, CostCounted
<1>10. PICK q \in Nat : q = Target * MaxCost
  BY <1>0, Allowance
<1>11. exp.setup.budget > 0 => TotalCost(f) < exp.setup.budget + Target * MaxCost
  <2>1. exp.setup.budget \in Nat
    BY <1>0, Allowance
  <2>2. exp.setup.budget > 0 => TotalCost(g) < exp.setup.budget + q
    BY <1>2, <1>10 DEF Budgeted
  <2>3. TotalCost(f) <= TotalCost(g)
    BY <1>7, <1>8, <1>9
  <2>4. exp.setup.budget > 0 => TotalCost(f) < exp.setup.budget + q
    BY <1>9, <2>1, <2>2, <2>3
  <2>5. QED
    BY <1>10, <2>4
<1>12. QED
  BY <1>1, <1>11 DEF BudgetHeld, Budgeted

\* The limits a user set hold: on databases, on lanes, on cells in parallel, and on the
\* budget, which the spend exceeds by no more than what was in flight when it was reached
\* (advance_experiment, its roll-up of costs and the slots it counts).
THEOREM LimitsAreHeld ==
  ASSUME Undisturbed
  PROVE  Spec => []LimitsHeld
<1>1. Init => Budgeted
  <2> SUFFICES ASSUME Init PROVE Budgeted
    OBVIOUS
  <2>1. Types
    BY TypesInit
  <2>2. exp.spent = 0
    BY DEF Init
  <2>3. PICK f : f = Burdens
    OBVIOUS
  <2>4. Units(f) = {}
    <3>1. \A c \in Cells : f[c] = 0
      BY <2>3, RowsMade DEF Init, Burdens, Burden
    <3>2. ASSUME NEW u \in Units(f) PROVE FALSE
      <4>1. u[1] \in Cells /\ u[2] \in 1..MaxCost /\ u[2] <= f[u[1]]
        BY <2>3 DEF Units, Burdens
      <4>2. QED
        BY <3>1, <4>1, ExperimentsAssumption
    <3>3. QED
      BY <3>2
  <2>5. DOMAIN f \in SUBSET Cells
    BY <2>3 DEF Burdens
  <2>6. TotalCost(Burdens) = 0
    BY <2>3, <2>4, <2>5, CostCounted, FS_EmptySet
  <2>7. PICK q \in Nat : q = Target * MaxCost
    BY <2>1, Allowance
  <2>8. exp.setup.budget \in Nat
    BY <2>1, Allowance
  <2>9. exp.setup.budget > 0 => 0 < exp.setup.budget + q
    BY <2>7, <2>8
  <2>10. QED
    BY <2>2, <2>6, <2>7, <2>9 DEF Budgeted
<1>2. MatrixInv /\ Exclusive /\ Budgeted /\ [Next]_expVars => Budgeted'
  <2> SUFFICES ASSUME MatrixInv, Exclusive, Budgeted, [Next]_expVars PROVE Budgeted'
    OBVIOUS
  <2>1. Types /\ Types' /\ exp'.setup = exp.setup /\ Exclusive'
    BY TypesStep, SetupStays, ExclusiveStep DEF MatrixInv
  <2>2. exp'.spent \in Nat
    BY <2>1, SpentCounted DEF Budgeted
  <2>3. (Target * MaxCost)' = Target * MaxCost
    BY <2>1 DEF Target, Serial, Lanes, External
  <2>4. ASSUME exp.setup.budget > 0
        PROVE  TotalCost(Burdens') < exp.setup.budget + Target * MaxCost
    <3>1. CASE \E k \in Ticks : Claim(k)
      BY <2>1, <2>4, <3>1, ClaimBudgeted
    <3>2. CASE \A k \in Ticks : ~Claim(k)
      <4>1. TotalCost(Burdens') <= TotalCost(Burdens)
        BY <3>2, OtherwiseBudgeted
      <4>2. TotalCost(Burdens) < exp.setup.budget + Target * MaxCost
        BY <2>4 DEF Budgeted
      <4>3. PICK q \in Nat : q = Target * MaxCost
        BY <2>1, Allowance
      <4>4. exp.setup.budget \in Nat
        BY <2>1, Allowance
      <4>5. TotalCost(Burdens) \in Nat
        BY CostCounted DEF Burdens
      <4>6. TotalCost(Burdens') \in Nat
        <5>1. PICK f : f = Burdens'
          OBVIOUS
        <5>2. DOMAIN f \in SUBSET Cells
          BY <5>1 DEF Burdens
        <5>3. QED
          BY <5>1, <5>2, CostCounted
      <4>7. QED
        BY <4>1, <4>2, <4>3, <4>4, <4>5, <4>6
    <3>3. QED
      BY <3>1, <3>2
  <2>5. TotalCost(Burdens)' = TotalCost(Burdens')
    BY DEF TotalCost
  <2>6. QED
    BY <2>1, <2>2, <2>3, <2>4, <2>5 DEF Budgeted
<1>3. MatrixInv /\ Budgeted => BudgetHeld
  BY BurdenCovers
<1>4. Spec => []BudgetHeld
  BY <1>1, <1>2, <1>3, ExclusiveInit, ExclusiveStep, MatrixInvariant, PTL DEF Spec
<1>5. QED
  BY <1>4, DatabasesExclusive, PTL DEF LimitsHeld

=============================================================================
