----------------------------- MODULE Experiments -----------------------------
(***************************************************************************)
(* The matrix runner: an experiment is a set of configurations times a set *)
(* of frozen cases, one row (cell) for each pair, executed by child tasks. *)
(* A tick reads the live rows once, polls what is in flight, and claims or *)
(* finalises; it runs in the scheduler and once in the request that starts *)
(* the experiment.  Users pause, cancel, retry, add and retire in between. *)
(*                                                                         *)
(* The session of a tick does not expire its rows at a commit: the tick    *)
(* goes on with the picture it took at its start (view), its own changes   *)
(* (dirty) reach the table at a commit, attribute by attribute, and what   *)
(* others committed since is not read again.                               *)
(***************************************************************************)
EXTENDS Integers, FiniteSets, FiniteSetsExt, Sequences, SequencesExt

CONSTANTS
  MaxConfigs,   \* configuration keys ever handed out
  Cases,        \* case and run index, numbered
  Costs,        \* what an agent may have spent when it ends
  MaxCost,      \* and what an execution may cost at most, its judges included
  Setups,       \* what an experiment may be created with, see Setup
  Ticks,        \* who advances: "sched", and "api" in the starting request
  Requests,     \* kinds of user requests
  Overlapping   \* kinds that may arrive between two steps of a tick

\* The frozen cases, those of them that a container prepares and those that an
\* executable check judges; the isolated databases (0: the shared one), the
\* smaller of the executor's and the experiment's limit, the budget (0: none),
\* and how many configurations there are at creation.  requests and faults bound
\* the users and the failures.
Setup == [cases : SUBSET Cases, external : SUBSET Cases, checked : SUBSET Cases,
          lanes : Nat, parallel : Nat \ {0}, budget : Nat, initial : 1..MaxConfigs,
          requests : Nat, faults : Nat]

ASSUME ExperimentsAssumption ==
  /\ MaxConfigs \in Nat /\ MaxCost \in Nat /\ Costs \subseteq 0..MaxCost
  /\ Cases \subseteq Nat /\ IsFiniteSet(Cases)
  /\ Setups \subseteq Setup
  /\ \A s \in Setups : s.checked \subseteq s.external /\ s.external \subseteq s.cases

VARIABLES
  exp,       \* the experiment's row
  cell,      \* the committed rows of its cells
  ledger,    \* cell -> indices archived in the attempt ledger
  child,     \* cell -> its tasks, oldest first
  box,       \* cell -> the preprocess or check container the row polls
  tick,      \* who advances -> the state of its tick
  reading,   \* the report request under way
  requests, faults

expVars == <<exp, cell, ledger, child, box, tick, reading, requests, faults>>

Configs == 1..MaxConfigs
Cells == Configs \X Cases
ExpTerminal == {"completed", "capped", "failed", "cancelled"}
InFlight == {"preprocessing", "running", "evaluating"}
CellSettled == {"success", "failed", "skipped"}
ChildTerminal == {"success", "failed"}

External == exp.setup.external
Checked == exp.setup.checked
Lanes == exp.setup.lanes
Serial == External # {} /\ Lanes = 0
Target ==
  IF Serial THEN 1
  ELSE IF Lanes > 0 THEN Min({Lanes, exp.setup.parallel}) ELSE exp.setup.parallel

NoRow ==
  [status |-> "absent", task |-> 0, attempts |-> 0, retired |-> FALSE, lane |-> 0,
   retried |-> FALSE, verdict |-> "none", cost |-> 0]
Pending == [NoRow EXCEPT !.status = "pending"]
Idle == [on |-> FALSE, live |-> {}, view |-> [c \in Cells |-> NoRow], todo |-> {},
         ended |-> [c \in Cells |-> "none"], seen |-> [c \in Cells |-> 0], dirty |-> {}]

LiveOf(rows) == {c \in Cells : rows[c].status # "absent" /\ ~rows[c].retired}
Live == LiveOf(cell)
LiveConfigs == exp.configs \ exp.retired
Current(c) == IF cell[c].task = 0 THEN "none" ELSE child[c][cell[c].task].status

Init ==
  /\ \E s \in Setups :
       exp = [setup |-> s, status |-> "draft", configs |-> 1..s.initial, retired |-> {},
              revision |-> 1, spent |-> 0, due |-> FALSE,
              report |-> [revision |-> 0, rows |-> {}]]
  /\ cell = [c \in Cells |-> NoRow]
  /\ ledger = [c \in Cells |-> {}]
  /\ child = [c \in Cells |-> <<>>]
  /\ box = [c \in Cells |-> "none"]
  /\ tick = [k \in Ticks |-> Idle]
  /\ reading = [on |-> FALSE, revision |-> 0, rows |-> {}]
  /\ requests = 0 /\ faults = 0

(***************************************************************************)
(* The tick                                                                *)
(***************************************************************************)
MayBegin(k) ==
  IF k = "api" THEN exp.due ELSE exp.status = "running"

TickBegin(k) ==
  /\ ~tick[k].on /\ MayBegin(k)
  /\ \/ "tick" \in Overlapping
     \/ \A j \in Ticks : ~tick[j].on /\ (exp.due => k = "api")
  /\ exp' = IF k = "api" THEN [exp EXCEPT !.due = FALSE] ELSE exp
  /\ tick' = [tick EXCEPT ![k] =
       [on |-> TRUE, live |-> Live, view |-> cell,
        todo |-> {c \in Live : cell[c].status \in InFlight},
        ended |-> [c \in Cells |-> Current(c)],
        seen |-> [c \in Cells |-> IF cell[c].task = 0 THEN 0 ELSE child[c][cell[c].task].cost],
        dirty |-> {}]]
  /\ UNCHANGED <<cell, ledger, child, box, reading, requests, faults>>

\* A commit writes what the polls changed: status, retried, verdict and cost.
Flushed(t, rows) ==
  [c \in Cells |->
     IF c \in t.dirty
     THEN [rows[c] EXCEPT !.status = t.view[c].status, !.retried = t.view[c].retried,
                          !.verdict = t.view[c].verdict, !.cost = t.view[c].cost]
     ELSE rows[c]]

\* Mutant: the child of a failed preprocess stays in the backlog.
MutOrphanLingers(t) ==
  [c \in Cells |->
     IF /\ c \in t.dirty /\ t.view[c].task # 0 /\ t.view[c].status = "running"
        /\ child[c][t.view[c].task].status = "backlog"
     THEN [child[c] EXCEPT ![t.view[c].task].status = "ready"] ELSE child[c]]

\* Mutant: the child is never released.
MutNeverReleased(t) == child

\* With it the child held back for the preprocess is released, or fails with it.
Released(t) ==
  [c \in Cells |->
     IF /\ c \in t.dirty /\ t.view[c].task # 0
        /\ child[c][t.view[c].task].status = "backlog"
        /\ t.view[c].status \in {"running", "failed"}
     THEN [child[c] EXCEPT ![t.view[c].task].status =
             IF t.view[c].status = "running" THEN "ready" ELSE "failed"]
     ELSE child[c]]

Write(k, c, row) ==
  tick' = [tick EXCEPT ![k].view[c] = row, ![k].dirty = @ \cup {c}, ![k].todo = @ \ {c}]
Pass(k, c) == tick' = [tick EXCEPT ![k].todo = @ \ {c}]

\* Rows preparing first, then running, then evaluating, each in table order.
PollOrder(k, c) ==
  LET rank == [s \in InFlight |->
                 IF s = "preprocessing" THEN 0 ELSE IF s = "running" THEN 1 ELSE 2]
      Before(d) ==
        \/ rank[tick[k].view[d].status] < rank[tick[k].view[c].status]
        \/ /\ tick[k].view[d].status = tick[k].view[c].status
           /\ (d[1] < c[1]) \/ (d[1] = c[1] /\ d[2] < c[2])
  IN  /\ tick[k].on /\ c \in tick[k].todo
      /\ \A d \in tick[k].todo \ {c} : ~Before(d)

\* Mutant: a cell that could not be prepared is simply claimed again.
MutPreprocessAgain(k, c) ==
  /\ box' = [box EXCEPT ![c] = "none"]
  /\ Write(k, c, [tick[k].view[c] EXCEPT !.status = "pending"])

PreprocessFails(k, c) ==
  /\ box' = [box EXCEPT ![c] = "none"]
  /\ Write(k, c, [tick[k].view[c] EXCEPT !.status = "failed"])

Prepared(k, c) ==
  Write(k, c, [tick[k].view[c] EXCEPT
                 !.status = IF tick[k].view[c].task = 0 THEN "failed" ELSE "running"])

PollPreprocessing(k, c) ==
  LET row == tick[k].view[c] IN
  /\ PollOrder(k, c) /\ row.status = "preprocessing"
  /\ \/ box[c] = "none" /\ PreprocessFails(k, c) /\ UNCHANGED faults
     \/ box[c] = "preparing" /\ Pass(k, c) /\ UNCHANGED <<box, faults>>
     \/ box[c] = "preparing" /\ Prepared(k, c) /\ UNCHANGED <<box, faults>>  \* a mock server
     \/ box[c] = "prepared" /\ Prepared(k, c) /\ box' = [box EXCEPT ![c] = "none"]
        /\ UNCHANGED faults
     \/ box[c] = "quirk" /\ ~row.retried
        /\ Write(k, c, [row EXCEPT !.retried = TRUE])
        /\ box' = [box EXCEPT ![c] = "preparing"] /\ UNCHANGED faults
     \/ box[c] = "quirk" /\ ~row.retried /\ faults < exp.setup.faults /\ faults' = faults + 1
        /\ PreprocessFails(k, c)
     \/ (box[c] = "broken" \/ (box[c] = "quirk" /\ row.retried))
        /\ PreprocessFails(k, c) /\ UNCHANGED faults
  /\ UNCHANGED <<exp, cell, ledger, child, reading, requests>>

\* The evaluations of a finished child commit what earlier polls changed; the
\* settlement of this row is written after them, with what the judges cost.
Settle(k, c, verdict) ==
  LET t == tick[k]
      row == t.view[c]
      done(w) == [row EXCEPT !.status = IF t.ended[c] = "success" THEN "success" ELSE "failed",
                             !.verdict = verdict, !.cost = w]
  IN  /\ box' = [box EXCEPT ![c] = "none"]
      /\ IF row.task = 0
         THEN /\ Write(k, c, [row EXCEPT !.status = "failed", !.verdict = verdict])
              /\ UNCHANGED <<cell, child>>
         ELSE /\ cell' = Flushed(t, cell) /\ child' = Released(t)
              /\ \E w \in t.seen[c]..MaxCost :
                   tick' = [tick EXCEPT ![k].view[c] = done(w), ![k].dirty = {c},
                                        ![k].todo = @ \ {c}]

PollRunning(k, c) ==
  LET t == tick[k] row == t.view[c] IN
  /\ PollOrder(k, c) /\ row.status = "running"
  /\ \/ /\ row.task = 0 /\ Write(k, c, [row EXCEPT !.status = "failed"])
        /\ UNCHANGED <<cell, child, box, faults>>
     \/ /\ row.task # 0 /\ t.ended[c] \notin ChildTerminal
        /\ Pass(k, c) /\ UNCHANGED <<cell, child, box, faults>>
     \/ /\ t.ended[c] \in ChildTerminal /\ c[2] \in Checked
        /\ box' = [box EXCEPT ![c] = "checking"]
        /\ Write(k, c, [row EXCEPT !.status = "evaluating"])
        /\ UNCHANGED <<cell, child, faults>>
     \/ /\ t.ended[c] \in ChildTerminal /\ c[2] \in Checked
        /\ faults < exp.setup.faults /\ faults' = faults + 1
        /\ Settle(k, c, "none")
     \/ /\ t.ended[c] \in ChildTerminal /\ c[2] \notin Checked
        /\ Settle(k, c, "none") /\ UNCHANGED faults
  /\ UNCHANGED <<exp, ledger, reading, requests>>

PollEvaluating(k, c) ==
  /\ PollOrder(k, c) /\ tick[k].view[c].status = "evaluating"
  /\ \/ box[c] = "checking" /\ Pass(k, c) /\ UNCHANGED <<cell, child, box>>
     \/ box[c] = "none" /\ Settle(k, c, "none")
     \/ box[c] \in {"pass", "fail"} /\ Settle(k, c, box[c])
  /\ UNCHANGED <<exp, ledger, reading, requests, faults>>

InView(t, statuses) == {c \in t.live : t.view[c].status \in statuses}

\* The sum of what cells have cost, one unit after the other.
TotalCost(cost) == Cardinality({u \in (DOMAIN cost) \X (1..MaxCost) : u[2] <= cost[u[1]]})

\* Settled rows carry their cost, those in flight what their child had spent.
Spent(t) ==
  TotalCost([c \in t.live |-> t.view[c].cost])
  + TotalCost([c \in InView(t, {"running", "evaluating"}) |-> t.seen[c]])

\* Mutant: the budget itself is still spent from.
MutHitLate(t) == exp.setup.budget > 0 /\ Spent(t) > exp.setup.budget

Hit(t) == exp.setup.budget > 0 /\ Spent(t) >= exp.setup.budget
Slots(t) ==
  LET n == Target - Cardinality(InView(t, InFlight)) IN IF n > 0 THEN n ELSE 0

\* One cell after the other, from the configuration with the fewest in flight,
\* then the least progress, then the first key; within it the first case.
Better(t, picked, c, d) ==
  LET Load(g) == Cardinality({e \in InView(t, InFlight) \cup picked : e[1] = g})
      Moved(g) == Cardinality({e \in (t.live \ InView(t, {"pending"})) \cup picked : e[1] = g})
      Less(m, n, rest) == m < n \/ (m = n /\ rest)
  IN  Less(Load(c[1]), Load(d[1]),
        Less(Moved(c[1]), Moved(d[1]), Less(c[1], d[1], c[2] < d[2])))

ClaimLists(t) ==
  LET pending == InView(t, {"pending"})
      n == Min({Slots(t), Cardinality(pending)})
  IN  {list \in [1..n -> pending] : \A i \in 1..n :
         LET picked == {list[j] : j \in 1..(i - 1)} IN
         /\ list[i] \notin picked
         /\ \A d \in pending \ (picked \cup {list[i]}) : Better(t, picked, list[i], d)}

\* Mutant: lanes in use are not skipped.
MutLaneInUse(t, list, i) == IF Lanes = 0 \/ list[i][2] \notin External THEN 0 ELSE 1

\* The i-th prepared cell of the list takes the i-th lane that is free.
LaneOf(t, list, i) ==
  LET free == (1..Lanes) \ {t.view[c].lane : c \in InView(t, InFlight)}
      before == Cardinality({j \in 1..i : list[j][2] \in External})
  IN  IF Lanes = 0 \/ list[i][2] \notin External THEN 0
      ELSE CHOOSE l \in free : Cardinality({m \in free : m <= l}) = before

\* Mutant: the number of a task whose creation was rolled back.
MutRowOfLostTask(t, list, i, broken, childless) ==
  LET c == list[i] IN
  [t.view[c] EXCEPT !.status = IF c \in broken THEN "failed"
                               ELSE IF c[2] \in External THEN "preprocessing" ELSE "running",
                    !.task = Len(child[c]) + 1, !.lane = LaneOf(t, list, i), !.attempts = @ + 1]

ClaimedRow(t, list, i, broken, childless) ==
  LET c == list[i] IN
  [t.view[c] EXCEPT
     !.status = IF c \in broken THEN "failed"
                ELSE IF c[2] \in External THEN "preprocessing" ELSE "running",
     !.task = IF c \in childless THEN 0 ELSE Len(child[c]) + 1,
     !.lane = LaneOf(t, list, i),
     !.attempts = @ + 1]

Children(c, broken, childless) ==
  IF c \in childless THEN child[c]
  ELSE Append(child[c],
         [tag |-> "live", cost |-> 0,
          status |-> IF c \in broken THEN "failed"
                     ELSE IF c[2] \in External THEN "backlog" ELSE "ready"])

\* broken cells could not be prepared; the childless ones have not even a task.
ClaimAll(k, list, broken, childless) ==
  LET t == tick[k]
      claimed == ToSet(list)
      at(c) == CHOOSE i \in DOMAIN list : list[i] = c
  IN  /\ faults + Cardinality(broken) <= exp.setup.faults
      /\ faults' = faults + Cardinality(broken)
      /\ cell' = [c \in Cells |-> IF c \in claimed
                                 THEN ClaimedRow(t, list, at(c), broken, childless)
                                 ELSE Flushed(t, cell)[c]]
      /\ child' = [c \in Cells |-> IF c \in claimed THEN Children(c, broken, childless)
                                  ELSE Released(t)[c]]
      /\ box' = [c \in Cells |-> IF c \in claimed /\ c[2] \in External
                                THEN IF c \in broken THEN "none" ELSE "preparing"
                                ELSE box[c]]
      /\ exp' = [exp EXCEPT !.spent = Spent(t)]
      /\ tick' = [tick EXCEPT ![k] = Idle]
      /\ UNCHANGED <<ledger, reading, requests>>

Decides(k) == tick[k].on /\ tick[k].todo = {} /\ exp.status # "deleted"
Exhausted(t) == Hit(t) \/ Slots(t) = 0 \/ InView(t, {"pending"}) = {}

Claim(k) ==
  /\ Decides(k) /\ ~Exhausted(tick[k])
  /\ \E list \in ClaimLists(tick[k]) :
     \E broken \in SUBSET {c \in ToSet(list) : c[2] \in External} :
     \E childless \in SUBSET broken : ClaimAll(k, list, broken, childless)

Verdict(rows, live) ==
  IF \E c \in live : rows[c].status = "skipped" THEN "capped"
  ELSE IF \E c \in live : rows[c].status = "success" THEN "completed" ELSE "failed"

\* Nothing to claim: the budget skips what is pending, and with nothing in
\* flight either the experiment ends.
Finish(k) ==
  LET t == tick[k]
      pending == InView(t, {"pending"})
      over == [t EXCEPT !.view = [c \in Cells |->
                 IF Hit(t) /\ c \in pending THEN [t.view[c] EXCEPT !.status = "skipped"]
                 ELSE t.view[c]],
                        !.dirty = IF Hit(t) THEN @ \cup pending ELSE @]
      ends == InView(t, InFlight) = {} /\ InView(over, {"pending"}) = {}
  IN  /\ Decides(k) /\ Exhausted(t)
      /\ cell' = Flushed(over, cell)
      /\ child' = Released(over)
      /\ exp' = [exp EXCEPT !.spent = Spent(t),
                            !.status = IF ends THEN Verdict(over.view, t.live) ELSE @]
      /\ tick' = [tick EXCEPT ![k] = Idle]
      /\ UNCHANGED <<ledger, box, reading, requests, faults>>

\* The process dies, or an error rolls the session back: what was not committed
\* is gone, but a container a poll had removed stays removed.
TickAborts(k) ==
  /\ tick[k].on /\ faults < exp.setup.faults /\ faults' = faults + 1
  /\ tick' = [tick EXCEPT ![k] = Idle]
  /\ \/ UNCHANGED box
     \/ \E c \in Cells : PollOrder(k, c) /\ box' = [box EXCEPT ![c] = "none"]
  /\ UNCHANGED <<exp, cell, ledger, child, reading, requests>>

(***************************************************************************)
(* Agents and containers                                                   *)
(***************************************************************************)
AgentEnds(c) ==
  /\ \E i \in DOMAIN child[c], s \in ChildTerminal, w \in Costs :
       /\ child[c][i].status = "ready"
       /\ child' = [child EXCEPT ![c][i].status = s, ![c][i].cost = w]
  /\ UNCHANGED <<exp, cell, ledger, box, tick, reading, requests, faults>>

ContainerExits(c) ==
  /\ \/ box[c] = "preparing" /\ \E s \in {"prepared", "quirk", "broken"} : box' = [box EXCEPT ![c] = s]
     \/ box[c] = "checking" /\ \E s \in {"pass", "fail"} : box' = [box EXCEPT ![c] = s]
  /\ UNCHANGED <<exp, cell, ledger, child, tick, reading, requests, faults>>

ContainerLost(c) ==
  /\ box[c] # "none" /\ faults < exp.setup.faults /\ faults' = faults + 1
  /\ box' = [box EXCEPT ![c] = "none"]
  /\ UNCHANGED <<exp, cell, ledger, child, tick, reading, requests>>

(***************************************************************************)
(* Requests of users                                                       *)
(***************************************************************************)
Asks(kind) ==
  /\ kind \in Requests /\ exp.status # "deleted"
  /\ kind \in Overlapping \/ ((\A k \in Ticks : ~tick[k].on) /\ ~exp.due)
  /\ requests < exp.setup.requests /\ requests' = requests + 1
  /\ UNCHANGED <<tick, reading, faults>>

\* Mutant: the report is dropped and the revision stays.
MutSameRevision(e) == [e EXCEPT !.report = [revision |-> 0, rows |-> {}]]

\* Every mutation moves the revision and drops the cached report.
Bumped(e) == [e EXCEPT !.revision = @ + 1, !.report = [revision |-> 0, rows |-> {}]]

\* The starting request advances the experiment itself, once.
Start ==
  /\ exp.status = "draft"
  /\ exp' = [exp EXCEPT !.status = "running", !.due = "api" \in Ticks]
  /\ cell' = [c \in Cells |-> IF c[1] \in LiveConfigs /\ c[2] \in exp.setup.cases
                             THEN Pending ELSE cell[c]]
  /\ UNCHANGED <<ledger, child, box, tick, reading, requests, faults>>

Pause ==
  /\ Asks("pause") /\ exp.status = "running"
  /\ exp' = [exp EXCEPT !.status = "paused"]
  /\ UNCHANGED <<cell, ledger, child, box>>

Resume ==
  /\ Asks("resume") /\ exp.status = "paused"
  /\ exp' = [exp EXCEPT !.status = "running"]
  /\ UNCHANGED <<cell, ledger, child, box>>

\* The agents of these cells are killed where the container runtime can.
Kill(cells) ==
  \E killed \in SUBSET {c \in cells : Current(c) = "ready"} :
    child' = [c \in Cells |-> IF c \in killed
                             THEN [child[c] EXCEPT ![cell[c].task].status = "failed"]
                             ELSE child[c]]

Cancel ==
  LET open == {c \in Live : cell[c].status \notin CellSettled} IN
  /\ Asks("cancel") /\ exp.status \notin ExpTerminal
  /\ exp' = [exp EXCEPT !.status = "cancelled"]
  /\ cell' = [c \in Cells |-> IF c \in open THEN [cell[c] EXCEPT !.status = "skipped"] ELSE cell[c]]
  /\ box' = [c \in Cells |-> IF c \in open THEN "none" ELSE box[c]]
  /\ Kill({c \in open : cell[c].status \in {"running", "evaluating"}})
  /\ UNCHANGED ledger

\* Mutant: executions numbered from zero.
MutSnapshotFromZero(c) ==
  IF cell[c].attempts = 0 THEN ledger[c] ELSE ledger[c] \cup {cell[c].attempts - 1}

\* A cell that was never claimed leaves nothing; the rest is archived once.
Snapshot(c) == IF cell[c].attempts = 0 THEN ledger[c] ELSE ledger[c] \cup {cell[c].attempts}

\* Mutant: a superseded task keeps the experiment's tag.
MutKeepTag(c, seq) == seq

RetiredTag(c, seq) ==
  IF cell[c].task = 0 THEN seq ELSE [seq EXCEPT ![cell[c].task].tag = "retired"]

RetryFailed ==
  LET again == {c \in Live : cell[c].status = "failed"} IN
  /\ Asks("retry") /\ exp.status \in ExpTerminal \cup {"paused"}
  /\ again # {}
  /\ exp' = Bumped([exp EXCEPT !.status = "running"])
  /\ cell' = [c \in Cells |-> IF c \in again
                             THEN [Pending EXCEPT !.attempts = cell[c].attempts]
                             ELSE cell[c]]
  /\ ledger' = [c \in Cells |-> IF c \in again THEN Snapshot(c) ELSE ledger[c]]
  /\ child' = [c \in Cells |-> IF c \in again THEN RetiredTag(c, child[c]) ELSE child[c]]
  /\ box' = [c \in Cells |-> IF c \in again THEN "none" ELSE box[c]]

\* Mutant: an experiment that has ended is not opened again.
MutAddStaysEnded ==
  LET g == Cardinality(exp.configs) + 1 IN
  /\ Asks("add") /\ exp.status # "draft" /\ g \in Configs
  /\ exp' = Bumped([exp EXCEPT !.configs = @ \cup {g}])
  /\ cell' = [c \in Cells |-> IF c[1] = g /\ c[2] \in exp.setup.cases THEN Pending ELSE cell[c]]
  /\ UNCHANGED <<ledger, child, box>>

AddConfig ==
  LET g == Cardinality(exp.configs) + 1 IN
  /\ Asks("add") /\ exp.status # "draft" /\ g \in Configs
  /\ exp' = Bumped([exp EXCEPT !.configs = @ \cup {g},
                               !.status = IF @ \in ExpTerminal THEN "running" ELSE @])
  /\ cell' = [c \in Cells |-> IF c[1] = g /\ c[2] \in exp.setup.cases
                             THEN Pending ELSE cell[c]]
  /\ UNCHANGED <<ledger, child, box>>

\* The rows stay with their lineage; what they had in flight has failed, and
\* the experiment's spend and verdict are those of the rows that remain.
RetireConfig(g) ==
  LET mine == {c \in Cells : c[1] = g /\ cell[c].status # "absent"}
      rest == Live \ mine
      flying == {c \in rest : cell[c].status \in InFlight /\ cell[c].task # 0}
  IN  /\ Asks("retire") /\ exp.status # "running"
      /\ g \in LiveConfigs /\ Cardinality(LiveConfigs) > 1
      /\ cell' = [c \in Cells |-> IF c \in mine
                   THEN [cell[c] EXCEPT !.retired = TRUE,
                                        !.status = IF @ \in InFlight THEN "failed" ELSE @]
                   ELSE cell[c]]
      /\ ledger' = [c \in Cells |-> IF c \in mine THEN Snapshot(c) ELSE ledger[c]]
      /\ \E killed \in SUBSET {c \in mine : cell[c].status \in {"running", "evaluating"}
                                            /\ Current(c) = "ready"} :
           child' = [c \in Cells |->
             IF c \in killed
             THEN RetiredTag(c, [child[c] EXCEPT ![cell[c].task].status = "failed"])
             ELSE IF c \in mine THEN RetiredTag(c, child[c]) ELSE child[c]]
      /\ box' = [c \in Cells |-> IF c \in mine THEN "none" ELSE box[c]]
      /\ exp' = Bumped([exp EXCEPT
           !.retired = @ \cup {g},
           !.spent = TotalCost([c \in rest |-> cell[c].cost])
                     + TotalCost([c \in flying |-> child[c][cell[c].task].cost]),
           !.status = IF @ \notin ExpTerminal \/ rest = {}
                         \/ \E c \in rest : cell[c].status \in InFlight \cup {"pending"}
                      THEN @ ELSE Verdict(cell, rest)])

\* Rows and ledger go with the experiment; its tasks stay.
DeleteExperiment ==
  /\ Asks("delete") /\ exp.status # "running"
  /\ exp' = [exp EXCEPT !.status = "deleted"]
  /\ cell' = [c \in Cells |-> NoRow]
  /\ ledger' = [c \in Cells |-> {}]
  /\ UNCHANGED <<child, box>>

\* A child that waits for its preprocess can be deleted like any backlog task.
DeleteChild(c) ==
  /\ Asks("delete_child") /\ Current(c) = "backlog"
  /\ child' = [child EXCEPT ![c][cell[c].task].status = "gone"]
  /\ cell' = [cell EXCEPT ![c].task = 0]
  /\ UNCHANGED <<exp, ledger, box>>

(***************************************************************************)
(* The report: read, and cached once the experiment has ended              *)
(***************************************************************************)
Counted == {<<c, cell[c].status, cell[c].verdict>> : c \in Live}
Served == exp.status \in ExpTerminal /\ exp.report.revision = exp.revision

\* The report of an experiment that has not ended is computed and not kept.
ReportBegins ==
  /\ "report" \in Requests /\ ~reading.on /\ exp.status \in ExpTerminal /\ ~Served
  /\ requests < exp.setup.requests /\ requests' = requests + 1
  /\ reading' = [on |-> TRUE, revision |-> exp.revision, rows |-> Counted]
  /\ UNCHANGED <<exp, cell, ledger, child, box, tick, faults>>

ReportEnds ==
  /\ reading.on
  /\ \E rows \in {reading.rows, Counted} :
       exp' = IF exp.status # "deleted"
              THEN [exp EXCEPT !.report = [revision |-> reading.revision, rows |-> rows]]
              ELSE exp
  /\ reading' = [on |-> FALSE, revision |-> 0, rows |-> {}]
  /\ UNCHANGED <<cell, ledger, child, box, tick, requests, faults>>

TickStep(k) ==
  \/ TickBegin(k) \/ Claim(k) \/ Finish(k)
  \/ \E c \in Cells : PollPreprocessing(k, c) \/ PollRunning(k, c) \/ PollEvaluating(k, c)

Next ==
  \/ \E k \in Ticks : TickStep(k) \/ TickAborts(k)
  \/ \E c \in Cells : AgentEnds(c) \/ ContainerExits(c) \/ ContainerLost(c) \/ DeleteChild(c)
  \/ Start \/ Pause \/ Resume \/ Cancel \/ RetryFailed \/ AddConfig
  \/ (\E g \in Configs : RetireConfig(g)) \/ DeleteExperiment
  \/ ReportBegins \/ ReportEnds

Spec == Init /\ [][Next]_expVars

\* The scheduler keeps ticking, the starting request goes on, and as long as
\* there are agents and containers one of them ends.
Fairness ==
  /\ \A k \in Ticks : WF_expVars(TickStep(k))
  /\ WF_expVars(\E c \in Cells : AgentEnds(c) \/ ContainerExits(c))

FairSpec == Spec /\ Fairness

(***************************************************************************)
(* Properties                                                              *)
(***************************************************************************)
Rows == [status : {"absent", "pending"} \cup InFlight \cup CellSettled, task : Nat,
         attempts : Nat, retired : BOOLEAN, lane : Nat, retried : BOOLEAN,
         verdict : {"none", "pass", "fail"}, cost : 0..MaxCost]

\* Types, and a child number names a child.
TypeOK ==
  /\ exp.status \in {"draft", "running", "paused", "deleted"} \cup ExpTerminal
  /\ exp.setup \in Setups /\ exp.configs \subseteq Configs /\ exp.retired \subseteq exp.configs
  /\ exp.revision \in Nat /\ exp.due \in BOOLEAN
  /\ cell \in [Cells -> Rows]
  /\ ledger \in [Cells -> SUBSET Nat]
  /\ \A c \in Cells : cell[c].task \in 0..Len(child[c])
  /\ box \in [Cells -> {"none", "preparing", "prepared", "quirk", "broken", "checking", "pass", "fail"}]
  /\ requests \in 0..exp.setup.requests /\ faults \in 0..exp.setup.faults

\* Whether the row itself shows an execution, in select_runs.
HoldsExecution(c) == cell[c].task # 0 \/ cell[c].status # "pending"

\* Mutant: a row is always taken for the last execution.
MutSuperseded(c) == {i \in ledger[c] : i < cell[c].attempts}

\* select_runs: the executions counted from the ledger beside the rows, and the
\* one that stands for a cell when first attempts are asked for.
Superseded(c) == {i \in ledger[c] : i < cell[c].attempts \/ ~HoldsExecution(c)}
FirstAttempt(c) == IF ledger[c] = {} THEN cell[c].attempts ELSE Min(ledger[c])

\* No execution is lost: whatever a cell went through before its present
\* execution is in the ledger, even though a retry clears the row
\* (retry_failed_experiment, remove_config_from_experiment, advance_experiment).
\* Of all attempts each is counted once, by the row or from the ledger; only a cell
\* that was reset and skipped before it was claimed again shows nothing in its row.
LedgerComplete ==
  \A c \in Cells :
    /\ ledger[c] \subseteq 1..cell[c].attempts
    /\ 1..(cell[c].attempts - 1) \subseteq ledger[c]
    /\ cell[c].status = "pending" \/ cell[c].retired => ledger[c] = 1..cell[c].attempts
    /\ cell[c].attempts > 0 =>
         LET shown == IF HoldsExecution(c) THEN {cell[c].attempts} ELSE {} IN
         /\ Superseded(c) \cup shown = 1..cell[c].attempts /\ Superseded(c) \cap shown = {}
         /\ FirstAttempt(c) = 1
         /\ ~cell[c].retired /\ cell[c].attempts \in ledger[c] =>
              cell[c].task = 0 /\ cell[c].status \in {"pending", "skipped"}

\* The tasks tagged as the experiment's are those its live rows point to, so
\* that counting by tag and counting by row give one population.
OnePopulation ==
  exp.status # "deleted" =>
    \A c \in Cells : \A i \in DOMAIN child[c] :
      (child[c][i].tag = "live" /\ child[c][i].status # "gone")
        <=> (i = cell[c].task /\ ~cell[c].retired)

\* A cell never has two agents at work, whatever was retried or cancelled.
OneAgentPerCell ==
  \A c \in Cells : Cardinality({i \in DOMAIN child[c] : child[c][i].status \in {"backlog", "ready"}}) <= 1

\* Every cell has one task that counts and at most one agent at work.
OneTaskPerCell == OnePopulation /\ OneAgentPerCell

\* An experiment that has ended leaves no live cell behind that nobody will
\* advance, and a retired cell is never left in flight.
NothingStranded ==
  /\ exp.status \in ExpTerminal => \A c \in Live : cell[c].status \in CellSettled
  /\ \A c \in Cells : cell[c].retired => cell[c].status \notin InFlight

\* Prepared cells in flight never share a database: one at a time without
\* lanes, each in a lane of its own with them; and never more than allowed.
DatabaseExclusive ==
  LET flying == {c \in Live : cell[c].status \in InFlight} IN
  /\ Cardinality(flying) <= exp.setup.parallel
  /\ Serial => Cardinality(flying) <= 1
  /\ Lanes > 0 => \A c, d \in flying : c # d /\ c[2] \in External /\ d[2] \in External
                                         => cell[c].lane # cell[d].lane

\* What the live cells have cost exceeds the budget by what was in flight when
\* it was reached, and by no more: less than as many cells as are permitted may cost.
BudgetHeld ==
  /\ exp.spent \in Nat
  /\ exp.setup.budget > 0 =>
       TotalCost([c \in Live |-> IF cell[c].status \in InFlight /\ cell[c].task # 0
                             THEN child[c][cell[c].task].cost ELSE cell[c].cost])
         < exp.setup.budget + Target * MaxCost

\* The limits a user set hold: databases, lanes, parallel cells and budget.
LimitsHeld == DatabaseExclusive /\ BudgetHeld

\* A report served from the cache counts the cells as they are now.
ServedReportCurrent == Served => exp.report.rows = Counted

\* A running experiment is not left running: it ends, or a user stops it.
ExperimentSettles == exp.status = "running" ~> exp.status # "running"

\* The runner keeps what CellLifecycle promises of every cell.
Lifecycle == INSTANCE CellLifecycle WITH
  phase <- [c \in Cells |->
    IF cell[c].status = "pending" THEN "waiting"
    ELSE IF cell[c].status \in InFlight THEN "executing" ELSE cell[c].status],
  count <- [c \in Cells |-> cell[c].attempts]

CellsKeepLifecycle == Lifecycle!CellSpec

=============================================================================
