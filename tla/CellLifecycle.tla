----------------------------- MODULE CellLifecycle -----------------------------
(***************************************************************************)
(* What the matrix runner promises of one cell: every execution settles    *)
(* before the next one is asked for, a superseded execution is in the      *)
(* attempt ledger before the row is used again, and a success is never     *)
(* rewritten.  Cells move independently, several of them in one step.      *)
(***************************************************************************)
EXTENDS Integers

CONSTANT Cells

VARIABLES
  phase,  \* cell -> absent, waiting, executing, or how the execution settled
  count,  \* cell -> executions so far, the current one included
  ledger  \* cell -> numbers of the executions that were archived

cellVars == <<phase, count, ledger>>

Settled == {"success", "failed", "skipped"}
Phases == {"absent", "waiting", "executing"} \cup Settled

Init ==
  /\ phase = [c \in Cells |-> "absent"]
  /\ count = [c \in Cells |-> 0]
  /\ ledger = [c \in Cells |-> {}]

Archived(c) == IF count[c] = 0 THEN ledger[c] ELSE ledger[c] \cup {count[c]}

Stays(c) == phase'[c] = phase[c] /\ count'[c] = count[c] /\ ledger'[c] = ledger[c]

\* The row is created, or deleted with its ledger.
Appears(c) == phase[c] = "absent" /\ phase'[c] = "waiting" /\ count'[c] = 0 /\ ledger'[c] = {}
Disappears(c) == phase'[c] = "absent" /\ count'[c] = 0 /\ ledger'[c] = {}

\* An execution that cannot be started has failed at once.
Executes(c) ==
  /\ phase[c] = "waiting" /\ phase'[c] \in {"executing", "failed"}
  /\ count'[c] = count[c] + 1 /\ ledger'[c] = ledger[c]

Settles(c) ==
  /\ phase[c] \in {"waiting", "executing"}
  /\ phase'[c] \in (IF phase[c] = "waiting" THEN {"skipped"} ELSE Settled)
  /\ count'[c] = count[c] /\ ledger'[c] = ledger[c]

\* Only a failed execution is asked for again.
Requeues(c) ==
  /\ phase[c] = "failed" /\ phase'[c] = "waiting"
  /\ count'[c] = count[c] /\ ledger'[c] = Archived(c)

\* Retired: what is under way has failed, and what there was is archived.
Retires(c) ==
  /\ phase[c] # "absent"
  /\ phase'[c] = IF phase[c] = "executing" THEN "failed" ELSE phase[c]
  /\ count'[c] = count[c] /\ ledger'[c] = Archived(c)

CellStep(c) ==
  Stays(c) \/ Appears(c) \/ Disappears(c) \/ Executes(c) \/ Settles(c) \/ Requeues(c) \/ Retires(c)

CellNext ==
  /\ phase' \in [Cells -> Phases]
  /\ count' \in [Cells -> Nat]
  /\ ledger' \in [Cells -> SUBSET (Nat \ {0})]
  /\ \A c \in Cells : CellStep(c)

CellSpec == Init /\ [][CellNext]_cellVars
=============================================================================
