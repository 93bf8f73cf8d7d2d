-------------------------- MODULE MCAttemptJournal --------------------------
(* Small instances of AttemptJournal: event identifiers are numbers, and    *)
(* the clashing records below share a sequence number or an identifier.     *)
EXTENDS AttemptJournal

CONSTANTS abort, feedback, c1, c2

Started == [id |-> 0, kind |-> "run.started", status |-> "none"]
Item(i) == [id |-> i, kind |-> "record", status |-> "none"]
Finish(i, s) == [id |-> i, kind |-> "run.finished", status |-> s]

ManyBodies == {Started, Item(1), Item(2), Finish(2, "success"), Finish(2, "cancelled")}
=============================================================================
