---------------------------- MODULE MCTaskWorkflow ----------------------------
(* Small instances of TaskWorkflow.                                          *)
EXTENDS TaskWorkflow

CONSTANTS e1, e2

OneTask == {0}
TwoTasks == {0, 1}
ThreeTasks == {0, 1, 2}
=============================================================================
