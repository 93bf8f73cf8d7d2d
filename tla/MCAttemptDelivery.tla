-------------------------- MODULE MCAttemptDelivery --------------------------
(* Small instances of AttemptDelivery.                                       *)
EXTENDS AttemptDelivery

CONSTANTS abort, feedback, c1

Records == RunnerBodies
=============================================================================
