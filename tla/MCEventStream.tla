--------------------------- MODULE MCEventStream ----------------------------
(* Instances of EventStream for TLC: the run's thread publishes one event   *)
(* before run_completed, every other thread a single one.                   *)
EXTENDS EventStream

MCQuota == [p \in Publishers |-> IF p = Driver THEN 2 ELSE 1]
=============================================================================
