---------------------------- MODULE ReleaseGate -----------------------------
(***************************************************************************)
(* What a gated pentest run promises to whoever decides on a release: a    *)
(* run is decided at most once, on all the evidence it ever collects, and  *)
(* a run that is closed or has failed is not decided afterwards.           *)
(***************************************************************************)
VARIABLES status, verdict, evidence

gateVars == <<status, verdict, evidence>>

GateInit == status = "queued" /\ verdict = "pending" /\ evidence = FALSE

Begin ==
  /\ status = "queued"
  /\ status' = "running"
  /\ UNCHANGED <<verdict, evidence>>

(* Evidence arrives only while the run is open and undecided.               *)
Collect ==
  /\ status = "running" /\ verdict = "pending"
  /\ evidence' = TRUE
  /\ UNCHANGED <<status, verdict>>

Decide ==
  /\ status = "running" /\ verdict = "pending"
  /\ status' = "completed"
  /\ verdict' = IF evidence THEN "BLOCKED" ELSE "SAFE"
  /\ UNCHANGED evidence

CloseUndecided ==
  /\ status = "running" /\ verdict = "pending"
  /\ status' = "completed"
  /\ UNCHANGED <<verdict, evidence>>

Fail ==
  /\ status' = "failed"
  /\ UNCHANGED <<verdict, evidence>>

GateNext == Begin \/ Collect \/ Decide \/ CloseUndecided \/ Fail

GateSpec == GateInit /\ [][GateNext]_gateVars
=============================================================================
