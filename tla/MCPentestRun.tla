---------------------------- MODULE MCPentestRun ----------------------------
(* Instances of PentestRun for TLC: the plans and gates of the real modes.  *)
EXTENDS PentestRun

MCPlan  == [m \in Modes |-> PlanPhases(ModeConfig(m))]
MCGated == [m \in Modes |-> ModeConfig(m).gate]
MCTimeoutSpendsBudget ==
  [m \in Modes |-> ModeConfig(m).timeout >= ModeConfig(m).maxRun]
=============================================================================
