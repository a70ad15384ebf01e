---------------------------- MODULE PentestModes ----------------------------
(***************************************************************************)
(* The scan modes of the pentest orchestrator and the phase plan each one  *)
(* yields (pentest_modes.py and orchestrator.py).  Only the switches that  *)
(* decide control are kept: request and payload limits belong to           *)
(* RequestBudget.                                                          *)
(***************************************************************************)
EXTENDS Naturals, Sequences

PHASE_ORDER ==
  << "init", "ownership_verification", "environment_check", "scoping",
     "cve_ingestion", "mapping", "dependency_scan", "pattern_scan",
     "threat_learning", "auth_attack", "injection_attack",
     "zero_day_hunting", "custom_exploit", "hiddenlayer_scan",
     "openshell_audit", "nim_analysis", "gpt_evidence_review",
     "attestation", "complete" >>

Phase == { PHASE_ORDER[i] : i \in 1 .. Len(PHASE_ORDER) }

(* Coarse phase shown in the run's row: 1 scoping, 2 mapping, 3 attacking,  *)
(* 4 attested (PHASE_TO_PENTEST_PHASE).                                     *)
PentestPhaseOf(p) ==
  CASE p \in {"init", "ownership_verification", "environment_check",
              "scoping", "cve_ingestion"}                          -> 1
    [] p \in {"mapping", "dependency_scan", "pattern_scan",
              "threat_learning"}                                   -> 2
    [] p \in {"attestation", "complete"}                           -> 4
    [] OTHER                                                       -> 3

Mode == {"quick", "standard", "full", "targeted", "pre_release", "continuous"}

LiveAttacks == {"auth_attack", "injection_attack", "custom_exploit",
                "zero_day_hunting"}
SourceScans == {"dependency_scan", "pattern_scan"}
Intelligence == {"cve_ingestion", "threat_learning"}
Audits == {"hiddenlayer_scan", "openshell_audit", "nim_analysis"}

Config(runs, gate, ownership, timeout) ==
  [runs |-> runs, gate |-> gate, ownership |-> ownership, environment |-> ownership,
   blockProduction |-> FALSE, timeout |-> timeout, maxRun |-> 1800]

ModeConfig(mode) ==
  LET everything == LiveAttacks \cup SourceScans \cup Intelligence \cup Audits
  IN CASE mode = "quick"       -> Config(SourceScans, FALSE, FALSE, 60)
       [] mode = "standard"    -> Config(everything, TRUE, FALSE, 300)
       [] mode = "full"        -> Config(everything, TRUE, FALSE, 900)
       [] mode = "targeted"    ->
            Config(LiveAttacks \cup {"openshell_audit", "nim_analysis"},
                   TRUE, FALSE, 180)
       [] mode = "pre_release" -> Config(everything, TRUE, TRUE, 600)
       [] mode = "continuous"  -> Config(everything, FALSE, TRUE, 1800)

(* AgentOrchestrator.plan_phases: mandatory phases and, between them, the   *)
(* ones the mode switches on, in the order the method appends them.         *)
PlanPhases(config) ==
  LET When(condition, p) == IF condition THEN <<p>> ELSE << >>
      If(p)              == When(p \in config.runs, p)
  IN <<"init">> \o When(config.ownership, "ownership_verification")
     \o When(config.environment, "environment_check")
     \o <<"scoping">> \o If("cve_ingestion") \o <<"mapping">>
     \o If("dependency_scan") \o If("pattern_scan") \o If("threat_learning")
     \o If("auth_attack") \o If("injection_attack") \o If("zero_day_hunting")
     \o If("custom_exploit") \o If("hiddenlayer_scan") \o If("openshell_audit")
     \o If("nim_analysis")
     \o <<"gpt_evidence_review", "attestation", "complete">>
=============================================================================
