-------------------------- MODULE PentestRunProofs --------------------------
(***************************************************************************)
(* Proofs about PentestRun: whatever the plans and gates are, as long as   *)
(* they satisfy PlanAssumption, the inductive invariant RunInv holds, and  *)
(* with it the properties of a verdict that a release decision rests on.   *)
(***************************************************************************)
EXTENDS PentestRun, TLAPS

(* A plan maps its positions to phases.                                    *)
LEMMA PlanPositions ==
  ASSUME mode \in Modes
  PROVE  /\ Len(plan) \in Nat
         /\ \A i \in 1 .. Len(plan) : plan[i] \in Phase
BY PlanAssumption DEF plan

(* Two positions of a plan hold different phases, and what follows the     *)
(* attestation is "complete".                                              *)
LEMMA PlanOrder ==
  ASSUME mode \in Modes,
         NEW i \in 1 .. Len(plan), NEW j \in 1 .. Len(plan)
  PROVE  /\ plan[i] = plan[j] => i = j
         /\ i < j /\ plan[i] = "attestation" => plan[j] = "complete"
<1>1. i < j \/ j < i \/ i = j
  BY PlanPositions
<1>2. QED BY <1>1, PlanAssumption DEF plan

LEMMA CoarsePhase == \A p : PentestPhaseOf(p) \in 1 .. 4
BY DEF PentestPhaseOf

(* Writing one column at a time keeps a row a row.                          *)
LEMMA RowColumns ==
  ASSUME NEW r \in Row, NEW s \in Statuses, NEW p, NEW e \in BOOLEAN
  PROVE  /\ [r EXCEPT !.status = s, !.error = e] \in Row
         /\ [r EXCEPT !.phase = PentestPhaseOf(p), !.error = e] \in Row
BY CoarsePhase DEF Row

(* Initially nothing has been recorded, started or read.                   *)
LEMMA InitRunInv == Init => RunInv
<1> SUFFICES ASSUME Init PROVE RunInv
  OBVIOUS
<1>1. TypeOK
  <2>1. /\ mode \in Modes /\ entry \in Entries /\ pc \in PCs /\ index \in Nat \ {0}
        /\ outcome \in Outcomes /\ zombies \in SUBSET Phase /\ found \in SUBSET Sources
        /\ signed \in {"none", "SAFE", "BLOCKED"} /\ faults \in Nat
    BY DEF Init, PCs, Outcomes
  <2>2. raised \in BOOLEAN /\ late \in BOOLEAN
    BY Zenon DEF Init
  <2>3. results \in [Phase -> Outcomes]
    BY DEF Init, Outcomes
  <2>4. att \in [step : {"idle", "read", "signed", "committed"}, dirty : BOOLEAN]
    BY DEF Init
  <2>5. row \in Row
    BY DEF Init, Row, Statuses, Verdicts
  <2>6. announced \in [status : Statuses, verdict : Verdicts] \cup {NoEvent}
    BY DEF Init
  <2>7. QED BY <2>1, <2>2, <2>3, <2>4, <2>5, <2>6 DEF TypeOK
<1>2. IndexInv
  BY PlanPositions DEF Init, IndexInv
<1>3. FreshInv
  BY PlanPositions DEF Init, FreshInv
<1>4. GateInv
  BY DEF Init, GateInv
<1>5. ZombieInv
  BY DEF Init, ZombieInv
<1>6. AttestationInv
  BY DEF Init, AttestationInv
<1>7. CleanInv
  BY DEF Init, CleanInv
<1>8. QED BY <1>1, <1>2, <1>3, <1>4, <1>5, <1>6, <1>7 DEF RunInv

(* Once the attestation has started, the handler under way is neither a    *)
(* scan nor an attack.                                                     *)
LEMMA NoFinderAfterAttestation ==
  ASSUME TypeOK, IndexInv, AttestationInv, att.step # "idle",
         index \in 1 .. Len(plan)
  PROVE  current \notin Finders
<1>1. Reached("attestation")
  BY DEF AttestationInv
<1>2. PICK i \in 1 .. Len(plan) : plan[i] = "attestation" /\ i <= index
  BY <1>1, PlanPositions DEF Reached, TypeOK
<1>3. current \in {"attestation", "complete"}
  <2>1. CASE i = index
    BY <2>1, <1>2 DEF current
  <2>2. CASE i < index
    BY <2>2, <1>2, PlanOrder DEF current, TypeOK
  <2>3. QED BY <2>1, <2>2, <1>2, PlanPositions DEF TypeOK
<1>4. QED BY <1>3 DEF Finders, SourceScans, LiveAttacks

(* Every writer of the run's row keeps it a row.                            *)
LEMMA RowTypeStep ==
  ASSUME RunInv, [Next]_vars
  PROVE  row' \in Row
<1>1. CASE BeginPhase
  BY <1>1, RowColumns DEF BeginPhase, RunInv, TypeOK, Statuses
<1>2. CASE HandlerStarts \/ MarkFailed \/ FinalizeRun
  BY <1>2, RowColumns DEF HandlerStarts, MarkFailed, FinalizeRun, RunInv,
     TypeOK, Statuses
<1>3. CASE CommitVerdict
  BY <1>3, CoarsePhase DEF CommitVerdict, RunInv, TypeOK, Row, Statuses,
     Verdicts, VerdictOf
<1>4. CASE StartExecution \/ DeadlineExceeded \/ HandlerReturns \/
     HandlerSwallowsError \/ HandlerRaises \/ HandlerTimesOut \/ RecordPhase
     \/ LoopEnds \/ Close \/ ReadEvidence \/ SignVerdict
  BY <1>4 DEF StartExecution, DeadlineExceeded, HandlerReturns,
     HandlerSwallowsError, HandlerRaises, HandlerTimesOut, RecordPhase,
     LoopEnds, Close, ReadEvidence, SignVerdict, RunInv, TypeOK
<1>5. CASE JoinExecutor \/ JoinExpires \/ BuildResponse \/ (\E p \in Phase :
     HandlerFinds(p)) \/ (\E p \in Phase : ZombieEnds(p)) \/ DeadlinePasses
     \/ StoreRaises \/ InitUpdateRaises \/ Crash
  BY <1>5 DEF JoinExecutor, JoinExpires, BuildResponse, HandlerFinds,
     ZombieEnds, DeadlinePasses, StoreRaises, InitUpdateRaises, Crash,
     RunInv, TypeOK, control, evidence
<1>6. CASE Stopped \/ UNCHANGED vars
  BY <1>6 DEF Stopped, RunInv, TypeOK, vars
<1>7. QED
  BY <1>1, <1>2, <1>3, <1>4, <1>5, <1>6 DEF Next, Orchestrator,
     Attestation, Driver

(* The driving thread's variables stay in their types.                      *)
LEMMA ControlTypeStep ==
  ASSUME RunInv, [Next]_vars
  PROVE  /\ mode' \in Modes /\ entry' \in Entries /\ pc' \in PCs
         /\ index' \in Nat \ {0} /\ outcome' \in Outcomes /\ faults' \in Nat
         /\ announced' \in [status : Statuses, verdict : Verdicts] \cup {NoEvent}
<1>1. CASE StartExecution \/ BeginPhase \/ DeadlineExceeded \/ HandlerStarts
     \/ HandlerReturns
  BY <1>1 DEF StartExecution, BeginPhase, DeadlineExceeded, HandlerStarts,
     HandlerReturns, RunInv, TypeOK, PCs, Outcomes
<1>2. CASE HandlerSwallowsError \/ HandlerRaises \/ HandlerTimesOut \/
     RecordPhase \/ LoopEnds \/ Close
  BY <1>2 DEF HandlerSwallowsError, HandlerRaises, HandlerTimesOut,
     RecordPhase, LoopEnds, Close, RunInv, TypeOK, PCs, Outcomes
<1>3. CASE ReadEvidence \/ SignVerdict \/ CommitVerdict \/ DeadlinePasses \/
     (\E p \in Phase : HandlerFinds(p)) \/ (\E p \in Phase : ZombieEnds(p))
  BY <1>3 DEF ReadEvidence, SignVerdict, CommitVerdict, DeadlinePasses,
     HandlerFinds, ZombieEnds, RunInv, TypeOK, control
<1>4. CASE JoinExecutor \/ JoinExpires \/ MarkFailed \/ FinalizeRun \/
     BuildResponse
  BY <1>4 DEF JoinExecutor, JoinExpires, MarkFailed, FinalizeRun,
     BuildResponse, RunInv, TypeOK, PCs, LeaveRun, Row
<1>5. CASE StoreRaises \/ InitUpdateRaises \/ Crash
  BY <1>5 DEF StoreRaises, InitUpdateRaises, Crash, RunInv, TypeOK, PCs,
     Outcomes
<1>6. CASE Stopped \/ UNCHANGED vars
  BY <1>6 DEF Stopped, RunInv, TypeOK, vars
<1>7. QED
  BY <1>1, <1>2, <1>3, <1>4, <1>5, <1>6 DEF Next, Orchestrator,
     Attestation, Driver

(* The two flags stay Boolean.                                              *)
LEMMA FlagTypeStep ==
  ASSUME RunInv, [Next]_vars
  PROVE  raised' \in BOOLEAN /\ late' \in BOOLEAN
<1>1. CASE StartExecution \/ BeginPhase \/ DeadlineExceeded \/ HandlerStarts
     \/ HandlerReturns \/ HandlerSwallowsError
  BY <1>1, Zenon DEF StartExecution, BeginPhase, DeadlineExceeded,
     HandlerStarts, HandlerReturns, HandlerSwallowsError, RunInv, TypeOK
<1>2. CASE HandlerRaises \/ HandlerTimesOut \/ RecordPhase \/ LoopEnds \/
     Close
  BY <1>2, ConstantsAssumption, Zenon DEF HandlerRaises, HandlerTimesOut,
     RecordPhase, LoopEnds, Close, RunInv, TypeOK
<1>3. CASE ReadEvidence \/ SignVerdict \/ CommitVerdict \/ DeadlinePasses \/
     (\E p \in Phase : HandlerFinds(p)) \/ (\E p \in Phase : ZombieEnds(p))
  BY <1>3, Zenon DEF ReadEvidence, SignVerdict, CommitVerdict,
     DeadlinePasses, HandlerFinds, ZombieEnds, RunInv, TypeOK, control
<1>4. CASE JoinExecutor \/ JoinExpires \/ MarkFailed \/ FinalizeRun \/
     BuildResponse
  BY <1>4, Zenon DEF JoinExecutor, JoinExpires, MarkFailed, FinalizeRun,
     BuildResponse, RunInv, TypeOK
<1>5. CASE StoreRaises \/ InitUpdateRaises \/ Crash
  BY <1>5, Zenon DEF StoreRaises, InitUpdateRaises, Crash, RunInv, TypeOK
<1>6. CASE Stopped \/ UNCHANGED vars
  BY <1>6, Zenon DEF Stopped, RunInv, TypeOK, vars
<1>7. QED
  BY <1>1, <1>2, <1>3, <1>4, <1>5, <1>6 DEF Next, Orchestrator,
     Attestation, Driver

(* So do the recorded results, the findings and what the attestation holds. *)
LEMMA EvidenceTypeStep ==
  ASSUME RunInv, [Next]_vars
  PROVE  /\ results' \in [Phase -> Outcomes] /\ zombies' \in SUBSET Phase
         /\ found' \in SUBSET Sources
         /\ att' \in [step : {"idle", "read", "signed", "committed"}, dirty : BOOLEAN]
         /\ signed' \in {"none", "SAFE", "BLOCKED"}
<1>1. CASE StartExecution \/ BeginPhase \/ DeadlineExceeded \/ HandlerStarts
     \/ HandlerReturns \/ HandlerSwallowsError \/ HandlerRaises \/ LoopEnds
     \/ Close
  BY <1>1 DEF StartExecution, BeginPhase, DeadlineExceeded, HandlerStarts,
     HandlerReturns, HandlerSwallowsError, HandlerRaises, LoopEnds, Close,
     RunInv, TypeOK, evidence
<1>2. CASE HandlerTimesOut
  BY <1>2, PlanPositions DEF HandlerTimesOut, RunInv, TypeOK, evidence,
     current, IndexInv
<1>3. CASE RecordPhase
  BY <1>3 DEF RecordPhase, RunInv, TypeOK, evidence
<1>4. CASE ReadEvidence
  BY <1>4 DEF ReadEvidence, RunInv, TypeOK
<1>5. CASE SignVerdict \/ CommitVerdict
  BY <1>5 DEF SignVerdict, CommitVerdict, RunInv, TypeOK, VerdictOf
<1>6. CASE (\E p \in Phase : HandlerFinds(p))
  BY <1>6 DEF HandlerFinds, RunInv, TypeOK, Source, Sources
<1>7. CASE DeadlinePasses \/ (\E p \in Phase : ZombieEnds(p))
  BY <1>7 DEF DeadlinePasses, ZombieEnds, RunInv, TypeOK, evidence
<1>8. CASE JoinExecutor \/ JoinExpires \/ MarkFailed \/ FinalizeRun \/
     BuildResponse
  BY <1>8 DEF JoinExecutor, JoinExpires, MarkFailed, FinalizeRun,
     BuildResponse, RunInv, TypeOK, evidence
<1>9. CASE StoreRaises
  BY <1>9 DEF StoreRaises, RunInv, TypeOK, evidence
<1>10. CASE InitUpdateRaises \/ Crash
  BY <1>10 DEF InitUpdateRaises, Crash, RunInv, TypeOK, evidence
<1>11. CASE Stopped \/ UNCHANGED vars
  BY <1>11 DEF Stopped, RunInv, TypeOK, vars
<1>12. QED
  BY <1>1, <1>2, <1>3, <1>4, <1>5, <1>6, <1>7, <1>8, <1>9, <1>10, <1>11
     DEF Next, Orchestrator, Attestation, Driver

(* Every step keeps the variables in their types.                          *)
LEMMA TypeStep ==
  ASSUME RunInv, [Next]_vars
  PROVE  TypeOK'
BY RowTypeStep, ControlTypeStep, FlagTypeStep, EvidenceTypeStep DEF TypeOK

(* The loop only moves forward: it stays in the phase it is in, or enters   *)
(* the next one, and a phase whose handler was started is not restarted.    *)
LEMMA ControlStep ==
  ASSUME RunInv, [Next]_vars
  PROVE  /\ mode' = mode
         /\ index' \in {index, index + 1}
         /\ index' = index /\ pc' \in {"prepared", "top", "submitted"}
              => pc \in {"prepared", "top", "submitted"}
<1>1. CASE StartExecution \/ BeginPhase \/ DeadlineExceeded \/ HandlerStarts
     \/ HandlerReturns \/ HandlerSwallowsError
  BY <1>1 DEF StartExecution, BeginPhase, DeadlineExceeded, HandlerStarts,
     HandlerReturns, HandlerSwallowsError, RunInv, TypeOK, IndexInv
<1>2. CASE HandlerRaises \/ HandlerTimesOut \/ LoopEnds \/ Close
  BY <1>2 DEF HandlerRaises, HandlerTimesOut, LoopEnds, Close, RunInv,
     TypeOK, IndexInv
<1>3. CASE RecordPhase
  BY <1>3 DEF RecordPhase, RunInv, TypeOK, IndexInv
<1>4. CASE ReadEvidence \/ SignVerdict \/ CommitVerdict \/ DeadlinePasses \/
     (\E p \in Phase : HandlerFinds(p)) \/ (\E p \in Phase : ZombieEnds(p))
  BY <1>4 DEF ReadEvidence, SignVerdict, CommitVerdict, DeadlinePasses,
     HandlerFinds, ZombieEnds, RunInv, TypeOK, IndexInv, control, evidence
<1>5. CASE JoinExecutor \/ JoinExpires \/ MarkFailed \/ FinalizeRun \/
     BuildResponse
  BY <1>5 DEF JoinExecutor, JoinExpires, MarkFailed, FinalizeRun,
     BuildResponse, RunInv, TypeOK, IndexInv, LeaveRun
<1>6. CASE StoreRaises \/ InitUpdateRaises \/ Crash
  BY <1>6 DEF StoreRaises, InitUpdateRaises, Crash, RunInv, TypeOK,
     IndexInv
<1>7. CASE Stopped \/ UNCHANGED vars
  BY <1>7 DEF Stopped, RunInv, TypeOK, IndexInv, vars
<1>8. QED
  BY <1>1, <1>2, <1>3, <1>4, <1>5, <1>6, <1>7 DEF Next, Orchestrator,
     Attestation, Driver

(* What was reached stays reached.                                         *)
LEMMA ReachedStep ==
  ASSUME RunInv, [Next]_vars, NEW q, Reached(q)
  PROVE  Reached(q)'
<1>1. PICK i \in 1 .. Len(plan) :
        /\ plan[i] = q
        /\ i < index \/ (i = index /\ pc \notin {"prepared", "top", "submitted"})
  BY DEF Reached
<1>2. plan' = plan
  BY ControlStep DEF plan
<1>3. i < index' \/ (i = index' /\ pc' \notin {"prepared", "top", "submitted"})
  BY <1>1, ControlStep, PlanPositions DEF RunInv, TypeOK
<1>4. QED BY <1>1, <1>2, <1>3 DEF Reached

(* The loop stays within its plan.                                         *)
LEMMA IndexStep ==
  ASSUME RunInv, [Next]_vars
  PROVE  IndexInv'
<1>p. plan' = plan /\ Len(plan) \in Nat
  BY ControlStep, PlanPositions DEF plan, RunInv, TypeOK
<1>1. CASE StartExecution \/ BeginPhase \/ DeadlineExceeded \/ HandlerStarts
     \/ HandlerReturns \/ HandlerSwallowsError
  BY <1>1, <1>p, PlanPositions DEF StartExecution, BeginPhase,
     DeadlineExceeded, HandlerStarts, HandlerReturns,
     HandlerSwallowsError, RunInv, TypeOK, IndexInv
<1>2. CASE HandlerRaises \/ HandlerTimesOut \/ LoopEnds \/ Close
  BY <1>2, <1>p, PlanPositions DEF HandlerRaises, HandlerTimesOut,
     LoopEnds, Close, RunInv, TypeOK, IndexInv
<1>3. CASE RecordPhase
  BY <1>3, <1>p, PlanPositions DEF RecordPhase, RunInv, TypeOK, IndexInv,
     Outcomes
<1>4. CASE ReadEvidence \/ SignVerdict \/ CommitVerdict \/ DeadlinePasses \/
     (\E p \in Phase : HandlerFinds(p)) \/ (\E p \in Phase : ZombieEnds(p))
  BY <1>4, <1>p, PlanPositions DEF ReadEvidence, SignVerdict,
     CommitVerdict, DeadlinePasses, HandlerFinds, ZombieEnds, RunInv,
     TypeOK, IndexInv, control, evidence
<1>5. CASE JoinExecutor \/ JoinExpires \/ MarkFailed \/ FinalizeRun \/
     BuildResponse
  BY <1>5, <1>p, PlanPositions DEF JoinExecutor, JoinExpires, MarkFailed,
     FinalizeRun, BuildResponse, RunInv, TypeOK, IndexInv, LeaveRun
<1>6. CASE StoreRaises \/ InitUpdateRaises \/ Crash
  BY <1>6, <1>p, PlanPositions DEF StoreRaises, InitUpdateRaises, Crash,
     RunInv, TypeOK, IndexInv
<1>7. CASE Stopped \/ UNCHANGED vars
  BY <1>7, <1>p, PlanPositions DEF Stopped, vars, RunInv, TypeOK,
     IndexInv, vars
<1>8. QED
  BY <1>1, <1>2, <1>3, <1>4, <1>5, <1>6, <1>7 DEF Next, Orchestrator,
     Attestation, Driver

(* A result is recorded when its phase ends, never before.                 *)
LEMMA FreshStep ==
  ASSUME RunInv, [Next]_vars
  PROVE  FreshInv'
<1>p. plan' = plan /\ Len(plan) \in Nat
  BY ControlStep, PlanPositions DEF plan, RunInv, TypeOK
<1>1. CASE StartExecution \/ BeginPhase \/ DeadlineExceeded \/ HandlerStarts
     \/ HandlerReturns \/ HandlerSwallowsError
  BY <1>1, <1>p, PlanPositions DEF StartExecution, BeginPhase,
     DeadlineExceeded, HandlerStarts, HandlerReturns,
     HandlerSwallowsError, RunInv, TypeOK, IndexInv, FreshInv
<1>2. CASE HandlerRaises \/ HandlerTimesOut \/ LoopEnds \/ Close
  BY <1>2, <1>p, PlanPositions DEF HandlerRaises, HandlerTimesOut,
     LoopEnds, Close, RunInv, TypeOK, IndexInv, FreshInv
<1>3. CASE ReadEvidence \/ SignVerdict \/ CommitVerdict \/ DeadlinePasses \/
     (\E p \in Phase : HandlerFinds(p)) \/ (\E p \in Phase : ZombieEnds(p))
  BY <1>3, <1>p, PlanPositions DEF ReadEvidence, SignVerdict,
     CommitVerdict, DeadlinePasses, HandlerFinds, ZombieEnds, RunInv,
     TypeOK, IndexInv, FreshInv, control, evidence
<1>4. CASE JoinExecutor \/ JoinExpires \/ MarkFailed \/ FinalizeRun \/
     BuildResponse
  BY <1>4, <1>p, PlanPositions DEF JoinExecutor, JoinExpires, MarkFailed,
     FinalizeRun, BuildResponse, RunInv, TypeOK, IndexInv, FreshInv,
     LeaveRun
<1>5. CASE InitUpdateRaises \/ StoreRaises \/ Crash
  BY <1>5, <1>p, PlanPositions DEF InitUpdateRaises, StoreRaises, Crash,
     RunInv, TypeOK, IndexInv, FreshInv
<1>6. CASE Stopped \/ UNCHANGED vars
  BY <1>6, <1>p, PlanPositions DEF Stopped, vars, RunInv, TypeOK,
     IndexInv, FreshInv, vars
<1>7. CASE RecordPhase
  BY <1>7, <1>p, PlanPositions, PlanOrder DEF RecordPhase, RunInv, TypeOK,
     IndexInv, FreshInv, current
<1>8. QED
  BY <1>1, <1>2, <1>3, <1>4, <1>5, <1>6, <1>7 DEF Next, Orchestrator,
     Attestation, Driver

(* A gated mode does not go on after a failed phase.                       *)
LEMMA GateStep ==
  ASSUME RunInv, [Next]_vars
  PROVE  GateInv'
<1>p. plan' = plan /\ Len(plan) \in Nat
  BY ControlStep, PlanPositions DEF plan, RunInv, TypeOK
<1>1. CASE StartExecution \/ BeginPhase \/ DeadlineExceeded \/ HandlerStarts
     \/ HandlerReturns \/ HandlerSwallowsError
  BY <1>1, <1>p DEF StartExecution, BeginPhase, DeadlineExceeded,
     HandlerStarts, HandlerReturns, HandlerSwallowsError, RunInv, TypeOK,
     IndexInv, GateInv
<1>2. CASE HandlerRaises \/ HandlerTimesOut \/ LoopEnds \/ Close
  BY <1>2, <1>p DEF HandlerRaises, HandlerTimesOut, LoopEnds, Close,
     RunInv, TypeOK, IndexInv, GateInv
<1>3. CASE ReadEvidence \/ SignVerdict \/ CommitVerdict \/ DeadlinePasses \/
     (\E p \in Phase : HandlerFinds(p)) \/ (\E p \in Phase : ZombieEnds(p))
  BY <1>3, <1>p DEF ReadEvidence, SignVerdict, CommitVerdict,
     DeadlinePasses, HandlerFinds, ZombieEnds, RunInv, TypeOK, IndexInv,
     GateInv, control, evidence
<1>4. CASE JoinExecutor \/ JoinExpires \/ MarkFailed \/ FinalizeRun \/
     BuildResponse
  BY <1>4, <1>p DEF JoinExecutor, JoinExpires, MarkFailed, FinalizeRun,
     BuildResponse, RunInv, TypeOK, IndexInv, GateInv, LeaveRun
<1>5. CASE InitUpdateRaises \/ Crash
  BY <1>5, <1>p DEF InitUpdateRaises, Crash, RunInv, TypeOK, IndexInv,
     GateInv
<1>6. CASE Stopped \/ UNCHANGED vars
  BY <1>6, <1>p DEF Stopped, RunInv, TypeOK, IndexInv, GateInv, vars
<1>7. CASE RecordPhase
  BY <1>7, <1>p, PlanPositions, PlanOrder DEF RecordPhase, RunInv, TypeOK,
     IndexInv, GateInv, current, Outcomes
<1>8. CASE StoreRaises
  BY <1>8, <1>p, PlanPositions, PlanOrder DEF StoreRaises, RunInv, TypeOK,
     IndexInv, GateInv, current, Outcomes
<1>9. QED
  BY <1>1, <1>2, <1>3, <1>4, <1>5, <1>6, <1>7, <1>8 DEF Next,
     Orchestrator, Attestation, Driver

(* A thread that was abandoned belongs to a phase recorded as failed, or    *)
(* about to be: nothing turns the result of such a phase into a success.    *)
LEMMA ZombieStep ==
  ASSUME RunInv, [Next]_vars
  PROVE  ZombieInv'
<1>p. plan' = plan /\ mode' = mode
  BY ControlStep DEF plan
<1> DEFINE Doomed(p) == \/ results[p] = "failed"
                        \/ pc = "record" /\ current = p /\ outcome = "failed"
<1>1. SUFFICES ASSUME NEW p \in zombies' PROVE Reached(p)' /\ Doomed(p)'
  BY DEF ZombieInv
<1>2. CASE p \notin zombies
  <2>1. HandlerTimesOut /\ pc = "handler" /\ p = current
    BY <1>2 DEF Next, Orchestrator, Attestation, Driver, vars, StartExecution,
       BeginPhase, DeadlineExceeded, HandlerStarts, HandlerReturns,
       HandlerSwallowsError, HandlerRaises, HandlerTimesOut, RecordPhase, LoopEnds,
       Close, ReadEvidence, SignVerdict, CommitVerdict, JoinExecutor, JoinExpires,
       MarkFailed, FinalizeRun, BuildResponse, HandlerFinds, ZombieEnds,
       DeadlinePasses, StoreRaises, InitUpdateRaises, Crash, Stopped
  <2>2. Reached(p)
    BY <2>1 DEF Reached, current, RunInv, IndexInv
  <2>3. QED BY <2>1, <2>2, <1>p, ReachedStep DEF HandlerTimesOut, current
<1>3. CASE p \in zombies
  <2>1. Reached(p) /\ Doomed(p)
    BY <1>3 DEF RunInv, ZombieInv
  <2>2. Doomed(p)'
    <3>1. CASE RecordPhase
      <4>1. CASE results[p] = "failed"
        <5>1. p # current
          BY <3>1, <4>1, PlanPositions DEF RecordPhase, RunInv, TypeOK,
             IndexInv, FreshInv, current
        <5>2. QED BY <5>1, <4>1, <3>1 DEF RecordPhase
      <4>2. CASE results[p] # "failed"
        BY <4>2, <2>1, <3>1 DEF RecordPhase, RunInv, TypeOK
      <4>3. QED BY <4>1, <4>2
    <3>2. CASE StoreRaises
      <4>1. CASE results[p] = "failed"
        <5>1. pc = "record" => p # current
          BY <4>1, PlanPositions DEF RunInv, TypeOK, IndexInv, FreshInv, current
        <5>2. QED BY <5>1, <4>1, <3>2 DEF StoreRaises
      <4>2. CASE results[p] # "failed"
        BY <4>2, <2>1, <3>2 DEF StoreRaises, RunInv, TypeOK
      <4>3. QED BY <4>1, <4>2
    <3>3. CASE Crash
      BY <3>3 DEF Crash
    <3>4. CASE ~(RecordPhase \/ StoreRaises \/ Crash)
      <4>1. results' = results
        BY <3>4 DEF Next, Orchestrator, Attestation, Driver, vars, StartExecution,
           BeginPhase, DeadlineExceeded, HandlerStarts, HandlerReturns,
           HandlerSwallowsError, HandlerRaises, HandlerTimesOut, LoopEnds,
           Close, ReadEvidence, SignVerdict, CommitVerdict, JoinExecutor, JoinExpires,
           MarkFailed, FinalizeRun, BuildResponse, HandlerFinds, ZombieEnds,
           DeadlinePasses, InitUpdateRaises, Stopped
      <4>2. pc = "record" => pc' = pc /\ index' = index /\ outcome' = outcome
        BY <3>4 DEF Next, Orchestrator, Attestation, Driver, vars, StartExecution,
           BeginPhase, DeadlineExceeded, HandlerStarts, HandlerReturns,
           HandlerSwallowsError, HandlerRaises, HandlerTimesOut, LoopEnds,
           Close, ReadEvidence, SignVerdict, CommitVerdict, JoinExecutor, JoinExpires,
           MarkFailed, FinalizeRun, BuildResponse, HandlerFinds, ZombieEnds,
           DeadlinePasses, InitUpdateRaises, Stopped, control
      <4>3. QED BY <2>1, <4>1, <4>2, <1>p DEF current
    <3>4a. QED BY <3>1, <3>2, <3>3, <3>4
  <2>3. QED BY <2>1, <2>2, ReachedStep
<1>4. QED BY <1>2, <1>3

(* An attestation under way belongs to a phase that was reached.            *)
LEMMA AttestationReached ==
  ASSUME RunInv, [Next]_vars, att'.step # "idle"
  PROVE  Reached("attestation")'
<1>1. CASE att.step # "idle"
  BY <1>1, ReachedStep DEF RunInv, AttestationInv
<1>2. CASE att.step = "idle"
  <2>1. Live("attestation")
    BY <1>2 DEF Next, Orchestrator, Attestation, Driver, vars, evidence, StartExecution,
       BeginPhase, DeadlineExceeded, HandlerStarts, HandlerReturns,
       HandlerSwallowsError, HandlerRaises, HandlerTimesOut, RecordPhase, LoopEnds,
       Close, ReadEvidence, SignVerdict, CommitVerdict, JoinExecutor, JoinExpires,
       MarkFailed, FinalizeRun, BuildResponse, HandlerFinds, ZombieEnds,
       DeadlinePasses, StoreRaises, InitUpdateRaises, Crash, Stopped
  <2>2. Reached("attestation")
    BY <2>1 DEF Live, Reached, current, RunInv, IndexInv, ZombieInv
  <2>3. QED BY <2>2, ReachedStep
<1>3. QED BY <1>1, <1>2

(* The row's verdict is the one signed on disk, decided on what had been    *)
(* found by then and persisted with it.                                     *)
LEMMA AttestationStep ==
  ASSUME RunInv, [Next]_vars
  PROVE  AttestationInv'
<1>p. att'.step # "idle" => Reached("attestation")'
  BY AttestationReached
<1>1. CASE StartExecution \/ BeginPhase \/ DeadlineExceeded \/ HandlerStarts
     \/ HandlerReturns \/ HandlerSwallowsError
  BY <1>1, <1>p DEF StartExecution, BeginPhase, DeadlineExceeded,
     HandlerStarts, HandlerReturns, HandlerSwallowsError, RunInv, TypeOK,
     AttestationInv, VerdictOf, Row, evidence
<1>2. CASE HandlerRaises \/ HandlerTimesOut \/ RecordPhase \/ LoopEnds \/
     Close
  BY <1>2, <1>p DEF HandlerRaises, HandlerTimesOut, RecordPhase, LoopEnds,
     Close, RunInv, TypeOK, AttestationInv, VerdictOf, Row, evidence
<1>3. CASE ReadEvidence
  BY <1>3, <1>p DEF ReadEvidence, RunInv, TypeOK, AttestationInv,
     VerdictOf, Row, control
<1>4. CASE SignVerdict
  BY <1>4, <1>p DEF SignVerdict, RunInv, TypeOK, AttestationInv,
     VerdictOf, Row, control
<1>5. CASE CommitVerdict
  BY <1>5, <1>p DEF CommitVerdict, RunInv, TypeOK, AttestationInv,
     VerdictOf, Row, control
<1>6. CASE JoinExecutor \/ JoinExpires \/ MarkFailed \/ FinalizeRun \/
     BuildResponse
  BY <1>6, <1>p DEF JoinExecutor, JoinExpires, MarkFailed, FinalizeRun,
     BuildResponse, RunInv, TypeOK, AttestationInv, VerdictOf, Row,
     evidence
<1>7. ASSUME NEW p \in Phase, HandlerFinds(p) PROVE AttestationInv'
  BY <1>7, <1>p DEF HandlerFinds, RunInv, TypeOK, AttestationInv,
     VerdictOf, Row
<1>8. ASSUME NEW p \in Phase, ZombieEnds(p) PROVE AttestationInv'
  BY <1>8, <1>p DEF ZombieEnds, RunInv, TypeOK, AttestationInv, VerdictOf,
     Row, evidence
<1>9. CASE DeadlinePasses \/ StoreRaises \/ InitUpdateRaises \/ Crash
  BY <1>9, <1>p DEF DeadlinePasses, StoreRaises, InitUpdateRaises, Crash,
     RunInv, TypeOK, AttestationInv, VerdictOf, Row, evidence
<1>10. CASE Stopped \/ UNCHANGED vars
  BY <1>10, <1>p DEF Stopped, vars, RunInv, TypeOK, AttestationInv,
     VerdictOf, Row, vars
<1>11. QED
  BY <1>1, <1>2, <1>3, <1>4, <1>5, <1>6, <1>7, <1>8, <1>9, <1>10 DEF Next,
     Orchestrator, Attestation, Driver

(* After has_findings was read, the only thread that can still add a        *)
(* finding is one abandoned by a timeout, whose phase is marked as failed.  *)
LEMMA CleanStep ==
  ASSUME RunInv, [Next]_vars
  PROVE  CleanInv'
<1>1. CASE StartExecution \/ BeginPhase \/ DeadlineExceeded \/ HandlerStarts
     \/ HandlerReturns \/ HandlerSwallowsError \/ HandlerRaises \/
     HandlerTimesOut \/ LoopEnds \/ Close
  BY <1>1 DEF StartExecution, BeginPhase, DeadlineExceeded, HandlerStarts,
     HandlerReturns, HandlerSwallowsError, HandlerRaises, HandlerTimesOut,
     LoopEnds, Close, RunInv, CleanInv, evidence
<1>2. CASE RecordPhase
  BY <1>2, NoFinderAfterAttestation DEF RecordPhase, TypeOK, IndexInv,
     RunInv, CleanInv, evidence
<1>3. CASE StoreRaises
  BY <1>3, NoFinderAfterAttestation DEF StoreRaises, TypeOK, IndexInv,
     RunInv, CleanInv, evidence
<1>4. CASE ReadEvidence
  BY <1>4 DEF ReadEvidence, TypeOK, RunInv, CleanInv, evidence
<1>5. CASE SignVerdict \/ CommitVerdict
  BY <1>5 DEF SignVerdict, CommitVerdict, TypeOK, RunInv, CleanInv,
     evidence
<1>6. CASE JoinExecutor \/ JoinExpires \/ MarkFailed \/ FinalizeRun \/
     BuildResponse
  BY <1>6 DEF JoinExecutor, JoinExpires, MarkFailed, FinalizeRun,
     BuildResponse, RunInv, CleanInv, evidence
<1>7. ASSUME NEW p \in Phase, HandlerFinds(p) PROVE CleanInv'
  BY <1>7, NoFinderAfterAttestation DEF HandlerFinds, Live, ZombieInv,
     IndexInv, TypeOK, RunInv, CleanInv, evidence
<1>8. ASSUME NEW p \in Phase, ZombieEnds(p) PROVE CleanInv'
  BY <1>8 DEF ZombieEnds, RunInv, CleanInv, evidence
<1>9. CASE DeadlinePasses \/ InitUpdateRaises \/ Crash
  BY <1>9 DEF DeadlinePasses, InitUpdateRaises, Crash, RunInv, CleanInv,
     evidence
<1>10. CASE Stopped \/ UNCHANGED vars
  BY <1>10 DEF Stopped, RunInv, CleanInv, evidence, vars
<1>11. QED
  BY <1>1, <1>2, <1>3, <1>4, <1>5, <1>6, <1>7, <1>8, <1>9, <1>10 DEF Next,
     Orchestrator, Attestation, Driver

(* The invariant holds in every reachable state of every instance.         *)
THEOREM RunInvariant == Spec => []RunInv
<1>1. RunInv /\ [Next]_vars => RunInv'
  BY TypeStep, IndexStep, FreshStep, GateStep, ZombieStep, AttestationStep,
     CleanStep DEF RunInv
<1>2. QED BY <1>1, InitRunInv, PTL DEF Spec

(* Type correctness of the run, its row and its events.                    *)
THEOREM TypeCorrect == Spec => []TypeOK
<1>1. RunInv => TypeOK
  BY DEF RunInv
<1>2. QED BY <1>1, RunInvariant, PTL

(* A gated mode's SAFE row stands on a plan all of whose phases before the  *)
(* attestation succeeded (the gate in AgentOrchestrator.execute).           *)
THEOREM GatedSafeIsGreen == Spec => []SafeNeedsGreenRun
<1>1. RunInv => SafeNeedsGreenRun
  <2>1. SUFFICES ASSUME RunInv, Gated[mode], row.verdict = "SAFE", NEW p \in Examined
                 PROVE  results[p] \in {"ok", "swallowed"}
    BY DEF SafeNeedsGreenRun
  <2>2. Reached("attestation")
    BY <2>1 DEF RunInv, AttestationInv
  <2>3. PICK i \in 1 .. Len(plan) : plan[i] = "attestation" /\ i <= index
    BY <2>1, <2>2, PlanPositions DEF Reached, RunInv, TypeOK
  <2>4. PICK j \in 1 .. Len(plan) : plan[j] = p
    BY DEF Examined
  <2>5. p # "attestation" /\ p # "complete"
    BY DEF Examined
  <2>6. j < i
    BY <2>1, <2>3, <2>4, <2>5, PlanOrder, PlanPositions DEF RunInv, TypeOK
  <2>7. QED BY <2>1, <2>3, <2>4, <2>6, PlanPositions DEF RunInv, TypeOK, GateInv
<1>2. QED BY <1>1, RunInvariant, PTL

(* SAFE over finders none of which failed means that nothing was found, nor  *)
(* will be: the theorem covers every interleaving of abandoned threads with  *)
(* the attestation.                                                         *)
THEOREM SafeRunIsClean == Spec => []SafeIsClean
<1>1. RunInv => SafeIsClean
  <2>1. SUFFICES ASSUME RunInv, row.verdict = "SAFE",
                        \A p \in Finders : results[p] # "failed"
                 PROVE  found = {} /\ row.evidence = {}
    BY DEF SafeIsClean
  <2>2. att.step = "committed" /\ ~att.dirty
    BY <2>1 DEF RunInv, AttestationInv, VerdictOf
  <2>3. found = {}
    BY <2>1, <2>2 DEF RunInv, CleanInv
  <2>4. QED BY <2>1, <2>3 DEF RunInv, AttestationInv
<1>2. QED BY <1>1, RunInvariant, PTL

(* No verdict without its signed attestation and, if BLOCKED, its evidence.  *)
THEOREM VerdictHasBacking == Spec => []VerdictIsBacked
<1>1. RunInv => VerdictIsBacked
  <2>1. SUFFICES ASSUME RunInv PROVE VerdictIsBacked
    OBVIOUS
  <2>2. row.verdict = "BLOCKED" => row.evidence # {}
    BY <2>1 DEF RunInv, AttestationInv, VerdictOf
  <2>3. row.verdict # "pending" => signed = row.verdict
    BY <2>1 DEF RunInv, TypeOK, AttestationInv
  <2>4. QED BY <2>2, <2>3 DEF VerdictIsBacked
<1>2. QED BY <1>1, RunInvariant, PTL

-----------------------------------------------------------------------------

(* The attestation comes after the first phase and before "complete".       *)
LEMMA PlanEnds ==
  ASSUME mode \in Modes
  PROVE  /\ 1 \in 1 .. Len(plan) /\ plan[1] = "init"
         /\ \E i \in 1 .. Len(plan) : plan[i] = "attestation"
<1>1. plan \in Seq(Phase) /\ plan # << >> /\ plan[1] = "init"
  BY PlanAssumption, MandatoryPhases DEF plan
<1>2. QED
  BY <1>1, MandatoryPhases DEF plan

(* Once the attestation has started, the loop is past "init".               *)
LEMMA PastInit ==
  ASSUME RunInv, Reached("attestation")
  PROVE  index > 1 /\ (index \in 1 .. Len(plan) => current # "init")
<1>1. mode \in Modes /\ index \in Nat
  BY DEF RunInv, TypeOK
<1>2. PICK i \in 1 .. Len(plan) : plan[i] = "attestation" /\ i <= index
  BY <1>1, PlanPositions DEF Reached
<1>3. i # 1
  BY <1>1, <1>2, PlanEnds
<1>4. index > 1
  BY <1>1, <1>2, <1>3, PlanPositions
<1>5. ASSUME index \in 1 .. Len(plan) PROVE current # "init"
  BY <1>1, <1>4, <1>5, PlanEnds, PlanOrder DEF current
<1>6. QED
  BY <1>4, <1>5

(* Every step keeps what the end of an undecided run is explained by.       *)
LEMMA DecidedStep ==
  ASSUME RunInv, DecidedInv, [Next]_vars
  PROVE  DecidedInv'
<1>p. plan' = plan /\ Len(plan) \in Nat /\ index \in Nat \ {0}
      /\ (\A i \in 1 .. Len(plan) : plan[i] \in Phase)
  BY ControlStep, PlanPositions DEF plan, RunInv, TypeOK
<1>1. CASE StartExecution \/ DeadlineExceeded \/ HandlerStarts \/ LoopEnds \/ Close
  BY <1>1, <1>p DEF StartExecution, DeadlineExceeded, HandlerStarts, LoopEnds,
     Close, DecidedInv, RunInv, IndexInv, evidence, current
<1>2. CASE BeginPhase
  BY <1>2, <1>p DEF BeginPhase, DecidedInv, evidence, current
<1>3. CASE HandlerReturns
  BY <1>3, <1>p DEF HandlerReturns, DecidedInv, evidence, current
<1>4. CASE HandlerSwallowsError \/ HandlerRaises \/ HandlerTimesOut \/ InitUpdateRaises
  BY <1>4, <1>p DEF HandlerSwallowsError, HandlerRaises, HandlerTimesOut,
     InitUpdateRaises, DecidedInv, evidence, current, Swallowing, SourceScans,
     Intelligence
<1>5. CASE RecordPhase
  <2>1. current \in Phase /\ results \in [Phase -> Outcomes] /\ outcome # "none"
        /\ index \in 1 .. Len(plan) /\ pc = "record" /\ outcome \in Outcomes
    BY <1>5, <1>p DEF RecordPhase, RunInv, TypeOK, IndexInv, current
  <2>2. results' = [results EXCEPT ![current] = outcome] /\ att' = att
        /\ raised' = raised
    BY <1>5 DEF RecordPhase, evidence
  <2>3. \A i \in 1 .. index' - 1 : results'[plan'[i]] # "none"
    BY <1>5, <1>p, <2>1, <2>2 DEF RecordPhase, DecidedInv, current
  <2>4. results'["attestation"] \in {"ok", "swallowed"} => att'.step = "committed"
    BY <2>1, <2>2 DEF DecidedInv, Outcomes
  <2>5. pc' # "record" /\ (pc' = "close" => results'[current] = "failed")
        /\ pc' \in {"top", "close"}
    BY <1>5, <2>1, <2>2 DEF RecordPhase
  <2>6. QED
    BY <2>1, <2>3, <2>4, <2>5 DEF DecidedInv
<1>6. CASE StoreRaises
  <2>1. results \in [Phase -> Outcomes] /\ pc \in PCs
    BY DEF RunInv, TypeOK
  <2>2. CASE pc = "record"
    <3>1. current \in Phase /\ index \in 1 .. Len(plan) /\ outcome # "none"
          /\ outcome \in Outcomes
      BY <2>2, <1>p DEF RunInv, TypeOK, IndexInv, current
    <3>2. results' = [results EXCEPT ![current] = outcome] /\ att' = att
          /\ index' = index /\ raised' = TRUE /\ pc' = "join"
      BY <1>6, <2>2 DEF StoreRaises, evidence
    <3>3. \A i \in 1 .. index' - 1 : results'[plan'[i]] # "none"
      BY <1>p, <2>1, <3>1, <3>2 DEF DecidedInv
    <3>4. results'["attestation"] \in {"ok", "swallowed"} => att'.step = "committed"
      BY <2>1, <2>2, <3>1, <3>2 DEF DecidedInv, Outcomes
    <3>5. QED
      BY <3>2, <3>3, <3>4 DEF DecidedInv
  <2>3. CASE pc # "record"
    <3>1. results' = results /\ att' = att /\ index' = index
          /\ pc' \in {"join", "respond", "dead"}
          /\ (~raised' => ~raised /\ pc \in {"except", "after", "respond"})
      BY <1>6, <2>3 DEF StoreRaises, evidence
    <3>2. QED
      BY <1>p, <3>1 DEF DecidedInv
  <2>4. QED
    BY <2>2, <2>3
<1>7. CASE ReadEvidence \/ SignVerdict \/ CommitVerdict
  <2>1. UNCHANGED <<pc, index, outcome, raised, results>>
        /\ (att.step = "committed" => att'.step = "committed")
    BY <1>7 DEF ReadEvidence, SignVerdict, CommitVerdict, control, RunInv, TypeOK
  <2>2. QED
    BY <1>p, <2>1 DEF DecidedInv, current
<1>8. CASE JoinExecutor \/ JoinExpires \/ MarkFailed \/ FinalizeRun \/ BuildResponse
  <2>1. UNCHANGED <<index, outcome, raised, results, att>>
        /\ pc \in {"join", "except", "after", "respond"}
        /\ pc' \in {"except", "after", "respond", "ended"}
    BY <1>8 DEF JoinExecutor, JoinExpires, MarkFailed, FinalizeRun,
       BuildResponse, LeaveRun, evidence
  <2>2. QED
    BY <1>p, <2>1 DEF DecidedInv, current
<1>9. CASE DeadlinePasses \/ (\E p \in Phase : HandlerFinds(p) \/ ZombieEnds(p))
           \/ Crash \/ Stopped \/ UNCHANGED vars
  <2>1. UNCHANGED <<index, outcome, raised, results, att>> /\ pc' \in {pc, "crashed"}
    BY <1>9 DEF DeadlinePasses, HandlerFinds, ZombieEnds, Crash, Stopped, vars,
       evidence, control
  <2>2. QED
    BY <1>p, <2>1 DEF DecidedInv, current
<1>10. QED
  BY <1>1, <1>2, <1>3, <1>4, <1>5, <1>6, <1>7, <1>8, <1>9
     DEF Next, Orchestrator, Attestation, Driver

(* A run that ends without a verdict had a failed phase or an exception:    *)
(* whoever reads "pending" in a finished run knows it was not decided.      *)
THEOREM UndecidedHasReason == Spec => []UndecidedIsExplained
<1>1. Init => DecidedInv
  BY DEF Init, DecidedInv, Phase, PHASE_ORDER
<1>2. RunInv /\ DecidedInv => UndecidedIsExplained
  <2>1. SUFFICES ASSUME RunInv, DecidedInv, pc = "ended", row.verdict = "pending",
                        ~raised, \A p \in Phase : results[p] # "failed"
                 PROVE  FALSE
    BY DEF UndecidedIsExplained
  <2>2. mode \in Modes /\ index \in Nat /\ results \in [Phase -> Outcomes]
    BY <2>1 DEF RunInv, TypeOK
  <2>3. index > Len(plan) /\ Len(plan) \in Nat
    BY <2>1, <2>2, PlanPositions DEF DecidedInv
  <2>4. PICK i \in 1 .. Len(plan) : plan[i] = "attestation"
    BY <2>2, PlanEnds
  <2>5. results["attestation"] # "none" /\ "attestation" \in Phase
    BY <2>1, <2>2, <2>3, <2>4, PlanPositions DEF DecidedInv
  <2>6. att.step = "committed"
    BY <2>1, <2>2, <2>5 DEF DecidedInv, Outcomes
  <2>7. row.verdict \in {"SAFE", "BLOCKED"}
    BY <2>1, <2>6 DEF RunInv, AttestationInv, VerdictOf
  <2>8. QED
    BY <2>1, <2>7
<1>3. QED
  BY <1>1, <1>2, DecidedStep, RunInvariant, PTL DEF Spec

(* What is announced is announced last.                                     *)
AnnouncedInv == announced # NoEvent => pc = "ended"

LEMMA AnnouncedStep ==
  ASSUME AnnouncedInv, [Next]_vars
  PROVE  AnnouncedInv'
<1>1. CASE BuildResponse
  BY <1>1 DEF BuildResponse, AnnouncedInv
<1>2. CASE UNCHANGED <<announced, pc>>
  BY <1>2 DEF AnnouncedInv
<1>3. CASE announced' = announced /\ pc # "ended"
  BY <1>3 DEF AnnouncedInv
<1>4. QED
  BY <1>1, <1>2, <1>3 DEF Next, Orchestrator, Attestation, Driver, vars, control,
     evidence, StartExecution, BeginPhase, DeadlineExceeded, HandlerStarts,
     HandlerReturns, HandlerSwallowsError, HandlerRaises, HandlerTimesOut,
     RecordPhase, LoopEnds, Close, ReadEvidence, SignVerdict, CommitVerdict,
     JoinExecutor, JoinExpires, MarkFailed, FinalizeRun, HandlerFinds, ZombieEnds,
     DeadlinePasses, StoreRaises, InitUpdateRaises, Crash, Stopped, Final

(* After run_completed only an attestation thread that timed out and        *)
(* outlived the executor's join can still change the row.                   *)
THEOREM AnnouncedRowIsFinal == Spec => AnnouncedIsFinal
<1>1. Init => AnnouncedInv
  BY DEF Init, AnnouncedInv
<1>2. AnnouncedInv /\ [Next]_vars
        => [announced # NoEvent /\ row' # row => "attestation" \in zombies]_vars
  <2>1. SUFFICES ASSUME pc = "ended", [Next]_vars, row' # row
                 PROVE  "attestation" \in zombies
    BY DEF AnnouncedInv
  <2>2. Live("attestation")
    BY <2>1 DEF Next, Orchestrator, Attestation, Driver, vars, control,
       evidence, StartExecution, BeginPhase, DeadlineExceeded, HandlerStarts,
       HandlerReturns, HandlerSwallowsError, HandlerRaises, HandlerTimesOut,
       RecordPhase, LoopEnds, Close, ReadEvidence, SignVerdict, CommitVerdict,
       JoinExecutor, JoinExpires, MarkFailed, FinalizeRun, BuildResponse,
       HandlerFinds, ZombieEnds, DeadlinePasses, StoreRaises, InitUpdateRaises,
       Crash, Stopped
  <2>3. QED
    BY <2>1, <2>2 DEF Live
<1>3. QED
  BY <1>1, <1>2, AnnouncedStep, PTL DEF Spec, AnnouncedIsFinal

-----------------------------------------------------------------------------

(* An abandoned thread, like the one that is awaited, belongs to the phase  *)
(* the loop stands at: a gated loop does not go on after a timeout.         *)
LEMMA LiveIsCurrent ==
  ASSUME GatedAndJoined, RunInv, LifecycleInv, NEW p \in Phase,
         Live(p) \/ results[p] = "failed"
  PROVE  index \in 1 .. Len(plan) /\ current = p
<1>1. mode \in Modes /\ index \in Nat \ {0} /\ Len(plan) \in Nat /\ Gated[mode]
  BY PlanPositions DEF RunInv, TypeOK, GatedAndJoined
<1>2. CASE pc \in {"handler", "record"} /\ current = p
  BY <1>1, <1>2 DEF RunInv, IndexInv
<1>3. CASE results[p] = "failed"
  <2>1. PICK i \in 1 .. Len(plan) : i <= index /\ plan[i] = p
    BY <1>3 DEF LifecycleInv
  <2>2. ~(i < index)
    BY <1>1, <1>3, <2>1 DEF RunInv, GateInv
  <2>3. QED
    BY <1>1, <2>1, <2>2 DEF current
<1>4. QED
  BY <1>2, <1>3 DEF Live, RunInv, ZombieInv

(* While a handler's thread lives the run is executing, and once the loop   *)
(* is past "init" an undecided run is running.                              *)
LEMMA LiveIsRunning ==
  ASSUME GatedAndJoined, RunInv, LifecycleInv, NEW p \in Phase, Live(p),
         p # "init", att.step # "committed"
  PROVE  row.status = "running" /\ row.verdict = "pending"
<1>1. pc \in Executing
  BY DEF Live, LifecycleInv, Executing
<1>2. index > 1
  BY LiveIsCurrent, PlanEnds DEF current, RunInv, TypeOK
<1>3. QED
  BY <1>1, <1>2 DEF LifecycleInv, RunInv, AttestationInv

(* In a gated mode the attestation decides on everything there is to find:  *)
(* no finder failed before it, and none is still at work.                   *)
LEMMA VerdictIsOnAll ==
  ASSUME GatedAndJoined, RunInv, LifecycleInv, att.step # "idle"
  PROVE  att.dirty <=> found # {}
<1>1. att.dirty => found # {}
  BY DEF RunInv, AttestationInv
<1>2. ASSUME NEW p \in Finders, results[p] = "failed" PROVE FALSE
  <2>1. p \in Phase
    BY DEF Finders, SourceScans, LiveAttacks, Phase, PHASE_ORDER
  <2>2. QED
    BY <1>2, <2>1, LiveIsCurrent, NoFinderAfterAttestation DEF RunInv
<1>3. QED
  BY <1>1, <1>2 DEF RunInv, CleanInv

(* The loop, from its start to its end, keeps the row's life cycle.         *)
LEMMA LoopLifecycle ==
  ASSUME GatedAndJoined, RunInv, LifecycleInv,
         Orchestrator \/ InitUpdateRaises \/ StoreRaises
  PROVE  LifecycleInv'
<1>0. Next
  BY DEF Next
<1>p. plan' = plan /\ Len(plan) \in Nat /\ index \in Nat \ {0}
      /\ (\A i \in 1 .. Len(plan) : plan[i] \in Phase)
      /\ mode \in Modes /\ Gated[mode]
  BY <1>0, ControlStep, PlanPositions DEF plan, RunInv, TypeOK, GatedAndJoined
<1>1. CASE StartExecution \/ DeadlineExceeded \/ LoopEnds \/ Close
  BY <1>1, <1>p DEF StartExecution, DeadlineExceeded, LoopEnds, Close,
     LifecycleInv, Executing, evidence
<1>2. CASE BeginPhase
  <2>1. row'.status = row.status
    BY <1>2 DEF BeginPhase, RunInv, TypeOK, Row
  <2>2. current = "complete" => index > 1
    BY <1>p, <1>2, PlanEnds DEF BeginPhase, current
  <2>3. UNCHANGED <<index, results, zombies, att>> /\ pc = "top"
        /\ (pc' = "submitted" \/ (pc' = "record" /\ current = "complete"))
    BY <1>2 DEF BeginPhase, evidence
  <2>4. QED
    BY <1>p, <2>1, <2>2, <2>3 DEF LifecycleInv, Executing
<1>3. CASE HandlerStarts
  <2>1. UNCHANGED <<index, results, zombies, att>> /\ pc = "submitted"
        /\ pc' = "handler"
    BY <1>3 DEF HandlerStarts, evidence
  <2>2. CASE current = "init"
    <3>1. att.step = "idle"
      BY <2>1, <2>2, PastInit DEF RunInv, AttestationInv, IndexInv
    <3>2. row'.status = "running"
      BY <1>3, <2>2 DEF HandlerStarts, RunInv, TypeOK, Row
    <3>3. QED
      BY <1>p, <2>1, <3>1, <3>2 DEF LifecycleInv, Executing
  <2>3. CASE current # "init"
    <3>1. index > 1 /\ row' = row
      BY <1>p, <1>3, <2>3, PlanEnds DEF HandlerStarts, current
    <3>2. QED
      BY <1>p, <2>1, <3>1 DEF LifecycleInv, Executing
  <2>4. QED
    BY <2>2, <2>3
<1>4. CASE HandlerReturns \/ HandlerSwallowsError \/ HandlerRaises
           \/ HandlerTimesOut \/ InitUpdateRaises
  BY <1>4, <1>p DEF HandlerReturns, HandlerSwallowsError, HandlerRaises,
     HandlerTimesOut, InitUpdateRaises, LifecycleInv, Executing, evidence
<1>5. CASE RecordPhase
  <2>1. index \in 1 .. Len(plan) /\ current = plan[index] /\ current \in Phase
        /\ results \in [Phase -> Outcomes]
    BY <1>5, <1>p DEF RecordPhase, RunInv, TypeOK, IndexInv, current
  <2>2. UNCHANGED <<row, zombies, att>> /\ pc = "record" /\ pc' \in {"top", "close"}
        /\ results' = [results EXCEPT ![current] = outcome]
        /\ index' >= index /\ index' \in Nat
        /\ (index' > 1 => index > 1 \/ outcome # "failed")
        /\ (pc' = "top" => index' > 1)
    BY <1>5, <1>p DEF RecordPhase, evidence
  <2>3. \A p \in Phase : results'[p] # "none"
          => \E i \in 1 .. Len(plan) : i <= index' /\ plan[i] = p
    BY <1>p, <2>1, <2>2 DEF LifecycleInv
  <2>4. QED
    BY <1>p, <2>1, <2>2, <2>3 DEF LifecycleInv, Executing
<1>6. CASE StoreRaises
  <2>1. UNCHANGED <<row, zombies, att, index>>
        /\ pc' \in (IF pc \in Executing THEN {"join"} ELSE {"respond", "dead"})
    BY <1>6 DEF StoreRaises, evidence, Executing
  <2>2. results' = results
        \/ (pc = "record" /\ results' = [results EXCEPT ![current] = outcome])
    BY <1>6 DEF StoreRaises
  <2>3. \A p \in Phase : results'[p] # "none"
          => \E i \in 1 .. Len(plan) : i <= index /\ plan[i] = p
    BY <1>p, <2>2 DEF LifecycleInv, RunInv, TypeOK, IndexInv, current
  <2>4. QED
    BY <1>p, <2>1, <2>3 DEF LifecycleInv, Executing
<1>7. QED
  BY <1>1, <1>2, <1>3, <1>4, <1>5, <1>6 DEF Orchestrator

(* Every step keeps the row's life cycle.                                   *)
LEMMA LifecycleStep ==
  ASSUME GatedAndJoined, RunInv, LifecycleInv, [Next]_vars
  PROVE  LifecycleInv'
<1>p. plan' = plan
  BY ControlStep DEF plan
<1>1. CASE Orchestrator \/ InitUpdateRaises \/ StoreRaises
  BY <1>1, LoopLifecycle
<1>2. CASE ReadEvidence \/ SignVerdict
  BY <1>2, <1>p DEF ReadEvidence, SignVerdict, LifecycleInv, RunInv, TypeOK,
     control, Executing
<1>3. CASE CommitVerdict
  <2>1. index > 1 /\ UNCHANGED <<pc, index, outcome, results, zombies>>
        /\ att'.step = "committed" /\ row'.status = "completed"
    BY <1>3, PastInit DEF CommitVerdict, control, RunInv, AttestationInv, TypeOK
  <2>2. QED
    BY <1>p, <2>1 DEF LifecycleInv, RunInv, TypeOK
<1>4. CASE JoinExecutor \/ BuildResponse
  BY <1>4, <1>p DEF JoinExecutor, BuildResponse, LeaveRun, LifecycleInv,
     Executing, evidence
<1>5. CASE JoinExpires
  BY <1>5 DEF JoinExpires, GatedAndJoined
<1>6. CASE MarkFailed
  <2>1. row'.status = "failed" /\ UNCHANGED <<index, results, zombies, att>>
        /\ pc = "except" /\ pc' \in {"after", "respond"}
    BY <1>6 DEF MarkFailed, RunInv, TypeOK, Row, evidence
  <2>2. QED
    BY <1>p, <2>1 DEF LifecycleInv, Executing
<1>7. CASE FinalizeRun
  <2>1. row'.status \in {row.status, "completed"} /\ pc = "after" /\ pc' = "respond"
        /\ UNCHANGED <<index, results, zombies, att>>
    BY <1>7 DEF FinalizeRun, RunInv, TypeOK, Row, evidence
  <2>2. QED
    BY <1>p, <2>1 DEF LifecycleInv, Executing
<1>8. CASE DeadlinePasses \/ (\E p \in Phase : HandlerFinds(p) \/ ZombieEnds(p))
           \/ Crash \/ Stopped \/ UNCHANGED vars
  <2>1. UNCHANGED <<index, outcome, results, att, row>>
        /\ (UNCHANGED <<pc, zombies>> \/ (zombies' = {} /\ pc' = "crashed")
            \/ (pc' = pc /\ zombies # {}))
    BY <1>8 DEF DeadlinePasses, HandlerFinds, ZombieEnds, Crash, Stopped, vars,
       evidence, control
  <2>2. QED
    BY <1>p, <2>1 DEF LifecycleInv, Executing
<1>9. QED
  BY <1>1, <1>2, <1>3, <1>4, <1>5, <1>6, <1>7, <1>8 DEF Next, Attestation, Driver

(* What a step does to the row's status, its verdict and the findings is a  *)
(* step of the release gate.                                                *)
LEMMA StepImplementsGate ==
  ASSUME GatedAndJoined, RunInv, LifecycleInv, [Next]_vars
  PROVE  [Gate!GateNext]_(Gate!gateVars)
<1>1. CASE UNCHANGED <<row.status, row.verdict, found>>
  BY <1>1 DEF Gate!gateVars
<1>2. CASE HandlerStarts
  <2>1. CASE current = "init"
    <3>1. index \in 1 .. Len(plan)
      BY <1>2 DEF HandlerStarts, RunInv, TypeOK, IndexInv
    <3>2. index = 1
      BY <2>1, <3>1, PlanEnds, PlanOrder DEF RunInv, TypeOK, current
    <3>3. row.status = "queued" /\ row'.status = "running"
          /\ row'.verdict = row.verdict /\ found' = found
      BY <1>2, <2>1, <3>2 DEF HandlerStarts, RunInv, TypeOK, Row, LifecycleInv, evidence
    <3>4. QED
      BY <3>3 DEF Gate!GateNext, Gate!Begin
  <2>2. QED
    BY <1>1, <1>2, <2>1 DEF HandlerStarts, evidence
<1>3. CASE CommitVerdict
  <2>1. Live("attestation") /\ "attestation" \in Phase /\ att.step = "signed"
    BY <1>3 DEF CommitVerdict, Phase, PHASE_ORDER
  <2>2. row.status = "running" /\ row.verdict = "pending"
    BY <2>1, LiveIsRunning
  <2>3. row'.status = "completed" /\ found' = found
        /\ row'.verdict = IF found # {} THEN "BLOCKED" ELSE "SAFE"
    BY <1>3, <2>1, VerdictIsOnAll DEF CommitVerdict, VerdictOf
  <2>4. QED
    BY <2>2, <2>3 DEF Gate!GateNext, Gate!Decide
<1>4. CASE MarkFailed
  <2>1. row'.status = "failed" /\ row'.verdict = row.verdict /\ found' = found
    BY <1>4 DEF MarkFailed, RunInv, TypeOK, Row, evidence
  <2>2. QED
    BY <2>1 DEF Gate!GateNext, Gate!Fail
<1>5. CASE FinalizeRun
  <2>1. CASE row.status = "running"
    <3>1. row.verdict = "pending"
      BY <2>1 DEF LifecycleInv, RunInv, AttestationInv
    <3>2. row'.status = "completed" /\ row'.verdict = row.verdict /\ found' = found
      BY <1>5, <2>1 DEF FinalizeRun, RunInv, TypeOK, Row, evidence
    <3>3. QED
      BY <2>1, <3>1, <3>2 DEF Gate!GateNext, Gate!CloseUndecided
  <2>2. QED
    BY <1>1, <1>5, <2>1 DEF FinalizeRun, evidence
<1>6. ASSUME NEW p \in Phase, HandlerFinds(p)
      PROVE  [Gate!GateNext]_(Gate!gateVars)
  <2>1. Live(p) /\ p \in Finders /\ found' # {} /\ row' = row
    BY <1>6 DEF HandlerFinds
  <2>2. p # "init"
    BY <2>1 DEF Finders, SourceScans, LiveAttacks
  <2>3. att.step = "idle"
    BY <2>1, LiveIsCurrent, NoFinderAfterAttestation DEF RunInv
  <2>4. row.status = "running" /\ row.verdict = "pending"
    BY <2>1, <2>2, <2>3, LiveIsRunning
  <2>5. QED
    BY <2>1, <2>4 DEF Gate!GateNext, Gate!Collect
<1>7. CASE BeginPhase
  <2>1. row'.status = row.status /\ row'.verdict = row.verdict /\ found' = found
    BY <1>7 DEF BeginPhase, RunInv, TypeOK, Row, evidence
  <2>2. QED
    BY <1>1, <2>1
<1>8. QED
  BY <1>1, <1>2, <1>3, <1>4, <1>5, <1>6, <1>7 DEF Next, Orchestrator, Attestation,
     Driver, vars, control, evidence, StartExecution, DeadlineExceeded,
     HandlerReturns, HandlerSwallowsError, HandlerRaises, HandlerTimesOut,
     RecordPhase, LoopEnds, Close, ReadEvidence, SignVerdict, JoinExecutor,
     JoinExpires, BuildResponse, ZombieEnds, DeadlinePasses, StoreRaises,
     InitUpdateRaises, Crash, Stopped

(* Where every mode is gated and the executor's threads are joined, a run   *)
(* implements the release gate: one decision, on all the evidence the run   *)
(* ever stores, and none after it was closed or has failed.                 *)
THEOREM ImplementsReleaseGate ==
  ASSUME GatedAndJoined
  PROVE  Spec => RunImplementsGate
<1>1. Init => LifecycleInv
  BY PlanPositions DEF Init, LifecycleInv, Executing
<1>2. Init => Gate!GateInit
  BY DEF Init, Gate!GateInit
<1>3. RunInv /\ LifecycleInv /\ [Next]_vars => LifecycleInv'
  BY LifecycleStep
<1>4. RunInv /\ LifecycleInv /\ [Next]_vars => [Gate!GateNext]_(Gate!gateVars)
  BY StepImplementsGate
<1>5. QED
  BY <1>1, <1>2, <1>3, <1>4, RunInvariant, PTL DEF Spec, RunImplementsGate, Gate!GateSpec
=============================================================================
