----------------------------- MODULE PentestRun -----------------------------
(***************************************************************************)
(* One pentest run: the orchestrator's phase loop (orchestrator.py), the   *)
(* worker thread of each phase handler, the attestation handler that turns *)
(* the collected findings into a verdict, the run's row in the store, and  *)
(* the thread or CLI call that drives all of it (pentest.py).              *)
(*                                                                         *)
(* asyncio.wait_for cannot stop the thread it gave up on: a timed-out      *)
(* handler lives on in zombies and still writes to the shared state.       *)
(***************************************************************************)
EXTENDS PentestModes, FiniteSets

CONSTANTS
  Modes,         \* the modes this instance runs
  Plan,          \* mode -> sequence of phases (plan_phases)
  Gated,         \* mode -> gate_on_block
  TimeoutSpendsBudget, \* mode -> timeout_seconds >= max_run_seconds
  Entries,       \* subset of {"background", "sync"}: create_and_start, create_and_execute
  PoolSize,      \* threads of the loop's default executor
  MaxMishaps,    \* bound: phases of one run that do not simply succeed
  MaxFaults,     \* bound: store calls of the driving thread that raise
  JoinMayExpire, \* may a zombie outlive asyncio.run's 300 s executor join?
  MayCrash       \* may the process stop at any point?

Source(p) == CASE p = "dependency_scan" -> "dependency"
               [] p = "pattern_scan"    -> "pattern"
               [] OTHER                 -> "receipt"
Finders  == SourceScans \cup LiveAttacks
Sources  == {"dependency", "pattern", "receipt"}
\* Handlers that catch their own exceptions and report {"error": ...} as success.
Swallowing == SourceScans \cup Intelligence
                \cup {"zero_day_hunting", "nim_analysis", "gpt_evidence_review"}

Outcomes == {"none", "ok", "swallowed", "failed"}
Verdicts == {"pending", "SAFE", "BLOCKED"}
Statuses == {"queued", "running", "completed", "failed"}
PCs == {"prepared", "top", "submitted", "handler", "record", "close", "join",
        "except", "after", "respond", "ended", "dead", "crashed"}
Final == {"ended", "dead", "crashed"}
Row == [status : Statuses, phase : 1 .. 4, verdict : Verdicts, error : BOOLEAN,
        evidence : SUBSET Sources]

(* A plan visits phases in the order of the row's coarse phase; only the   *)
(* handlerless "complete" follows attestation.                             *)
ASSUME PlanAssumption ==
  \A m \in Modes :
    /\ Plan[m] \in Seq(Phase)
    /\ \A i, j \in 1 .. Len(Plan[m]) :
         i < j => /\ PentestPhaseOf(Plan[m][i]) <= PentestPhaseOf(Plan[m][j])
                  /\ Plan[m][i] # Plan[m][j]
                  /\ Plan[m][i] = "attestation" => Plan[m][j] = "complete"
                  /\ Plan[m][i] # "complete"

(* plan_phases begins with "init" and never leaves out the attestation.     *)
ASSUME MandatoryPhases ==
  \A m \in Modes :
    /\ Plan[m] # << >> /\ Plan[m][1] = "init"
    /\ \E i \in 1 .. Len(Plan[m]) : Plan[m][i] = "attestation"

ASSUME ConstantsAssumption ==
  /\ Gated \in [Modes -> BOOLEAN]
  /\ TimeoutSpendsBudget \in [Modes -> BOOLEAN]
  /\ Entries \subseteq {"background", "sync"}
  /\ PoolSize \in Nat \ {0} /\ MaxMishaps \in Nat /\ MaxFaults \in Nat
  /\ JoinMayExpire \in BOOLEAN /\ MayCrash \in BOOLEAN

VARIABLES
  mode, entry,  \* chosen by the request, never change
  pc,           \* where the driving thread is
  index,        \* position in the plan
  outcome,      \* how the current handler ended
  raised,       \* execute() left by an exception
  results,      \* state.phase_results
  zombies,      \* phases whose timed-out thread still runs
  late,         \* time.monotonic() > deadline
  found,        \* finding sources present in state.results
  att,          \* attestation handler: step and the has_findings it read
  signed,       \* verdict of the attestation file on disk
  row,          \* the run's row in pentest_runs
  announced,    \* payload of the run_completed event
  faults        \* store calls that raised so far

control  == <<pc, index, outcome, raised>>
evidence == <<found, att, signed>>
vars == <<mode, entry, pc, index, outcome, raised, results, zombies, late,
          found, att, signed, row, announced, faults>>

NoEvent == [status |-> "none", verdict |-> "none"]

Init ==
  /\ mode \in Modes /\ entry \in Entries
  /\ pc = "prepared" /\ index = 1 /\ outcome = "none" /\ raised = FALSE
  /\ results = [p \in Phase |-> "none"]
  /\ zombies = {} /\ late = FALSE /\ found = {}
  /\ att = [step |-> "idle", dirty |-> FALSE] /\ signed = "none"
  /\ row = [status |-> "queued", phase |-> 1, verdict |-> "pending",
            error |-> FALSE, evidence |-> {}]
  /\ announced = NoEvent /\ faults = 0

plan    == Plan[mode]
current == plan[index]
Mishaps == Cardinality({p \in Phase : results[p] \in {"failed", "swallowed"}})
\* A handler whose thread is alive, awaited or abandoned.
Live(p) == p \in zombies \/ (pc = "handler" /\ current = p)

-----------------------------------------------------------------------------
(* AgentOrchestrator.execute *)

StartExecution ==
  /\ pc = "prepared"
  /\ pc' = "top"
  /\ UNCHANGED <<mode, entry, index, outcome, raised, results, zombies, late,
                 evidence, row, announced, faults>>

(* The loop head: deadline check, then the row's phase is written, which    *)
(* also clears its error.                                                  *)
BeginPhase ==
  /\ pc = "top" /\ index <= Len(plan) /\ ~late
  /\ row' = [row EXCEPT !.phase = PentestPhaseOf(current), !.error = FALSE]
  /\ IF current = "complete"
       THEN pc' = "record" /\ outcome' = "ok"       \* no handler registered
       ELSE pc' = "submitted" /\ outcome' = "none"
  /\ UNCHANGED <<mode, entry, index, raised, results, zombies, late, evidence,
                 announced, faults>>

DeadlineExceeded ==
  /\ pc = "top" /\ index <= Len(plan) /\ late
  /\ raised' = TRUE /\ pc' = "join"
  /\ UNCHANGED <<mode, entry, index, outcome, results, zombies, late, evidence,
                 row, announced, faults>>

(* The handler gets a pool thread; _handle_init sets the row running first  *)
(* thing, well inside the shortest phase timeout.                          *)
HandlerStarts ==
  /\ pc = "submitted" /\ Cardinality(zombies) < PoolSize
  /\ pc' = "handler"
  /\ row' = IF current = "init"
              THEN [row EXCEPT !.status = "running", !.error = FALSE] ELSE row
  /\ UNCHANGED <<mode, entry, index, outcome, raised, results, zombies, late,
                 evidence, announced, faults>>

(* Mutant: attestation returns without having committed its verdict.        *)
HandlerReturnsEarly ==
  /\ pc = "handler"
  /\ pc' = "record" /\ outcome' = "ok"
  /\ UNCHANGED <<mode, entry, index, raised, results, zombies, late, evidence,
                 row, announced, faults>>

HandlerReturns ==
  /\ pc = "handler"
  /\ current = "attestation" => att.step = "committed"
  /\ pc' = "record" /\ outcome' = "ok"
  /\ UNCHANGED <<mode, entry, index, raised, results, zombies, late, evidence,
                 row, announced, faults>>

HandlerSwallowsError ==
  /\ pc = "handler" /\ current \in Swallowing /\ Mishaps < MaxMishaps
  /\ pc' = "record" /\ outcome' = "swallowed"
  /\ UNCHANGED <<mode, entry, index, raised, results, zombies, late, evidence,
                 row, announced, faults>>

(* An exception leaves the handler.  Once the verdict is committed the      *)
(* attestation handler only records metrics, which catches everything.     *)
HandlerRaises ==
  /\ pc = "handler" /\ Mishaps < MaxMishaps
  /\ current = "attestation" => att.step # "committed"
  /\ pc' = "record" /\ outcome' = "failed"
  /\ UNCHANGED <<mode, entry, index, raised, results, zombies, late, evidence,
                 row, announced, faults>>

(* wait_for gives up.  A call still waiting for a thread is cancelled; one  *)
(* that runs goes on as a zombie.                                          *)
HandlerTimesOut ==
  /\ \/ pc = "handler"
     \/ pc = "submitted" /\ Cardinality(zombies) >= PoolSize
  /\ Mishaps < MaxMishaps
  /\ zombies' = IF pc = "handler" THEN zombies \cup {current} ELSE zombies
  /\ late' = (late \/ TimeoutSpendsBudget[mode])
  /\ pc' = "record" /\ outcome' = "failed"
  /\ UNCHANGED <<mode, entry, index, raised, results, evidence, row, announced,
                 faults>>

(* Mutant: gate_on_block is not consulted.                                  *)
RecordPhaseUngated ==
  /\ pc = "record"
  /\ results' = [results EXCEPT ![current] = outcome]
  /\ pc' = "top" /\ index' = index + 1
  /\ UNCHANGED <<mode, entry, outcome, raised, zombies, late, evidence, row,
                 announced, faults>>

(* phase_results is filled in; a gated mode leaves the loop on failure.     *)
RecordPhase ==
  /\ pc = "record"
  /\ results' = [results EXCEPT ![current] = outcome]
  /\ IF outcome = "failed" /\ Gated[mode]
       THEN pc' = "close" /\ UNCHANGED index
       ELSE pc' = "top" /\ index' = index + 1
  /\ UNCHANGED <<mode, entry, outcome, raised, zombies, late, evidence, row,
                 announced, faults>>

LoopEnds ==
  /\ pc = "top" /\ index > Len(plan)
  /\ pc' = "close"
  /\ UNCHANGED <<mode, entry, index, outcome, raised, results, zombies, late,
                 evidence, row, announced, faults>>

Close ==
  /\ pc = "close"
  /\ pc' = "join"
  /\ UNCHANGED <<mode, entry, index, outcome, raised, results, zombies, late,
                 evidence, row, announced, faults>>

DeadlinePasses ==
  /\ ~late /\ pc \in {"top", "submitted", "handler", "record"}
  /\ late' = TRUE
  /\ UNCHANGED <<mode, entry, control, results, zombies, evidence, row,
                 announced, faults>>

-----------------------------------------------------------------------------
(* Handler threads *)

(* A scan or attack handler stores what it found in state.results.          *)
HandlerFinds(p) ==
  /\ Live(p) /\ p \in Finders /\ Source(p) \notin found
  /\ found' = found \cup {Source(p)}
  /\ UNCHANGED <<mode, entry, control, results, zombies, late, att, signed, row,
                 announced, faults>>

ZombieEnds(p) ==
  /\ p \in zombies
  /\ zombies' = zombies \ {p}
  /\ UNCHANGED <<mode, entry, control, results, late, evidence, row, announced,
                 faults>>

(* Mutant: has_findings forgets the dependency scan.                        *)
ReadEvidenceWithoutDependencies ==
  /\ Live("attestation") /\ att.step = "idle"
  /\ att' = [step |-> "read", dirty |-> found \ {"dependency"} # {}]
  /\ UNCHANGED <<mode, entry, control, results, zombies, late, found, signed,
                 row, announced, faults>>

(* _handle_attestation: has_findings is computed once ...                   *)
ReadEvidence ==
  /\ Live("attestation") /\ att.step = "idle"
  /\ att' = [step |-> "read", dirty |-> found # {}]
  /\ UNCHANGED <<mode, entry, control, results, zombies, late, found, signed,
                 row, announced, faults>>

(* Mutant: a third verdict the row's type does not have.                    *)
VerdictOfIncomplete(dirty) == IF dirty THEN "BLOCKED" ELSE "INCOMPLETE"

VerdictOf(dirty) == IF dirty THEN "BLOCKED" ELSE "SAFE"

(* ... the verdict is signed and written to disk ...                        *)
SignVerdict ==
  /\ Live("attestation") /\ att.step = "read"
  /\ att' = [att EXCEPT !.step = "signed"]
  /\ signed' = VerdictOf(att.dirty)
  /\ UNCHANGED <<mode, entry, control, results, zombies, late, found, row,
                 announced, faults>>

(* Mutant: the row is written before the attestation is signed.             *)
CommitBeforeSigning ==
  /\ Live("attestation") /\ att.step = "read"
  /\ att' = [att EXCEPT !.step = "committed"]
  /\ row' = [status |-> "completed", phase |-> PentestPhaseOf("attestation"),
             verdict |-> VerdictOf(att.dirty), error |-> FALSE,
             evidence |-> found]
  /\ UNCHANGED <<mode, entry, control, results, zombies, late, found, signed,
                 announced, faults>>

(* Mutant: the verdict is written whatever became of the run meanwhile, and *)
(* the run's status is left as it was.                                     *)
CommitWithoutStatus ==
  /\ Live("attestation") /\ att.step = "signed"
  /\ att' = [att EXCEPT !.step = "committed"]
  /\ row' = [row EXCEPT !.verdict = VerdictOf(att.dirty), !.evidence = found,
                        !.phase = PentestPhaseOf("attestation"), !.error = FALSE]
  /\ UNCHANGED <<mode, entry, control, results, zombies, late, found, signed,
                 announced, faults>>

(* ... and the row gets it with the results as they are by then.            *)
CommitVerdict ==
  /\ Live("attestation") /\ att.step = "signed"
  /\ att' = [att EXCEPT !.step = "committed"]
  /\ row' = [status |-> "completed", phase |-> PentestPhaseOf("attestation"),
             verdict |-> VerdictOf(att.dirty), error |-> FALSE,
             evidence |-> found]
  /\ UNCHANGED <<mode, entry, control, results, zombies, late, found, signed,
                 announced, faults>>

-----------------------------------------------------------------------------
(* The driving thread: asyncio.run, the except clause, the finalizer        *)

LeaveRun == pc' = IF raised THEN "except"
                  ELSE IF entry = "background" THEN "after" ELSE "respond"

(* asyncio.run waits for the executor's threads before it returns or        *)
(* re-raises ...                                                           *)
JoinExecutor ==
  /\ pc = "join" /\ zombies = {}
  /\ LeaveRun
  /\ UNCHANGED <<mode, entry, index, outcome, raised, results, zombies, late,
                 evidence, row, announced, faults>>

(* ... but not for longer than its join timeout.                            *)
JoinExpires ==
  /\ pc = "join" /\ zombies # {} /\ JoinMayExpire
  /\ LeaveRun
  /\ UNCHANGED <<mode, entry, index, outcome, raised, results, zombies, late,
                 evidence, row, announced, faults>>

(* Mutant: the except clause re-raises after it has marked the run.         *)
MarkFailedReraises ==
  /\ pc = "except"
  /\ row' = [row EXCEPT !.status = "failed", !.error = TRUE]
  /\ pc' = "dead"
  /\ UNCHANGED <<mode, entry, index, outcome, raised, results, zombies, late,
                 evidence, announced, faults>>

MarkFailed ==
  /\ pc = "except"
  /\ row' = [row EXCEPT !.status = "failed", !.error = TRUE]
  /\ pc' = IF entry = "background" THEN "after" ELSE "respond"
  /\ UNCHANGED <<mode, entry, index, outcome, raised, results, zombies, late,
                 evidence, announced, faults>>

(* "Finalize": only the background path has it.                             *)
FinalizeRun ==
  /\ pc = "after"
  /\ row' = IF row.status = "running"
              THEN [row EXCEPT !.status = "completed", !.error = FALSE] ELSE row
  /\ pc' = "respond"
  /\ UNCHANGED <<mode, entry, index, outcome, raised, results, zombies, late,
                 evidence, announced, faults>>

(* Mutant: run_completed is published before the finalizer.                 *)
AnnounceUnfinalized ==
  /\ pc \in {"after", "respond"}
  /\ announced' = [status |-> row.status, verdict |-> row.verdict]
  /\ pc' = IF pc = "after" THEN pc ELSE "ended"
  /\ UNCHANGED <<mode, entry, index, outcome, raised, results, zombies, late,
                 evidence, row, faults>>

(* _build_response reads the row and publishes run_completed.               *)
BuildResponse ==
  /\ pc = "respond"
  /\ announced' = [status |-> row.status, verdict |-> row.verdict]
  /\ pc' = "ended"
  /\ UNCHANGED <<mode, entry, index, outcome, raised, results, zombies, late,
                 evidence, row, faults>>

-----------------------------------------------------------------------------
(* Failures *)

(* A store call of the driving thread raises (sqlite's 10 s busy timeout).  *)
(* Inside execute it unwinds the run; in the except clause or in            *)
(* _build_response nothing catches it; the finalizer logs and goes on.     *)
StoreRaises ==
  /\ faults < MaxFaults
  /\ pc \in {"prepared", "top", "record", "close", "except", "after", "respond"}
  /\ faults' = faults + 1
  /\ raised' = (raised \/ pc \in {"prepared", "top", "record", "close"})
  /\ pc' = CASE pc \in {"prepared", "top", "record", "close"} -> "join"
             [] pc = "after"                                  -> "respond"
             [] OTHER                                         -> "dead"
  /\ results' = IF pc = "record" THEN [results EXCEPT ![current] = outcome]
                                ELSE results
  /\ UNCHANGED <<mode, entry, index, outcome, zombies, late, evidence, row,
                 announced>>

(* The very first update, by _handle_init, can raise in the handler.        *)
InitUpdateRaises ==
  /\ faults < MaxFaults /\ pc = "submitted" /\ current = "init"
  /\ faults' = faults + 1
  /\ pc' = "record" /\ outcome' = "failed"
  /\ UNCHANGED <<mode, entry, index, raised, results, zombies, late, evidence,
                 row, announced>>

(* The worker thread is a daemon and nothing resumes its run at startup.    *)
Crash ==
  /\ MayCrash /\ pc \notin Final
  /\ pc' = "crashed" /\ zombies' = {}
  /\ UNCHANGED <<mode, entry, index, outcome, raised, results, late, evidence,
                 row, announced, faults>>

Stopped ==
  /\ pc \in Final /\ zombies = {}
  /\ UNCHANGED vars

-----------------------------------------------------------------------------
Orchestrator ==
  \/ StartExecution \/ BeginPhase \/ DeadlineExceeded \/ HandlerStarts
  \/ HandlerReturns \/ HandlerSwallowsError \/ HandlerRaises \/ HandlerTimesOut
  \/ RecordPhase \/ LoopEnds \/ Close

Attestation == ReadEvidence \/ SignVerdict \/ CommitVerdict

Driver == JoinExecutor \/ JoinExpires \/ MarkFailed \/ FinalizeRun \/ BuildResponse

Next ==
  \/ Orchestrator \/ Attestation \/ Driver
  \/ \E p \in Phase : HandlerFinds(p) \/ ZombieEnds(p)
  \/ DeadlinePasses \/ StoreRaises \/ InitUpdateRaises \/ Crash \/ Stopped

Spec == Init /\ [][Next]_vars

(* The event loop keeps running and wait_for bounds every handler; a        *)
(* handler's own calls have timeouts, so an abandoned thread ends as well.  *)
Fairness ==
  /\ WF_vars(Orchestrator) /\ WF_vars(Driver) /\ WF_vars(Attestation)
  /\ \A p \in Phase : WF_vars(ZombieEnds(p))

FairSpec == Spec /\ Fairness

-----------------------------------------------------------------------------
TypeOK ==
  /\ mode \in Modes /\ entry \in Entries /\ pc \in PCs /\ index \in Nat \ {0}
  /\ outcome \in Outcomes /\ raised \in BOOLEAN
  /\ results \in [Phase -> Outcomes] /\ zombies \in SUBSET Phase
  /\ late \in BOOLEAN /\ found \in SUBSET Sources
  /\ att \in [step : {"idle", "read", "signed", "committed"}, dirty : BOOLEAN]
  /\ signed \in {"none", "SAFE", "BLOCKED"}
  /\ row \in Row
  /\ announced \in [status : Statuses, verdict : Verdicts] \cup {NoEvent}
  /\ faults \in Nat

Examined == { plan[i] : i \in 1 .. Len(plan) } \ {"attestation", "complete"}

(* In a gated mode a SAFE verdict is only ever written by a run in which    *)
(* no phase before attestation failed or timed out: the gate in execute     *)
(* leaves the loop first.                                                  *)
SafeNeedsGreenRun ==
  Gated[mode] /\ row.verdict = "SAFE"
    => \A p \in Examined : results[p] \in {"ok", "swallowed"}

(* A run none of whose scans or attacks failed has stored no finding, now   *)
(* or later, once its row says SAFE: has_findings was read after the last   *)
(* writer of state.results was done.                                       *)
SafeIsClean ==
  row.verdict = "SAFE" /\ (\A p \in Finders : results[p] # "failed")
    => found = {} /\ row.evidence = {}

(* BLOCKED is never reported without the evidence persisted beside it, and  *)
(* no verdict is in the row that is not the one signed on disk.             *)
VerdictIsBacked ==
  /\ row.verdict = "BLOCKED" => row.evidence # {}
  /\ row.verdict # "pending" => signed = row.verdict

(* A run that ends without a verdict had a failed phase or an exception.    *)
UndecidedIsExplained ==
  pc = "ended" /\ row.verdict = "pending"
    => raised \/ \E p \in Phase : results[p] = "failed"

(* Nothing changes the row after run_completed, on which the event stream   *)
(* of the run closes, except an attestation thread that timed out and then  *)
(* outlived the executor's join.                                           *)
AnnouncedIsFinal ==
  [][announced # NoEvent /\ row' # row => "attestation" \in zombies]_vars

(* Every run comes to its end and says so.                                  *)
RunIsAnnounced == <>(announced # NoEvent)

(* In a gated mode the run does what the release gate promises: it decides  *)
(* once, on all the evidence it ever stores.                                *)
Gate == INSTANCE ReleaseGate WITH
          status <- row.status, verdict <- row.verdict, evidence <- found # {}
RunImplementsGate == Gate!GateSpec

-----------------------------------------------------------------------------
(* The inductive invariant behind SafeNeedsGreenRun, SafeIsClean and        *)
(* VerdictIsBacked (PentestRunProofs).                                     *)

\* The handler of p was given a thread, or the run ended at p.
Reached(p) ==
  \E i \in 1 .. Len(plan) :
    /\ plan[i] = p
    /\ i < index \/ (i = index /\ pc \notin {"prepared", "top", "submitted"})

IndexInv ==
  /\ index \in 1 .. Len(plan) + 1
  /\ pc \in {"submitted", "handler", "record"} => index <= Len(plan)
  /\ pc = "record" => outcome # "none"

\* What the loop has not come to yet has no result.
FreshInv ==
  pc \in {"prepared", "top", "submitted", "handler", "record"}
    => \A i \in index .. Len(plan) : results[plan[i]] = "none"

GateInv ==
  Gated[mode] => \A i \in 1 .. index - 1 : results[plan[i]] \in {"ok", "swallowed"}

ZombieInv ==
  \A p \in zombies :
    /\ Reached(p)
    /\ \/ results[p] = "failed"
       \/ pc = "record" /\ current = p /\ outcome = "failed"

AttestationInv ==
  /\ att.step # "idle" => Reached("attestation")
  /\ att.step = "idle" => ~att.dirty
  /\ att.step \in {"signed", "committed"} => signed = VerdictOf(att.dirty)
  /\ row.verdict = IF att.step = "committed" THEN VerdictOf(att.dirty) ELSE "pending"
  /\ row.evidence \subseteq found
  /\ att.dirty => found # {}
  /\ att.dirty /\ att.step = "committed" => row.evidence # {}

CleanInv ==
  att.step # "idle" /\ ~att.dirty /\ (\A p \in Finders : results[p] # "failed")
    => found = {}

(* Every part of the invariant together, over any plan the assumption       *)
(* admits: what the loop has recorded, what abandoned threads may still     *)
(* write, and what the attestation has read.                               *)
RunInv ==
  /\ TypeOK /\ IndexInv /\ FreshInv /\ GateInv
  /\ ZombieInv /\ AttestationInv /\ CleanInv

(* What UndecidedIsExplained rests on: every phase passed has a result, a   *)
(* successful attestation has committed, and the loop is not left without   *)
(* an exception before the end of the plan or a failed phase.               *)
DecidedInv ==
  /\ \A i \in 1 .. index - 1 : results[plan[i]] # "none"
  /\ results["attestation"] \in {"ok", "swallowed"} => att.step = "committed"
  /\ pc = "record" /\ current = "attestation" /\ outcome # "failed"
       => att.step = "committed"
  /\ pc \in {"close", "join", "except", "after", "respond", "ended"} /\ ~raised
       => index > Len(plan) \/ \E p \in Phase : results[p] = "failed"

(* What RunImplementsGate rests on, in gated modes whose threads are joined: *)
(* the row is queued until _handle_init, running until the verdict, and     *)
(* nothing but the plan's phases has a result.                              *)
Executing == {"prepared", "top", "submitted", "handler", "record", "close", "join"}
GatedAndJoined == (\A m \in Modes : Gated[m]) /\ ~JoinMayExpire

LifecycleInv ==
  /\ att.step = "committed" => row.status \in {"completed", "failed"}
  /\ pc \in Executing =>
       row.status \in IF att.step = "committed" THEN {"completed"} ELSE {"queued", "running"}
  /\ index = 1 /\ pc \in {"prepared", "top", "submitted"} => row.status = "queued"
  /\ index > 1 \/ pc = "handler" \/ (pc = "record" /\ outcome # "failed")
       => row.status # "queued"
  /\ zombies # {} => pc \in Executing
  /\ \A p \in Phase : results[p] # "none"
       => \E i \in 1 .. Len(plan) : i <= index /\ plan[i] = p
=============================================================================
