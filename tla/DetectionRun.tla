---------------------------- MODULE DetectionRun ----------------------------
(***************************************************************************)
(* One detection run (control/service.py): created by POST /api/runs,       *)
(* executed afterwards as a background task, step by step up to a verdict   *)
(* about the candidate and about its patch.  Every step that calls the      *)
(* store may see it raise; where that lands depends on which try the call   *)
(* stands in, and some stand in none.                                      *)
(*                                                                         *)
(* A patch is judged by the tests run in its isolated copy of the           *)
(* repository; its size stands for the rest of the ranking key.            *)
(***************************************************************************)
EXTENDS Naturals, FiniteSets

CONSTANTS
  Sizes,     \* sizes of a patch: files, lines and test time together
  MaxFaults, \* bound: store calls that raise
  MayCrash   \* may the process stop at any point?

ASSUME DetectionAssumption ==
  Sizes \subseteq Nat /\ MaxFaults \in Nat /\ MayCrash \in BOOLEAN

Request == [remediate : BOOLEAN, proposer : BOOLEAN, reviewer : BOOLEAN]
Candidate == [source : {"deterministic", "nvidia_nim"}, verified : BOOLEAN, size : Sizes]
Row == [lifecycle : {"queued", "running", "completed", "failed"},
        candidate : {"pending", "safe", "blocked"},
        patch : {"pending", "safe", "blocked", "failed", "not_applicable"},
        degraded : BOOLEAN, error : BOOLEAN]
Kinds == {"run_queued", "scan_started", "scan_completed", "finding_confirmed",
          "isolated_patch_started", "model_candidate_started",
          "model_candidate_verified", "model_candidate_rejected",
          "model_candidate_failed", "candidate_selected", "patch_verified",
          "patch_rejected", "gpt_evidence_review_skipped",
          "gpt_evidence_review_failed", "gpt_evidence_review_completed",
          "run_failed"}

\* Steps inside the try of execute, and of these the ones in the model's try.
InModelTry == {"proposing", "reporting"}
InTry == InModelTry \cup
  {"scanning", "judging", "confirming", "choosing", "building", "asking",
   "denouncing", "selecting", "announcing", "reviewing", "closing"}
BeforeTry == {"creating", "authorizing", "starting", "opening"}
InExcept == {"failing", "marking"}
Final == {"returned", "lost", "crashed"}
PCs == InTry \cup BeforeTry \cup InExcept \cup Final

VARIABLES
  request,    \* what the caller asked for and what is configured
  pc,         \* the step the thread is at; "lost": it ended by an exception
  finding,    \* the detector found something
  candidates, \* the candidate patches, verified or not
  selected,   \* the one ranked first
  degraded,   \* integration_health of execute
  row,        \* the run's row in the store
  events,     \* kinds of the run's events in the store
  faults,     \* store calls that raised
  raised      \* ghost: the steps at which an exception was raised

vars == <<request, pc, finding, candidates, selected, degraded, row, events, faults,
          raised>>
work == <<finding, candidates, selected, degraded>>

NoCandidate == [source |-> "none", verified |-> FALSE, size |-> 0]

Init ==
  /\ request \in Request
  /\ pc = "creating" /\ finding = FALSE /\ candidates = {}
  /\ selected = NoCandidate /\ degraded = FALSE
  /\ row = [lifecycle |-> "queued", candidate |-> "pending", patch |-> "pending",
            degraded |-> FALSE, error |-> FALSE]
  /\ events = {} /\ faults = 0 /\ raised = {}

Go(from, to) == pc = from /\ pc' = to
Note(kind) == events' = events \cup {kind} /\ UNCHANGED <<row, request, faults, raised>>
Quiet == UNCHANGED <<row, events, request, faults, raised>>
RaisedHere == raised' = raised \cup {pc} /\ UNCHANGED <<row, events, request>>
(* update_run rewrites the whole row, the error included.                   *)
Update(next) == row' = [next EXCEPT !.error = FALSE]
                  /\ UNCHANGED <<events, request, faults, raised>>

-----------------------------------------------------------------------------
(* create, and the steps of execute that no try protects                    *)

QueueRun == Go("creating", "authorizing") /\ Note("run_queued") /\ UNCHANGED work

Authorize == Go("authorizing", "starting") /\ Quiet /\ UNCHANGED work

(* The repository is gone, or no longer below an allowed root.              *)
RefuseRepository ==
  Go("authorizing", "lost") /\ RaisedHere /\ UNCHANGED <<work, faults>>

MarkRunning ==
  /\ Go("starting", "opening") /\ Update([row EXCEPT !.lifecycle = "running"])
  /\ UNCHANGED work

OpenScan == Go("opening", "scanning") /\ Note("scan_started") /\ UNCHANGED work

-----------------------------------------------------------------------------
(* Detection *)

Scan ==
  /\ Go("scanning", "judging") /\ Note("scan_completed")
  /\ finding' \in BOOLEAN
  /\ UNCHANGED <<candidates, selected, degraded>>

NothingFound ==
  /\ ~finding /\ Go("judging", "returned")
  /\ Update([row EXCEPT !.lifecycle = "completed", !.candidate = "safe",
                        !.patch = "not_applicable"])
  /\ UNCHANGED work

BlockCandidate ==
  /\ finding /\ Go("judging", "confirming")
  /\ Update([row EXCEPT !.candidate = "blocked"])
  /\ UNCHANGED work

ConfirmFinding ==
  Go("confirming", "choosing") /\ Note("finding_confirmed") /\ UNCHANGED work

DetectOnly ==
  /\ ~request.remediate /\ Go("choosing", "returned")
  /\ Update([row EXCEPT !.lifecycle = "completed", !.patch = "not_applicable"])
  /\ UNCHANGED work

-----------------------------------------------------------------------------
(* Remediation *)

StartPatch ==
  /\ request.remediate /\ Go("choosing", "building")
  /\ Note("isolated_patch_started") /\ UNCHANGED work

(* The deterministic patch is built and its tests run, in one step: neither *)
(* touches the store.                                                      *)
BuildPatch ==
  /\ Go("building", IF request.proposer THEN "asking" ELSE "selecting") /\ Quiet
  /\ \E ok \in BOOLEAN, size \in Sizes :
       candidates' = {[source |-> "deterministic", verified |-> ok, size |-> size]}
  /\ UNCHANGED <<finding, selected, degraded>>

AskModel ==
  Go("asking", "proposing") /\ Note("model_candidate_started") /\ UNCHANGED work

(* The proposal was materialised and tested: it joins the candidates before *)
(* it is reported.                                                         *)
ModelProposes ==
  /\ Go("proposing", "reporting") /\ Quiet
  /\ \E ok \in BOOLEAN, size \in Sizes :
       candidates' = candidates \cup
         {[source |-> "nvidia_nim", verified |-> ok, size |-> size]}
  /\ UNCHANGED <<finding, selected, degraded>>

\* The model's candidate, once there is one.
Proposed == CHOOSE c \in candidates : c.source = "nvidia_nim"

ReportProposal ==
  /\ Go("reporting", "selecting")
  /\ Note(IF Proposed.verified THEN "model_candidate_verified"
                               ELSE "model_candidate_rejected")
  /\ UNCHANGED work

(* No answer, an unsafe proposal, a workspace that cannot be written.       *)
ModelFails ==
  /\ Go("proposing", "denouncing") /\ RaisedHere /\ UNCHANGED <<work, faults>>

DenounceModel ==
  /\ Go("denouncing", "selecting") /\ Note("model_candidate_failed")
  /\ degraded' = TRUE
  /\ UNCHANGED <<finding, candidates, selected>>

(* Mutant: verification is not the first part of the key.                  *)
RanksBySize(c, d) ==
  \/ c.size < d.size
  \/ c.size = d.size /\ c.source = "deterministic"

(* rank_candidates' key.                                                    *)
RanksBefore(c, d) ==
  \/ c.verified /\ ~d.verified
  \/ /\ c.verified = d.verified
     /\ \/ c.size < d.size
        \/ c.size = d.size /\ c.source = "deterministic"

(* The first after sorting: none ranks before it.                           *)
SelectCandidate ==
  /\ Go("selecting", "announcing") /\ Note("candidate_selected")
  /\ selected' \in {c \in candidates : \A d \in candidates \ {c} : ~RanksBefore(d, c)}
  /\ UNCHANGED <<finding, candidates, degraded>>

AnnouncePatch ==
  /\ Go("announcing", "reviewing")
  /\ Note(IF selected.verified THEN "patch_verified" ELSE "patch_rejected")
  /\ UNCHANGED work

(* _review_release_evidence: the review is advisory and changes no verdict. *)
SkipReview ==
  /\ ~request.reviewer /\ Go("reviewing", "closing")
  /\ Note("gpt_evidence_review_skipped") /\ UNCHANGED work

Review ==
  /\ request.reviewer /\ Go("reviewing", "closing")
  /\ Note("gpt_evidence_review_completed") /\ UNCHANGED work

ReviewFails ==
  /\ request.reviewer /\ Go("reviewing", "closing")
  /\ Note("gpt_evidence_review_failed")
  /\ degraded' = TRUE
  /\ UNCHANGED <<finding, candidates, selected>>

Complete ==
  /\ Go("closing", "returned")
  /\ Update([row EXCEPT !.lifecycle = "completed", !.degraded = degraded,
               !.patch = IF selected.verified THEN "safe" ELSE "blocked"])
  /\ UNCHANGED work

-----------------------------------------------------------------------------
(* The except clause of execute *)

(* The detector, the patcher or the test run raises.                        *)
WorkRaises ==
  /\ pc \in {"scanning", "building"} /\ pc' = "failing"
  /\ RaisedHere /\ UNCHANGED <<work, faults>>

ReportFailure == Go("failing", "marking") /\ Note("run_failed") /\ UNCHANGED work

(* Mutants: both verdicts fail; the update forgets the error it clears.     *)
MarkBothFailed ==
  /\ Go("marking", "returned")
  /\ row' = [row EXCEPT !.lifecycle = "failed", !.patch = "failed",
                        !.candidate = "failed", !.error = TRUE]
  /\ UNCHANGED <<events, request, faults, raised, work>>

MarkFailedClearingError ==
  /\ Go("marking", "returned")
  /\ Update([row EXCEPT !.lifecycle = "failed", !.patch = "failed"])
  /\ UNCHANGED work

MarkFailed ==
  /\ Go("marking", "returned")
  /\ row' = [row EXCEPT !.lifecycle = "failed", !.patch = "failed", !.error = TRUE]
  /\ UNCHANGED <<events, request, faults, raised, work>>

(* A store call raises, say on sqlite's busy timeout.                       *)
CallsStore == PCs \ (Final \cup {"authorizing", "building", "proposing"})

(* Mutant: what the model's except clause does is outside the other try.    *)
StoreRaisesUnprotected ==
  /\ pc \in CallsStore /\ faults < MaxFaults
  /\ faults' = faults + 1
  /\ pc' = CASE pc \in InModelTry                          -> "denouncing"
             [] pc \in InTry \ (InModelTry \cup {"denouncing"}) -> "failing"
             [] OTHER                                      -> "lost"
  /\ RaisedHere /\ UNCHANGED work

StoreRaises ==
  /\ pc \in CallsStore /\ faults < MaxFaults
  /\ faults' = faults + 1
  /\ pc' = CASE pc \in InModelTry           -> "denouncing"
             [] pc \in InTry \ InModelTry   -> "failing"
             [] OTHER                       -> "lost"
  /\ RaisedHere /\ UNCHANGED work

(* Nothing resumes a run when the process starts again.                     *)
Crash ==
  /\ MayCrash /\ pc \notin Final
  /\ pc' = "crashed"
  /\ Quiet /\ UNCHANGED work

Stopped == pc \in Final /\ UNCHANGED vars

-----------------------------------------------------------------------------
Preflight == QueueRun \/ Authorize \/ RefuseRepository \/ MarkRunning \/ OpenScan
Detection == Scan \/ NothingFound \/ BlockCandidate \/ ConfirmFinding \/ DetectOnly
Remediation ==
  \/ StartPatch \/ BuildPatch \/ AskModel \/ ModelProposes \/ ReportProposal
  \/ ModelFails \/ DenounceModel \/ SelectCandidate \/ AnnouncePatch
  \/ SkipReview \/ Review \/ ReviewFails \/ Complete
Failing == WorkRaises \/ ReportFailure \/ MarkFailed

Execute == Preflight \/ Detection \/ Remediation \/ Failing
Next == Execute \/ StoreRaises \/ Crash \/ Stopped

Spec == Init /\ [][Next]_vars

(* The thread runs on: model calls, the reviewer and the tests time out.    *)
FairSpec == Spec /\ WF_vars(Execute)

-----------------------------------------------------------------------------
TypeOK ==
  /\ request \in Request /\ pc \in PCs /\ finding \in BOOLEAN
  /\ candidates \in SUBSET Candidate /\ selected \in Candidate \cup {NoCandidate}
  /\ degraded \in BOOLEAN /\ row \in Row /\ events \in SUBSET Kinds
  /\ faults \in 0 .. MaxFaults /\ raised \in SUBSET PCs

(* The verdicts of a row and what they rest on, whatever raised on the way: *)
(* a patch is SAFE only if the candidate ranked first passed its tests, and *)
(* BLOCKED only if none did; nothing is left undecided on completion.       *)
ReleaseIsVerified ==
  /\ row.patch = "safe" => selected \in candidates /\ selected.verified
  /\ row.patch = "blocked" => candidates # {} /\ \A c \in candidates : ~c.verified
  /\ row.patch = "not_applicable" => candidates = {}
  /\ row.candidate = "safe" => ~finding
  /\ row.lifecycle = "completed" => row.candidate # "pending" /\ row.patch # "pending"

(* The row and the events are written one after the other: each claim of    *)
(* the row is borne out by the events a dashboard replays, a confirmed      *)
(* finding keeps the candidate blocked, and a failure keeps its error.      *)
EventsExplainRow ==
  /\ row.patch = "safe" => "patch_verified" \in events
  /\ row.patch = "blocked" => "patch_rejected" \in events
  /\ "finding_confirmed" \in events => row.candidate = "blocked"
  /\ row.lifecycle = "completed" /\ row.candidate = "blocked"
       => "finding_confirmed" \in events
  /\ row.lifecycle = "failed"
       <=> "run_failed" \in events /\ row.error /\ row.patch = "failed"
  /\ "run_failed" \in events => row.lifecycle # "completed"

(* Every run reaches a terminal row, unless the process stopped or an        *)
(* exception lost its thread.  No single one does that once the scan has     *)
(* begun: only what is raised before the try, or a second time by the clause *)
(* that reports the first.                                                  *)
LostForGood ==
  /\ pc = "lost"
  /\ \/ raised \cap BeforeTry # {}
     \/ raised \cap InTry # {} /\ raised \cap InExcept # {}
RunSettles ==
  <>(row.lifecycle \in {"completed", "failed"} \/ LostForGood \/ pc = "crashed")

-----------------------------------------------------------------------------
(* The inductive invariant behind ReleaseIsVerified and EventsExplainRow    *)
(* (DetectionRunProofs): what is settled at which step.                     *)

Undetected == BeforeTry \cup {"scanning", "judging"}
Ranked == {"announcing", "reviewing", "closing"}
Remediating == InModelTry \cup Ranked \cup {"building", "asking", "denouncing", "selecting"}

\* The verdict on the patch and the end of the lifecycle come last of all.
OpenInv ==
  pc # "returned" => row.patch = "pending" /\ row.lifecycle \in {"queued", "running"}

CandidatesInv ==
  /\ pc \in Undetected \cup {"confirming", "choosing", "building"} => candidates = {}
  /\ pc \in Ranked
       => selected \in candidates /\ \A c \in candidates : c.verified => selected.verified

FindingInv ==
  /\ pc \in Undetected => row.candidate = "pending"
  /\ pc \in {"confirming", "choosing"} \cup Remediating => row.candidate = "blocked"
  /\ pc \in {"choosing"} \cup Remediating => "finding_confirmed" \in events
  /\ row.candidate = "safe" => pc = "returned"

ReportInv ==
  /\ pc \in {"reviewing", "closing"}
       => (IF selected.verified THEN "patch_verified" ELSE "patch_rejected") \in events
  /\ pc = "marking" => "run_failed" \in events
  /\ pc \in PCs \ (Final \cup {"marking"}) => "run_failed" \notin events

DetectInv ==
  /\ TypeOK /\ OpenInv /\ CandidatesInv /\ FindingInv /\ ReportInv
  /\ ReleaseIsVerified /\ EventsExplainRow
=============================================================================
