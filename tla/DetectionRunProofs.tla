------------------------- MODULE DetectionRunProofs -------------------------
(***************************************************************************)
(* What a detection run reports is verified and borne out by its events,   *)
(* for any number of failing store calls and any sizes of patches.          *)
(***************************************************************************)
EXTENDS DetectionRun, TLAPS

(* A patch that was built and tested is a candidate.                        *)
LEMMA CandidateIsTyped ==
  ASSUME NEW source \in {"deterministic", "nvidia_nim"}, NEW ok \in BOOLEAN,
         NEW size \in Sizes
  PROVE  [source |-> source, verified |-> ok, size |-> size] \in Candidate
BY DEF Candidate

(* The row keeps its type.                                                  *)
LEMMA RowTypeStep ==
  ASSUME DetectInv, [Next]_vars
  PROVE  row' \in Row
<1> USE DEF Go, Note, Quiet, RaisedHere, Update, work, DetectInv, TypeOK, Row
<1>1. CASE Preflight
  BY <1>1 DEF Preflight, QueueRun, Authorize, RefuseRepository, MarkRunning,
     OpenScan
<1>2. CASE Detection
  BY <1>2 DEF Detection, Scan, NothingFound, BlockCandidate, ConfirmFinding,
     DetectOnly
<1>3. CASE BuildPatch \/ ModelProposes
  BY <1>3 DEF BuildPatch, ModelProposes
<1>4. CASE StartPatch \/ AskModel \/ ReportProposal \/ ModelFails \/ DenounceModel
          \/ SelectCandidate
  BY <1>4 DEF StartPatch, AskModel, ReportProposal, ModelFails, DenounceModel,
     SelectCandidate
<1>5. CASE AnnouncePatch \/ SkipReview \/ Review \/ ReviewFails
  BY <1>5 DEF AnnouncePatch, SkipReview, Review, ReviewFails
<1>6. CASE Complete
  BY <1>6 DEF Complete
<1>7. CASE Failing
  BY <1>7 DEF Failing, WorkRaises, ReportFailure, MarkFailed
<1>8. CASE StoreRaises \/ Crash
  BY <1>8 DEF StoreRaises, CallsStore, Crash
<1>9. CASE Stopped \/ UNCHANGED vars
  BY <1>9 DEF Stopped, vars
<1>10. QED
  BY <1>1, <1>2, <1>3, <1>4, <1>5, <1>6, <1>7, <1>8, <1>9 DEF Next, Execute,
     Remediation

(* So do the variables of execute.                                          *)
LEMMA WorkTypeStep ==
  ASSUME DetectInv, [Next]_vars
  PROVE  /\ request' \in Request /\ pc' \in PCs /\ finding' \in BOOLEAN
         /\ candidates' \in SUBSET Candidate
         /\ selected' \in Candidate \cup {NoCandidate}
         /\ degraded' \in BOOLEAN /\ faults' \in 0 .. MaxFaults
         /\ raised' \in SUBSET PCs
<1> USE DEF Go, Note, Quiet, RaisedHere, Update, work, DetectInv, TypeOK, PCs, BeforeTry,
   InTry, InModelTry, InExcept, Final
<1>1. CASE Preflight
  BY <1>1 DEF Preflight, QueueRun, Authorize, RefuseRepository, MarkRunning,
     OpenScan
<1>2. CASE Detection
  BY <1>2 DEF Detection, Scan, NothingFound, BlockCandidate, ConfirmFinding,
     DetectOnly
<1>3. CASE BuildPatch \/ ModelProposes
  BY <1>3, CandidateIsTyped DEF BuildPatch, ModelProposes
<1>4. CASE StartPatch \/ AskModel \/ ReportProposal \/ ModelFails \/ DenounceModel
          \/ SelectCandidate
  BY <1>4 DEF StartPatch, AskModel, ReportProposal, ModelFails, DenounceModel,
     SelectCandidate
<1>5. CASE AnnouncePatch \/ SkipReview \/ Review \/ ReviewFails
  BY <1>5 DEF AnnouncePatch, SkipReview, Review, ReviewFails
<1>6. CASE Complete
  BY <1>6 DEF Complete
<1>7. CASE Failing
  BY <1>7 DEF Failing, WorkRaises, ReportFailure, MarkFailed
<1>8. CASE StoreRaises \/ Crash
  BY <1>8, DetectionAssumption DEF StoreRaises, CallsStore, Crash
<1>9. CASE Stopped \/ UNCHANGED vars
  BY <1>9 DEF Stopped, vars
<1>10. QED
  BY <1>1, <1>2, <1>3, <1>4, <1>5, <1>6, <1>7, <1>8, <1>9 DEF Next, Execute,
     Remediation

(* And the events.                                                          *)
LEMMA EventsTypeStep ==
  ASSUME DetectInv, [Next]_vars
  PROVE  events' \in SUBSET Kinds
<1> USE DEF Go, Note, Quiet, RaisedHere, Update, work, DetectInv, TypeOK, Kinds
<1>1. CASE Preflight
  BY <1>1 DEF Preflight, QueueRun, Authorize, RefuseRepository, MarkRunning,
     OpenScan
<1>2. CASE Detection
  BY <1>2 DEF Detection, Scan, NothingFound, BlockCandidate, ConfirmFinding,
     DetectOnly
<1>3. CASE BuildPatch \/ ModelProposes
  BY <1>3 DEF BuildPatch, ModelProposes
<1>4. CASE StartPatch \/ AskModel \/ ReportProposal \/ ModelFails \/ DenounceModel
          \/ SelectCandidate
  BY <1>4 DEF StartPatch, AskModel, ReportProposal, ModelFails, DenounceModel,
     SelectCandidate
<1>5. CASE AnnouncePatch \/ SkipReview \/ Review \/ ReviewFails
  BY <1>5 DEF AnnouncePatch, SkipReview, Review, ReviewFails
<1>6. CASE Complete
  BY <1>6 DEF Complete
<1>7. CASE Failing
  BY <1>7 DEF Failing, WorkRaises, ReportFailure, MarkFailed
<1>8. CASE StoreRaises \/ Crash
  BY <1>8 DEF StoreRaises, CallsStore, Crash
<1>9. CASE Stopped \/ UNCHANGED vars
  BY <1>9 DEF Stopped, vars
<1>10. QED
  BY <1>1, <1>2, <1>3, <1>4, <1>5, <1>6, <1>7, <1>8, <1>9 DEF Next, Execute,
     Remediation

(* There is no verdict on the patch before the last step.                   *)
LEMMA OpenStep ==
  ASSUME DetectInv, [Next]_vars
  PROVE  OpenInv'
<1> USE DEF Go, Note, Quiet, RaisedHere, Update, work, DetectInv, OpenInv, TypeOK, Row,
   PCs, BeforeTry, InTry, InModelTry, InExcept, Final
<1>1. CASE Preflight
  BY <1>1 DEF Preflight, QueueRun, Authorize, RefuseRepository, MarkRunning,
     OpenScan
<1>2. CASE Detection
  BY <1>2 DEF Detection, Scan, NothingFound, BlockCandidate, ConfirmFinding,
     DetectOnly
<1>3. CASE BuildPatch \/ ModelProposes
  BY <1>3 DEF BuildPatch, ModelProposes
<1>4. CASE StartPatch \/ AskModel \/ ReportProposal \/ ModelFails \/ DenounceModel
          \/ SelectCandidate
  BY <1>4 DEF StartPatch, AskModel, ReportProposal, ModelFails, DenounceModel,
     SelectCandidate
<1>5. CASE AnnouncePatch \/ SkipReview \/ Review \/ ReviewFails
  BY <1>5 DEF AnnouncePatch, SkipReview, Review, ReviewFails
<1>6. CASE Complete
  BY <1>6 DEF Complete
<1>7. CASE Failing
  BY <1>7 DEF Failing, WorkRaises, ReportFailure, MarkFailed
<1>8. CASE StoreRaises \/ Crash
  BY <1>8 DEF StoreRaises, CallsStore, Crash
<1>9. CASE Stopped \/ UNCHANGED vars
  BY <1>9 DEF Stopped, vars
<1>10. QED
  BY <1>1, <1>2, <1>3, <1>4, <1>5, <1>6, <1>7, <1>8, <1>9 DEF Next, Execute,
     Remediation

(* The candidate ranked first is verified if any is.                        *)
LEMMA CandidatesStep ==
  ASSUME DetectInv, [Next]_vars
  PROVE  CandidatesInv'
<1> USE DEF Go, Note, Quiet, RaisedHere, Update, work, DetectInv, CandidatesInv, TypeOK,
   Candidate, RanksBefore, Undetected, Ranked, PCs, BeforeTry, InTry,
   InModelTry, InExcept, Final
<1>1. CASE Preflight
  BY <1>1 DEF Preflight, QueueRun, Authorize, RefuseRepository, MarkRunning,
     OpenScan
<1>2. CASE Detection
  BY <1>2 DEF Detection, Scan, NothingFound, BlockCandidate, ConfirmFinding,
     DetectOnly
<1>3. CASE BuildPatch \/ ModelProposes
  BY <1>3 DEF BuildPatch, ModelProposes
<1>4. CASE StartPatch \/ AskModel \/ ReportProposal \/ ModelFails \/ DenounceModel
          \/ SelectCandidate
  BY <1>4 DEF StartPatch, AskModel, ReportProposal, ModelFails, DenounceModel,
     SelectCandidate
<1>5. CASE AnnouncePatch \/ SkipReview \/ Review \/ ReviewFails
  BY <1>5 DEF AnnouncePatch, SkipReview, Review, ReviewFails
<1>6. CASE Complete
  BY <1>6 DEF Complete
<1>7. CASE Failing
  BY <1>7 DEF Failing, WorkRaises, ReportFailure, MarkFailed
<1>8. CASE StoreRaises \/ Crash
  BY <1>8 DEF StoreRaises, CallsStore, Crash
<1>9. CASE Stopped \/ UNCHANGED vars
  BY <1>9 DEF Stopped, vars
<1>10. QED
  BY <1>1, <1>2, <1>3, <1>4, <1>5, <1>6, <1>7, <1>8, <1>9 DEF Next, Execute,
     Remediation

(* The candidate is blocked before the finding is reported.                 *)
LEMMA FindingStep ==
  ASSUME DetectInv, [Next]_vars
  PROVE  FindingInv'
<1> USE DEF Go, Note, Quiet, RaisedHere, Update, work, DetectInv, FindingInv, TypeOK, Row,
   Undetected, Ranked, Remediating, PCs, BeforeTry, InTry, InModelTry,
   InExcept, Final
<1>1. CASE Preflight
  BY <1>1 DEF Preflight, QueueRun, Authorize, RefuseRepository, MarkRunning,
     OpenScan
<1>2. CASE Detection
  BY <1>2 DEF Detection, Scan, NothingFound, BlockCandidate, ConfirmFinding,
     DetectOnly
<1>3. CASE BuildPatch \/ ModelProposes
  BY <1>3 DEF BuildPatch, ModelProposes
<1>4. CASE StartPatch \/ AskModel \/ ReportProposal \/ ModelFails \/ DenounceModel
          \/ SelectCandidate
  BY <1>4 DEF StartPatch, AskModel, ReportProposal, ModelFails, DenounceModel,
     SelectCandidate
<1>5. CASE AnnouncePatch \/ SkipReview \/ Review \/ ReviewFails
  BY <1>5 DEF AnnouncePatch, SkipReview, Review, ReviewFails
<1>6. CASE Complete
  BY <1>6 DEF Complete
<1>7. CASE Failing
  BY <1>7 DEF Failing, WorkRaises, ReportFailure, MarkFailed
<1>8. CASE StoreRaises \/ Crash
  BY <1>8 DEF StoreRaises, CallsStore, Crash
<1>9. CASE Stopped \/ UNCHANGED vars
  BY <1>9 DEF Stopped, vars
<1>10. QED
  BY <1>1, <1>2, <1>3, <1>4, <1>5, <1>6, <1>7, <1>8, <1>9 DEF Next, Execute,
     Remediation

(* What has been reported by the time the verdict is written.               *)
LEMMA ReportStep ==
  ASSUME DetectInv, [Next]_vars
  PROVE  ReportInv'
<1> USE DEF Go, Note, Quiet, RaisedHere, Update, work, DetectInv, ReportInv, TypeOK,
   Kinds, Undetected, Ranked, PCs, BeforeTry, InTry, InModelTry, InExcept,
   Final
<1>1. CASE Preflight
  BY <1>1 DEF Preflight, QueueRun, Authorize, RefuseRepository, MarkRunning,
     OpenScan
<1>2. CASE Detection
  BY <1>2 DEF Detection, Scan, NothingFound, BlockCandidate, ConfirmFinding,
     DetectOnly
<1>3. CASE BuildPatch \/ ModelProposes
  BY <1>3 DEF BuildPatch, ModelProposes
<1>4. CASE StartPatch \/ AskModel \/ ReportProposal \/ ModelFails \/ DenounceModel
          \/ SelectCandidate
  BY <1>4 DEF StartPatch, AskModel, ReportProposal, ModelFails, DenounceModel,
     SelectCandidate
<1>5. CASE AnnouncePatch \/ SkipReview \/ Review \/ ReviewFails
  BY <1>5 DEF AnnouncePatch, SkipReview, Review, ReviewFails
<1>6. CASE Complete
  BY <1>6 DEF Complete
<1>7. CASE Failing
  BY <1>7 DEF Failing, WorkRaises, ReportFailure, MarkFailed
<1>8. CASE StoreRaises \/ Crash
  BY <1>8 DEF StoreRaises, CallsStore, Crash
<1>9. CASE Stopped \/ UNCHANGED vars
  BY <1>9 DEF Stopped, vars
<1>10. QED
  BY <1>1, <1>2, <1>3, <1>4, <1>5, <1>6, <1>7, <1>8, <1>9 DEF Next, Execute,
     Remediation

(* The verdicts rest on the candidates.                                     *)
LEMMA ReleaseStep ==
  ASSUME DetectInv, [Next]_vars
  PROVE  ReleaseIsVerified'
<1> USE DEF Go, Note, Quiet, RaisedHere, Update, work, DetectInv, ReleaseIsVerified,
   OpenInv, CandidatesInv, FindingInv, TypeOK, Row, Undetected, Ranked,
   Remediating, PCs, BeforeTry, InTry, InModelTry, InExcept, Final
<1>1. CASE Preflight
  BY <1>1 DEF Preflight, QueueRun, Authorize, RefuseRepository, MarkRunning,
     OpenScan
<1>2. CASE Detection
  <2>1. CASE Scan
    BY <2>1 DEF Scan
  <2>2. CASE NothingFound
    BY <2>2 DEF NothingFound
  <2>3. CASE BlockCandidate
    BY <2>3 DEF BlockCandidate
  <2>4. CASE ConfirmFinding
    BY <2>4 DEF ConfirmFinding
  <2>5. CASE DetectOnly
    BY <2>5 DEF DetectOnly
  <2>6. QED
    BY <1>2, <2>1, <2>2, <2>3, <2>4, <2>5 DEF Detection
<1>3. CASE BuildPatch \/ ModelProposes
  BY <1>3 DEF BuildPatch, ModelProposes
<1>4. CASE StartPatch \/ AskModel \/ ReportProposal \/ ModelFails \/ DenounceModel
          \/ SelectCandidate
  BY <1>4 DEF StartPatch, AskModel, ReportProposal, ModelFails, DenounceModel,
     SelectCandidate
<1>5. CASE AnnouncePatch \/ SkipReview \/ Review \/ ReviewFails
  BY <1>5 DEF AnnouncePatch, SkipReview, Review, ReviewFails
<1>6. CASE Complete
  BY <1>6 DEF Complete
<1>7. CASE Failing
  BY <1>7 DEF Failing, WorkRaises, ReportFailure, MarkFailed
<1>8. CASE StoreRaises \/ Crash
  BY <1>8 DEF StoreRaises, CallsStore, Crash
<1>9. CASE Stopped \/ UNCHANGED vars
  BY <1>9 DEF Stopped, vars
<1>10. QED
  BY <1>1, <1>2, <1>3, <1>4, <1>5, <1>6, <1>7, <1>8, <1>9 DEF Next, Execute,
     Remediation

(* The verdicts are borne out by the events.                                *)
LEMMA ExplainStep ==
  ASSUME DetectInv, [Next]_vars
  PROVE  EventsExplainRow'
<1> USE DEF Go, Note, Quiet, RaisedHere, Update, work, DetectInv, EventsExplainRow,
   OpenInv, FindingInv, ReportInv, TypeOK, Row, Undetected, Ranked,
   Remediating, PCs, BeforeTry, InTry, InModelTry, InExcept, Final
<1>1. CASE Preflight
  BY <1>1 DEF Preflight, QueueRun, Authorize, RefuseRepository, MarkRunning,
     OpenScan
<1>2. CASE Detection
  <2>1. CASE Scan
    BY <2>1 DEF Scan
  <2>2. CASE NothingFound
    BY <2>2 DEF NothingFound
  <2>3. CASE BlockCandidate
    BY <2>3 DEF BlockCandidate
  <2>4. CASE ConfirmFinding
    BY <2>4 DEF ConfirmFinding
  <2>5. CASE DetectOnly
    BY <2>5 DEF DetectOnly
  <2>6. QED
    BY <1>2, <2>1, <2>2, <2>3, <2>4, <2>5 DEF Detection
<1>3. CASE BuildPatch \/ ModelProposes
  BY <1>3 DEF BuildPatch, ModelProposes
<1>4. CASE StartPatch \/ AskModel \/ ReportProposal \/ ModelFails \/ DenounceModel
          \/ SelectCandidate
  <2>1. CASE StartPatch
    BY <2>1 DEF StartPatch
  <2>2. CASE AskModel
    BY <2>2 DEF AskModel
  <2>3. CASE ReportProposal
    BY <2>3 DEF ReportProposal
  <2>4. CASE ModelFails
    BY <2>4 DEF ModelFails
  <2>5. CASE DenounceModel
    BY <2>5 DEF DenounceModel
  <2>6. CASE SelectCandidate
    BY <2>6 DEF SelectCandidate
  <2>7. QED
    BY <1>4, <2>1, <2>2, <2>3, <2>4, <2>5, <2>6
<1>5. CASE AnnouncePatch \/ SkipReview \/ Review \/ ReviewFails
  BY <1>5 DEF AnnouncePatch, SkipReview, Review, ReviewFails
<1>6. CASE Complete
  BY <1>6 DEF Complete
<1>7. CASE Failing
  <2>1. CASE WorkRaises
    BY <2>1 DEF WorkRaises
  <2>2. CASE ReportFailure
    BY <2>2 DEF ReportFailure
  <2>3. CASE MarkFailed
    BY <2>3 DEF MarkFailed
  <2>4. QED
    BY <1>7, <2>1, <2>2, <2>3 DEF Failing
<1>8. CASE StoreRaises \/ Crash
  <2>1. CASE StoreRaises
    BY <2>1 DEF StoreRaises, CallsStore
  <2>2. CASE Crash
    BY <2>2 DEF Crash
  <2>3. QED
    BY <1>8, <2>1, <2>2
<1>9. CASE Stopped \/ UNCHANGED vars
  BY <1>9 DEF Stopped, vars
<1>10. QED
  BY <1>1, <1>2, <1>3, <1>4, <1>5, <1>6, <1>7, <1>8, <1>9 DEF Next, Execute,
     Remediation

(* A run just created satisfies the invariant.                              *)
LEMMA InitDetectInv == Init => DetectInv
<1> SUFFICES ASSUME Init PROVE DetectInv
  OBVIOUS
<1>1. row \in Row /\ row.patch = "pending" /\ row.candidate = "pending"
      /\ row.lifecycle = "queued"
  BY DEF Init, Row
<1>2. TypeOK
  <2>1. finding \in BOOLEAN /\ degraded \in BOOLEAN
    BY Zenon DEF Init
  <2>2. pc \in PCs /\ faults \in 0 .. MaxFaults
    BY DetectionAssumption DEF Init, PCs, BeforeTry
  <2>3. request \in Request /\ candidates \in SUBSET Candidate /\ raised \in SUBSET PCs
        /\ selected \in Candidate \cup {NoCandidate} /\ events \in SUBSET Kinds
    BY DEF Init
  <2>4. QED
    BY <1>1, <2>1, <2>2, <2>3 DEF TypeOK
<1>3. OpenInv /\ CandidatesInv /\ FindingInv /\ ReportInv
  BY <1>1 DEF Init, OpenInv, CandidatesInv, FindingInv, ReportInv, Ranked,
     InModelTry, Remediating
<1>4. ReleaseIsVerified /\ EventsExplainRow
  BY <1>1 DEF Init, ReleaseIsVerified, EventsExplainRow
<1>5. QED
  BY <1>2, <1>3, <1>4 DEF DetectInv

(* Every run, with any number of failing calls, keeps the invariant.        *)
THEOREM DetectInvariant == Spec => []DetectInv
<1>1. DetectInv /\ [Next]_vars => DetectInv'
  BY RowTypeStep, WorkTypeStep, EventsTypeStep, OpenStep, CandidatesStep,
     FindingStep, ReportStep, ReleaseStep, ExplainStep
     DEF DetectInv, TypeOK
<1>2. QED
  BY <1>1, InitDetectInv, PTL DEF Spec

(* The variables of a detection run keep their types.                       *)
THEOREM DetectionTypeCorrect == Spec => []TypeOK
<1>1. DetectInv => TypeOK
  BY DEF DetectInv
<1>2. QED
  BY <1>1, DetectInvariant, PTL

(* service.py: a patch is SAFE only if the candidate ranked first passed    *)
(* its tests, BLOCKED only if no candidate did.                             *)
THEOREM ReleasesAreVerified == Spec => []ReleaseIsVerified
<1>1. DetectInv => ReleaseIsVerified
  BY DEF DetectInv
<1>2. QED
  BY <1>1, DetectInvariant, PTL

(* What a row says is borne out by the run's events, at every moment and    *)
(* whichever store call raises.                                             *)
THEOREM RowsAreExplained == Spec => []EventsExplainRow
<1>1. DetectInv => EventsExplainRow
  BY DEF DetectInv
<1>2. QED
  BY <1>1, DetectInvariant, PTL
=============================================================================
