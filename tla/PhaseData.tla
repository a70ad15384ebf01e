----------------------------- MODULE PhaseData -----------------------------
(***************************************************************************)
(* What the phase handlers of one pentest run (pentest.py) read from and   *)
(* write to the shared state.results, from the scope they are given to the *)
(* evidence bundle and the row.  PentestRun models the run's control: its  *)
(* deadline, row phases, finalizer and store.  Here the loop is reduced to *)
(* what a handler can notice: its turn comes once, its timeout leaves its  *)
(* thread running, and in a gated mode a failure ends the loop.            *)
(***************************************************************************)
EXTENDS PentestModes, Integers, FiniteSets

CONSTANTS
  Requests,    \* requests with their scope, and what target and repository are
  Route,       \* the routes of the targets
  MaxFaults    \* bound: phases of one run that fail, phases that swallow an
               \* exception and attacks that meet trouble, together

Outcome  == {"SUCCESS", "BLOCKED", "ERROR"}
Root     == "/"             \* the synthetic route
\* The receipt of a phase's nth attack.
Receipt  == [by : LiveAttacks, nth : Nat, route : Route \cup {Root},
             outcome : Outcome]
Target   == {"configured", "staging"}
Swarms   == {"auth_attack", "injection_attack", "zero_day_hunting"}
Decision == {"approve", "block", "needs_more_evidence"}
Unset    == "unset"
Nothing  == [receipts |-> {}, lost |-> 0]

ASSUME PhaseDataAssumption ==
  /\ Requests \subseteq
       [mode : Mode, sourceOnly : BOOLEAN, live : BOOLEAN, provision : BOOLEAN,
        identities : {0, 2}, verified : BOOLEAN,
        surface : Seq(Route),   \* routes of the target, in their order
        spec : BOOLEAN,         \* the target serves its OpenAPI document
        source : BOOLEAN,       \* the repository defines the routes
        bom : BOOLEAN,          \* the repository has a bill of materials
        scores : Seq(Int)]      \* of its URL, headers and content, in tenths
  /\ \A r \in Requests : Len(r.scores) = 3
  /\ MaxFaults \in Nat

VARIABLES
  request,  \* the PentestRunRequest with its scope, never changes
  index,    \* position of the orchestrator in the plan
  recorded, \* phase_results: phase -> none, ok, failed
  step,     \* phase -> where its handler's thread is
  pending,  \* attack -> what its thread holds but has not published yet
  data,     \* state.results
  sent,     \* ghost: attacks on a route, [by, nth, route, target, course]
  found,    \* ghost: the scanners that returned vulnerabilities
  swallowed,\* ghost: phases that swallowed an exception
  att,      \* local variables of the attestation handler
  scan,     \* local result of the dependency scan's first half
  bundle,   \* the evidence directory: [files, report]
  row       \* candidate_verdict and results of the run's row

loop == <<index, recorded>>
vars == <<request, index, recorded, step, pending, data, sent, found,
          swallowed, att, scan, bundle, row>>

Configs  == [m \in Mode |-> ModeConfig(m)]
Plans    == [m \in Mode |-> PlanPhases(ModeConfig(m))]
config   == Configs[request.mode]
plan     == Plans[request.mode]
current  == plan[index]
Awaited(p) == index <= Len(plan) /\ current = p /\ step[p] # "idle"
Live(p)    == step[p] \notin {"idle", "over"}
Failed     == { p \in Phase : recorded[p] = "failed" }
Troubled   == { s \in sent : s.course.got = "none" \/ s.course.end # "returns" }
Faults     == Cardinality(Failed) + Cardinality(swallowed) + Cardinality(Troubled)
Elements(s) == { s[i] : i \in 1 .. Len(s) }
Reportable(r) == r.outcome \in {"SUCCESS", "BLOCKED"}

\* _prepare_run: the initial context.
InitialData ==
  [target |-> "configured", identities |-> request.identities, accounts |-> 0,
   owned |-> Unset, tier |-> Unset, routes |-> << >>, deps |-> Unset,
   components |-> FALSE, patterns |-> Unset, cves |-> FALSE,
   intel |-> FALSE, learned |-> FALSE, receipts |-> << >>,
   lost |-> [p \in Swarms |-> 0], candidate |-> Unset, decision |-> Unset,
   evidenceBundle |-> FALSE]

Init ==
  /\ request \in Requests
  /\ index = 1
  /\ recorded = [p \in Phase |-> "none"]
  /\ step = [p \in Phase |-> "idle"]
  /\ pending = [p \in LiveAttacks |-> Nothing]
  /\ data = InitialData
  /\ sent = {} /\ found = {} /\ swallowed = {}
  /\ att = [dirty |-> FALSE, receipts |-> << >>]
  /\ scan = Unset
  /\ bundle = [files |-> << >>, report |-> FALSE]
  /\ row = [verdict |-> "pending", receipts |-> << >>, evidenceBundle |-> FALSE]

-----------------------------------------------------------------------------
(* AgentOrchestrator.execute as a handler sees it *)

Record(p, how) ==
  /\ recorded' = [recorded EXCEPT ![p] = how]
  /\ index' = IF how = "failed" /\ config.gate THEN Len(plan) + 1 ELSE index + 1

\* The handler's thread ends; the loop records it unless it gave up before.
EndsAs(p, how) ==
  /\ step' = [step EXCEPT ![p] = "over"]
  /\ IF Awaited(p) THEN Record(p, how) ELSE UNCHANGED loop

Returns(p) == EndsAs(p, "ok")
GoesOn(p, next) == step' = [step EXCEPT ![p] = next] /\ UNCHANGED loop

BeginPhase ==
  /\ index <= Len(plan) /\ step[current] = "idle"
  /\ IF current = "complete"
       THEN Returns(current)                          \* has no handler
       ELSE GoesOn(current, "begun")
  /\ UNCHANGED <<request, pending, data, sent, found, swallowed, att, scan, bundle, row>>

\* wait_for gives up on a handler, whose thread goes on; it need not be
\* followed where it has nothing left to write.
TimesOut(p) ==
  /\ Awaited(p) /\ Live(p) /\ Faults < MaxFaults
  /\ Record(p, "failed")
  /\ step' = IF p \in Audits \cup {"init"} THEN [step EXCEPT ![p] = "over"] ELSE step
  /\ UNCHANGED <<request, pending, data, sent, found, swallowed, att,
                 scan, bundle, row>>

\* Where a call outside any try may raise: the store, the target, a file.
Fragile(p) ==
  \/ step[p] = "begun" /\ p \notin Intelligence \cup {"zero_day_hunting"}
  \/ step[p] = "sent" /\ p \in {"auth_attack", "custom_exploit", "gpt_evidence_review"}
  \/ p = "attestation" /\ step[p] \in {"read", "redacted", "bundled"}

\* An exception leaves the handler; what its thread held is gone.
Raises(p) ==
  /\ Awaited(p) /\ Fragile(p) /\ Faults < MaxFaults
  /\ EndsAs(p, "failed")
  /\ pending' = IF p \in LiveAttacks THEN [pending EXCEPT ![p] = Nothing] ELSE pending
  /\ UNCHANGED <<request, data, sent, found, swallowed, att, scan, bundle, row>>

\* {"error": ...} is returned, and recorded as success.
Swallows(p) ==
  /\ Faults < MaxFaults
  /\ swallowed' = swallowed \cup {p}
  /\ Returns(p)

-----------------------------------------------------------------------------
(* Preparation *)

HandleInit ==
  /\ step["init"] = "begun"
  /\ Returns("init")
  /\ UNCHANGED <<request, pending, data, sent, found, swallowed, att, scan, bundle, row>>

\* The check's outcome is stored; unverified is a success as well.
HandleOwnershipVerification ==
  /\ step["ownership_verification"] = "begun"
  /\ \E outcome \in IF request.verified THEN {"pre_verified"} ELSE {"owned", "not_owned"} :
       data' = [data EXCEPT !.owned = outcome]
  /\ Returns("ownership_verification")
  /\ UNCHANGED <<request, pending, sent, found, swallowed, att, scan, bundle, row>>

\* EnvironmentDetector: a request that fails, for the headers or for the
\* content, adds no score and only a signal.
ScoreToTier(score) ==
  IF score >= 4 THEN "PRODUCTION" ELSE IF score >= 0 THEN "STAGING" ELSE "DEVELOPMENT"

Detected ==
  LET score == request.scores IN
  { ScoreToTier(score[1] + headers + content) :
      headers \in {0, score[2]}, content \in {0, score[3]} }

HandleEnvironmentCheck ==
  /\ step["environment_check"] = "begun"
  /\ \E tier \in Detected :
       /\ data' = [data EXCEPT !.tier = tier]
       /\ IF tier = "PRODUCTION" /\ config.blockProduction
            THEN EndsAs("environment_check", "failed")
            ELSE Returns("environment_check")
  /\ UNCHANGED <<request, pending, sent, found, swallowed, att, scan, bundle, row>>

WithTargetUrl(d) == IF request.live THEN [d EXCEPT !.target = "staging"] ELSE d

\* IdentityProvisioner.provision: owner, then attacker, each registered or
\* logged in; only both together replace the identities of the scope.
Provisioned(d, accounts) ==
  [d EXCEPT !.accounts = accounts,
            !.identities = IF accounts = 2 THEN 2 ELSE d.identities]

HandleScoping ==
  /\ step["scoping"] = "begun"
  /\ \E accounts \in IF request.provision /\ ~request.sourceOnly THEN 0 .. 2 ELSE {0} :
       data' = Provisioned(WithTargetUrl(data), accounts)
  /\ Returns("scoping")
  /\ UNCHANGED <<request, pending, sent, found, swallowed, att, scan, bundle, row>>

\* OpenAPIRouteDiscovery: a document that cannot be had is no routes.
SpecifiedRoutes == IF request.spec /\ ~request.sourceOnly
                     THEN { << >>, request.surface } ELSE { << >> }
SourceRoutes == IF request.source THEN request.surface ELSE << >>

\* discover_routes: what both list is kept twice, since the routes are joined
\* before they are compared; a base URL always has its root.
Discovered ==
  LET Joined(specified) == specified \o SourceRoutes
  IN { IF Joined(specified) = << >> /\ ~request.sourceOnly
         THEN << Root >> ELSE Joined(specified) : specified \in SpecifiedRoutes }

HandleMapping ==
  /\ step["mapping"] = "begun"
  /\ \E routes \in Discovered : data' = [data EXCEPT !.routes = routes]
  /\ Returns("mapping")
  /\ UNCHANGED <<request, pending, sent, found, swallowed, att, scan, bundle, row>>

-----------------------------------------------------------------------------
(* Source scans and threat intelligence *)

\* DependencyVulnerabilityScanner.scan: a package whose advisories cannot be
\* fetched is listed in scan_errors and counts as clean.
ScanResult == {"clean", "vulnerable"}

ScanDependencies ==
  /\ step["dependency_scan"] = "begun"
  /\ \E result \in ScanResult :
       /\ scan' = result
       /\ found' = IF result = "vulnerable" THEN found \cup {"dependency"} ELSE found
  /\ GoesOn("dependency_scan", "sent")
  /\ UNCHANGED <<request, pending, data, sent, swallowed, att, bundle, row>>

\* SBOMParser.parse_project lists components only from a bom file, and VEX
\* statements exist for components alone.
Enriched(d) == [d EXCEPT !.deps = scan, !.components = request.bom]

\* The three keys are set once the SBOM and the VEX document are done.
StoreDependencies ==
  /\ step["dependency_scan"] = "sent"
  /\ data' = Enriched(data)
  /\ scan' = Unset
  /\ \/ Returns("dependency_scan") /\ UNCHANGED swallowed
     \/ Swallows("dependency_scan")                   \* the closing event
  /\ UNCHANGED <<request, pending, sent, found, att, bundle, row>>

\* An exception before that, in the parser, the SBOM, the VEX document or an
\* event, loses what the scanner found.
DependencyScanFails ==
  /\ step["dependency_scan"] \in {"begun", "sent"}
  /\ scan' = Unset
  /\ Swallows("dependency_scan")
  /\ UNCHANGED <<request, pending, data, sent, found, att, bundle, row>>

ScanPatterns ==
  /\ step["pattern_scan"] = "begun"
  /\ \E result \in {"clean", "vulnerable"} :
       /\ data' = [data EXCEPT !.patterns = result]
       /\ found' = IF result = "vulnerable" THEN found \cup {"pattern"} ELSE found
  /\ \/ Returns("pattern_scan") /\ UNCHANGED swallowed
     \/ Swallows("pattern_scan")
  /\ UNCHANGED <<request, pending, sent, att, scan, bundle, row>>

PatternScanFails ==
  /\ step["pattern_scan"] = "begun"
  /\ Swallows("pattern_scan")
  /\ UNCHANGED <<request, pending, data, sent, found, att, scan, bundle, row>>

\* _extract_package_names: the scan's result has no "findings" and the VEX
\* summary no "components"; what is left are the components of the SBOM.
HasPackageNames(d) == d.components

IngestCves ==
  /\ step["cve_ingestion"] = "begun"
  /\ data' = [data EXCEPT !.cves = TRUE]
  /\ GoesOn("cve_ingestion", "ingested")
  /\ UNCHANGED <<request, pending, sent, found, swallowed, att, scan, bundle, row>>

\* IntelAggregator.enrich_packages: a source that fails adds nothing.
EnrichCves ==
  /\ step["cve_ingestion"] = "ingested"
  /\ data' = [data EXCEPT !.intel = HasPackageNames(data)]
  /\ Returns("cve_ingestion")
  /\ UNCHANGED <<request, pending, sent, found, swallowed, att, scan, bundle, row>>

LearnThreats ==
  /\ step["threat_learning"] = "begun"
  /\ data' = [data EXCEPT !.learned = TRUE]
  /\ Returns("threat_learning")
  /\ UNCHANGED <<request, pending, sent, found, swallowed, att, scan, bundle, row>>

IntelligenceFails(p) ==
  /\ p \in Intelligence /\ Live(p)
  /\ Swallows(p)
  /\ UNCHANGED <<request, pending, data, sent, found, att, scan, bundle, row>>

-----------------------------------------------------------------------------
(* Attacks *)

CanAttack(p) ==
  /\ data.routes # << >>
  /\ p # "custom_exploit" => ~request.sourceOnly
  /\ p \in {"auth_attack", "custom_exploit"} => data.identities = 2

\* Without a target the hypotheses are only stored.
SkipAttack(p) ==
  /\ step[p] = "begun" /\ ~CanAttack(p)
  /\ Returns(p)
  /\ UNCHANGED <<request, pending, data, sent, found, swallowed, att, scan,
                 bundle, row>>

\* What an agent meets on its route.  Every attack knows the leak it looks for,
\* the refusal, by the target or the policy, and no answer at all.  Besides an
\* injection tells apart what neither takes it nor says so, "dismiss": a 401,
\* 404, 405, 429 or 5xx; and a hypothesis a server that fails, "fail", or does
\* so in a race or over its database's integrity, "crash".
Got(p) == {"leak", "refuse", "none"} \cup
  CASE p = "injection_attack" -> {"dismiss"}
    [] p = "zero_day_hunting" -> {"fail", "crash"}
    [] OTHER -> {}

\* The agent returns, meets an exception the client lets through, or is late:
\* for the join of a race, or for the fifteen seconds an exploit has.
Returning(p)  == [got : Got(p), end : {"returns"}]
AgentCourse   == [got : {"leak", "none"}, end : {"raises"}]
HuntCourse    == { [got |-> "none", end |-> "raises"], [got |-> "leak", end |-> "late"] }
ExploitCourse == { [got |-> "leak", end |-> "late"] }
Course(p) == Returning(p) \cup
  CASE p = "custom_exploit"   -> ExploitCourse
    [] p = "zero_day_hunting" -> HuntCourse
    [] OTHER                  -> AgentCourse

\* A transport error comes back as status 0 with the error as its body.
\* AuthAttacker._evaluate: anything but two equal answers is blocked.
AuthOutcome(got) == IF got = "leak" THEN "SUCCESS" ELSE "BLOCKED"

\* _send_injection: what is neither 400, 403, 422 nor reads like a refusal
\* was accepted: 401, 404, 405, 429, 5xx and status 0 included.
InjectionOutcome(got) == IF got = "refuse" THEN "BLOCKED" ELSE "SUCCESS"

\* Mutant: what is not one of the refusals was accepted, as for injections.
HypothesisOutcomeByRefusal(c) ==
  IF c.end = "raises" THEN "ERROR" ELSE InjectionOutcome(c.got)

\* NovelAttackSynthesizer: an exception of the client and a failing server are
\* error receipts, but a crash is what a race is after.
HypothesisOutcome(c) ==
  IF c.end = "raises" \/ c.got = "fail" THEN "ERROR"
  ELSE IF c.got \in {"leak", "crash"} THEN "SUCCESS" ELSE "BLOCKED"

\* The written script says VULNERABLE in its last lines; what says nothing,
\* for a timeout, a crash or a target that is not there, counts as blocked.
ScriptSays(c) == IF c.end = "late" THEN "nothing"
                 ELSE CASE c.got = "leak" -> "VULNERABLE" [] c.got = "refuse" -> "SECURE"
                        [] OTHER -> "nothing"
ExploitOutcome(c) == IF ScriptSays(c) = "VULNERABLE" THEN "SUCCESS" ELSE "BLOCKED"

OutcomeOf(p, c) ==
  CASE p = "auth_attack"      -> AuthOutcome(c.got)
    [] p = "injection_attack" -> InjectionOutcome(c.got)
    [] p = "zero_day_hunting" -> HypothesisOutcome(c)
    [] p = "custom_exploit"   -> ExploitOutcome(c)

\* An agent that raises takes the receipts it already had with it; a late
\* thread appends to a list that nobody reads any more.
LosesReceipts(p, c) == IF p = "zero_day_hunting" THEN c.end = "late"
                       ELSE c.end = "raises"

ReceiptsOf(p, routes, course) ==
  { [by |-> p, nth |-> i, route |-> routes[i], outcome |-> OutcomeOf(p, course[i])] :
      i \in { j \in DOMAIN course : ~LosesReceipts(p, course[j]) } }

\* Mutant: lost answers are not failed agents.
NothingFailed(course) == 0

\* SwarmResult.failed: the agents that raised, not the threads that came late.
FailedAgents(course) == Cardinality({ i \in DOMAIN course : course[i].end = "raises" })

\* The swarm runs one agent per route and waits for all of them.  Two phases
\* store its statistics at once, the auth sweep when its receipts are out.
Attack(p) ==
  /\ step[p] = "begun" /\ CanAttack(p)
  /\ LET routes == data.routes IN
     \E course \in [1 .. Len(routes) -> Course(p)] :
       LET failed == IF p = "zero_day_hunting" THEN 0 ELSE FailedAgents(course) IN
       /\ sent' = sent \cup { [by |-> p, nth |-> i, route |-> routes[i],
                               target |-> data.target, course |-> course[i]] :
                               i \in DOMAIN course }
       /\ pending' = [pending EXCEPT ![p] =
            [receipts |-> ReceiptsOf(p, routes, course), lost |-> failed]]
       /\ data' = IF p \in {"injection_attack", "zero_day_hunting"}
                    THEN [data EXCEPT !.lost[p] = failed] ELSE data
  /\ GoesOn(p, "sent")
  /\ UNCHANGED <<request, found, swallowed, att, scan, bundle, row>>
  /\ Faults' <= MaxFaults

PublishReceipt(p) ==
  /\ step[p] = "sent" /\ p \in LiveAttacks
  /\ \E r \in pending[p].receipts :
       /\ \A other \in pending[p].receipts : r.nth <= other.nth
       /\ data' = [data EXCEPT !.receipts = Append(@, r)]
       /\ pending' = [pending EXCEPT ![p].receipts = @ \ {r}]
  /\ UNCHANGED <<request, loop, step, sent, found, swallowed, att, scan, bundle, row>>

AttackEnds(p) ==
  /\ step[p] = "sent" /\ p \in LiveAttacks /\ pending[p].receipts = {}
  /\ data' = IF p \in Swarms THEN [data EXCEPT !.lost[p] = pending[p].lost] ELSE data
  /\ pending' = [pending EXCEPT ![p] = Nothing]
  /\ Returns(p)
  /\ UNCHANGED <<request, sent, found, swallowed, att, scan, bundle, row>>

\* Any exception of the hunt is swallowed, with the receipts not out yet.
HuntingFails ==
  /\ Live("zero_day_hunting")
  /\ Swallows("zero_day_hunting")
  /\ pending' = [pending EXCEPT !["zero_day_hunting"] = Nothing]
  /\ UNCHANGED <<request, data, sent, found, att, scan, bundle, row>>

\* hiddenlayer_scan, openshell_audit and nim_analysis report beside the verdict.
Audit(p) ==
  /\ p \in Audits /\ step[p] = "begun"
  /\ Returns(p)
  /\ UNCHANGED <<request, pending, data, sent, found, swallowed, att, scan,
                 bundle, row>>
-----------------------------------------------------------------------------
(* Evidence review *)

IsSuccess(r)   == r.outcome = "SUCCESS"
\* Mutant: the verdict forgets the code patterns.
FindingsWithoutPatterns(d) ==
  \/ \E r \in Elements(d.receipts) : IsSuccess(r)
  \/ d.deps = "vulnerable"

HasFindings(d) == \/ \E r \in Elements(d.receipts) : IsSuccess(r)
                  \/ d.deps = "vulnerable" \/ d.patterns = "vulnerable"

\* Mutant: failed phases do not make the candidate incomplete.
CandidateIgnoresFailures(d) == IF HasFindings(d) THEN "BLOCKED" ELSE "SAFE"

Candidate(d) == IF HasFindings(d) THEN "BLOCKED"
                ELSE IF Failed # {} THEN "INCOMPLETE" ELSE "SAFE"

\* Without an API key nobody is asked.
ReviewSkips ==
  /\ step["gpt_evidence_review"] = "begun"
  /\ data' = [data EXCEPT !.decision = "skipped"]
  /\ Returns("gpt_evidence_review")
  /\ UNCHANGED <<request, pending, sent, found, swallowed, att, scan, bundle, row>>

PrepareReview ==
  /\ step["gpt_evidence_review"] = "begun"
  /\ data' = [data EXCEPT !.candidate = Candidate(data)]
  /\ GoesOn("gpt_evidence_review", "sent")
  /\ UNCHANGED <<request, pending, sent, found, swallowed, att, scan, bundle, row>>

\* Mutant: the candidate's verdict is returned for the decision.
BoundedByVerdict(decision, candidate) ==
  IF candidate = "BLOCKED" THEN "BLOCKED" ELSE decision

\* A model is never allowed to turn blocked or incomplete proof green.
Bounded(decision, candidate) ==
  CASE candidate = "BLOCKED" -> "block"
    [] candidate = "INCOMPLETE" /\ decision = "approve" -> "needs_more_evidence"
    [] OTHER -> decision

\* No answer, or one that is not the structured output asked for, is a status.
ReviewAnswers ==
  /\ step["gpt_evidence_review"] = "sent"
  /\ \/ \E answer \in Decision :
          data' = [data EXCEPT !.decision = Bounded(answer, data.candidate)]
     \/ data' = [data EXCEPT !.decision = "failed"]
  /\ Returns("gpt_evidence_review")
  /\ UNCHANGED <<request, pending, sent, found, swallowed, att, scan, bundle, row>>

-----------------------------------------------------------------------------
(* Attestation: it reads the live list of receipts again at every step. *)

NextAttestation(next) == GoesOn("attestation", next)

\* Mutant: the verdict is the one computed for the review, if there was one.
ReadCandidate ==
  /\ step["attestation"] = "begun"
  /\ att' = [att EXCEPT !.dirty = data.candidate = "BLOCKED"]
  /\ NextAttestation("read")
  /\ UNCHANGED <<request, pending, data, sent, found, swallowed, scan, bundle, row>>

ReadEvidence ==
  /\ step["attestation"] = "begun"
  /\ att' = [att EXCEPT !.dirty = HasFindings(data)]
  /\ NextAttestation("read")
  /\ UNCHANGED <<request, pending, data, sent, found, swallowed, scan, bundle, row>>

\* safe_receipts, the copies the row will hold.
RedactReceipts ==
  /\ step["attestation"] = "read"
  /\ att' = [att EXCEPT !.receipts = data.receipts]
  /\ NextAttestation("redacted")
  /\ UNCHANGED <<request, pending, data, sent, found, swallowed, scan, bundle, row>>

\* The identifier of a finding names the directory of its evidence; the one
\* of an injection is derived from the payload and not from the route.
FindingId(r) == IF r.by = "injection_attack" THEN <<r.by>> ELSE <<r.by, r.route>>

\* Mutant: only confirmed findings get a file.
FilesOfConfirmed(receipts, listed) ==
  LET confirmed == { i \in listed : IsSuccess(receipts[i]) }
  IN [id \in { FindingId(receipts[i]) : i \in confirmed } |->
        receipts[CHOOSE i \in confirmed : FindingId(receipts[i]) = id]]

\* EvidenceBundle.add_receipt for those listed, in their order: a second
\* receipt of one finding overwrites the evidence.json of the first.
FilesOf(receipts, listed) ==
  LET Of(id)   == { i \in listed : FindingId(receipts[i]) = id }
      last(id) == CHOOSE i \in Of(id) : \A j \in Of(id) : j <= i
  IN [id \in { FindingId(receipts[i]) : i \in listed } |-> receipts[last(id)]]

Listed(receipts) == { i \in 1 .. Len(receipts) : Reportable(receipts[i]) }

\* _write_evidence_bundle: a write that fails leaves what was written before
\* it and no report, is logged, and the attestation goes on.
WriteBundle ==
  /\ step["attestation"] = "redacted"
  /\ LET receipts == data.receipts
         listed   == Listed(receipts)
     IN
     \/ /\ listed # {}
        /\ bundle' = [files |-> FilesOf(receipts, listed), report |-> TRUE]
        /\ data' = [data EXCEPT !.evidenceBundle = TRUE]
        /\ UNCHANGED swallowed
     \/ /\ listed = {}
        /\ UNCHANGED <<bundle, data, swallowed>>
     \/ /\ Faults < MaxFaults
        /\ swallowed' = swallowed \cup {"attestation"}
        /\ \E n \in 0 .. Len(receipts) :
             bundle' = [files |-> FilesOf(receipts, { i \in listed : i <= n }),
                        report |-> FALSE]
        /\ UNCHANGED data
  /\ NextAttestation("bundled")
  /\ UNCHANGED <<request, pending, sent, found, att, scan, row>>

\* The verdict was decided before; the results are stored as they are now.
CommitVerdict ==
  /\ step["attestation"] = "bundled"
  /\ row' = [verdict |-> IF att.dirty THEN "BLOCKED" ELSE "SAFE",
             receipts |-> att.receipts, evidenceBundle |-> data.evidenceBundle]
  /\ Returns("attestation")
  /\ UNCHANGED <<request, pending, data, sent, found, swallowed, att, scan, bundle>>

-----------------------------------------------------------------------------
Prepare == HandleInit \/ HandleOwnershipVerification \/ HandleEnvironmentCheck
           \/ HandleScoping \/ HandleMapping
ScanSource == ScanDependencies \/ StoreDependencies \/ DependencyScanFails
              \/ ScanPatterns \/ PatternScanFails
Learn == IngestCves \/ EnrichCves \/ LearnThreats
         \/ \E p \in Intelligence : IntelligenceFails(p)
AttackTarget ==
  \/ \E p \in LiveAttacks :
       SkipAttack(p) \/ Attack(p) \/ PublishReceipt(p) \/ AttackEnds(p)
  \/ HuntingFails
Review == ReviewSkips \/ PrepareReview \/ ReviewAnswers
Attest == ReadEvidence \/ RedactReceipts \/ WriteBundle \/ CommitVerdict

Next ==
  \/ BeginPhase
  \/ \E p \in Phase : TimesOut(p) \/ Raises(p)
  \/ Prepare \/ ScanSource \/ Learn \/ AttackTarget
  \/ \E p \in Audits : Audit(p)
  \/ Review \/ Attest

Spec == Init /\ [][Next]_vars

-----------------------------------------------------------------------------
(* Properties *)

DataType ==
  [target : Target, identities : {0, 2}, accounts : 0 .. 2,
   owned : {Unset, "pre_verified", "owned", "not_owned"},
   tier : {Unset, "PRODUCTION", "STAGING", "DEVELOPMENT"},
   routes : Seq(Route \cup {Root}), deps : ScanResult \cup {Unset},
   components : BOOLEAN, patterns : ScanResult \cup {Unset}, cves : BOOLEAN,
   intel : BOOLEAN, learned : BOOLEAN, receipts : Seq(Receipt),
   lost : [Swarms -> Nat], candidate : {Unset, "BLOCKED", "INCOMPLETE", "SAFE"},
   decision : Decision \cup {Unset, "skipped", "failed"},
   evidenceBundle : BOOLEAN]

Steps == {"idle", "begun", "ingested", "sent", "read", "redacted", "bundled", "over"}

\* Every variable keeps its type.
TypeOK ==
  /\ request \in Requests /\ index \in 1 .. Len(plan) + 1
  /\ recorded \in [Phase -> {"none", "ok", "failed"}]
  /\ step \in [Phase -> Steps]
  /\ pending \in [LiveAttacks -> [receipts : SUBSET Receipt, lost : Nat]]
  /\ data \in DataType
  /\ \A s \in sent : /\ s.by \in LiveAttacks /\ s.nth \in Nat
                     /\ s.target \in Target /\ s.course \in Course(s.by)
  /\ found \subseteq {"dependency", "pattern"}
  /\ swallowed \subseteq Phase /\ scan \in ScanResult \cup {Unset}
  /\ att \in [dirty : BOOLEAN, receipts : Seq(Receipt)]
  /\ bundle.report \in BOOLEAN
  /\ row \in [verdict : {"pending", "SAFE", "BLOCKED"}, receipts : Seq(Receipt),
             evidenceBundle : BOOLEAN]

Answers(r, s) == r.by = s.by /\ r.nth = s.nth
Unanswered(s) == ~ \E r \in Elements(data.receipts) : Answers(r, s)
SomeUnanswered(p) == \E s \in sent : s.by = p /\ Unanswered(s)

\* A sweep recorded as a success (pentest.py:745, :846) that has no receipt
\* for an attack it made says so in the statistics it stored.
LostIsCounted ==
  \A p \in {"auth_attack", "injection_attack"} :
    recorded[p] = "ok" /\ SomeUnanswered(p) => data.lost[p] > 0

\* A review that approved the release never stands beside a row that blocks
\* it: a thread that outlived its phase could still add a receipt, but then
\* the phase is recorded as failed and the approval withdrawn.
ApprovalMatchesVerdict ==
  data.decision = "approve" => row.verdict \in {"pending", "SAFE"}

\* A row marked SAFE that holds the receipt of a successful attack got it
\* from a phase that is recorded as failed: no awaited attack publishes
\* between the verdict and the snapshot (pentest.py:1490, :1594).
LateSuccessIsFailed ==
  row.verdict = "SAFE" =>
    \A r \in Elements(row.receipts) : IsSuccess(r) => r.by \in Failed

HasFile(r) ==
  /\ FindingId(r) \in DOMAIN bundle.files
  /\ LET file == bundle.files[FindingId(r)]
     IN FindingId(file) = FindingId(r) /\ file \in Elements(data.receipts)
Backed(receipts) ==
  bundle.report => \A r \in { x \in Elements(receipts) : Reportable(x) } : HasFile(r)

\* The bundle the row points to was written, and holds evidence of every
\* finding the row shows, from a receipt of the run, whatever late threads
\* added meanwhile.
ReportIsBacked ==
  row.verdict # "pending" =>
    row.evidenceBundle = bundle.report /\ Backed(row.receipts)

Found == found # {} \/ \E s \in sent : s.course.got = "leak"

\* What was found but did not block the release was lost in a phase that is
\* recorded as failed, in an exception that a handler swallowed, or with an
\* agent that left no receipt or, for a script that timed out, a wrong one.
MissedIsExplained ==
  row.verdict = "SAFE" /\ Found =>
    \/ Failed # {}
    \/ swallowed \cap {"dependency_scan", "zero_day_hunting"} # {}
    \/ \E p \in LiveAttacks : SomeUnanswered(p)
    \/ \E s \in sent : s.by = "custom_exploit" /\ s.course.end = "late"

\* A release is blocked for something a scanner or an attack found, or by an
\* attack that takes for success what shows nothing: an injection that was
\* dismissed or not answered (injection.py:211), or a race whose target broke
\* down, for whatever reason (novel_attack.py:755).
Mistaken(s) ==
  \/ s.by = "injection_attack" /\ s.course.got \in {"dismiss", "none"}
  \/ s.by = "zero_day_hunting" /\ s.course.got = "crash"
BlockIsExplained == row.verdict = "BLOCKED" => Found \/ \E s \in sent : Mistaken(s)

-----------------------------------------------------------------------------
(* The inductive invariant behind the properties *)

\* The loop: a thread that runs is the awaited one or was given up; phases
\* begin in the order of the plan; what lies ahead has no result yet.
LoopInv ==
  /\ \A p \in Phase : Live(p) => Awaited(p) \/ p \in Failed
  /\ \A p \in Phase : step[p] # "idle" =>
       \E i \in 1 .. Len(plan) : i <= index /\ plan[i] = p
  /\ \A i \in 1 .. Len(plan) : i >= index => recorded[plan[i]] = "none"

Receipts == Elements(data.receipts) \cup UNION { pending[p].receipts : p \in LiveAttacks }

\* Receipts and attacks: a receipt answers an attack and says what its course
\* makes of it; an attack without one lost it or its phase did.
SwarmInv ==
  /\ \A p \in LiveAttacks :
       /\ step[p] # "sent" => pending[p] = Nothing
       /\ \A r \in pending[p].receipts : r.by = p
  /\ \A s \in sent : step[s.by] \notin {"idle", "begun"}
  /\ \A r \in Receipts :
       /\ \E s \in sent : Answers(r, s)
       /\ \A s \in sent : Answers(r, s) => r.outcome = OutcomeOf(s.by, s.course)
  /\ \A s \in sent :
       \/ \E r \in Receipts : Answers(r, s)
       \/ LosesReceipts(s.by, s.course)
       \/ s.by \in Failed \cup (swallowed \cap {"zero_day_hunting"})

\* The statistics of a sweep count the agents it lost.
LostInv ==
  \A s \in { x \in sent : x.by \in {"auth_attack", "injection_attack"} /\ x.course.end = "raises" } :
    \/ step[s.by] = "sent" /\ pending[s.by].lost > 0
    \/ step[s.by] = "over" /\ (s.by \in Failed \/ data.lost[s.by] > 0)

\* What the scanners returned is stored, still held, or lost in an exception.
ScanInv ==
  /\ step["dependency_scan"] # "over" => data.deps = Unset
  /\ step["pattern_scan"] # "over" => data.patterns = Unset
  /\ "vulnerable" \in {data.deps, scan} => "dependency" \in found
  /\ data.patterns = "vulnerable" <=> "pattern" \in found
  /\ "dependency" \in found =>
       \/ step["dependency_scan"] = "sent" /\ scan = "vulnerable"
       \/ data.deps = "vulnerable"
       \/ "dependency_scan" \in Failed \cup swallowed

\* Once a candidate is safe nothing can be found any more.
ReviewInv ==
  /\ step["gpt_evidence_review"] \in {"idle", "begun"} =>
       data.candidate = Unset /\ data.decision = Unset
  /\ step["gpt_evidence_review"] = "sent" => data.candidate # Unset
  /\ data.decision = "approve" => data.candidate = "SAFE"
  /\ data.candidate = "SAFE" =>
       ~HasFindings(data) /\ \A p \in LiveAttacks \cup SourceScans : ~Live(p)

OnlyFromFailed(receipts) == \A r \in Elements(receipts) : IsSuccess(r) => r.by \in Failed
Decided == step["attestation"] \in {"read", "redacted", "bundled"}

\* The verdict, from its reading to the row: what it misses came from a phase
\* that is recorded as failed.
VerdictInv ==
  /\ row.verdict # "pending" => step["attestation"] = "over"
  /\ Decided /\ att.dirty => HasFindings(data)
  /\ Decided /\ ~att.dirty /\ Failed = {} => ~HasFindings(data)
  /\ step["attestation"] = "read" /\ ~att.dirty => OnlyFromFailed(data.receipts)
  /\ step["attestation"] \in {"redacted", "bundled"} /\ ~att.dirty =>
       OnlyFromFailed(att.receipts)
  /\ row.verdict = "BLOCKED" => HasFindings(data)
  /\ row.verdict = "SAFE" /\ Failed = {} => ~HasFindings(data)
  /\ row.verdict = "SAFE" => OnlyFromFailed(row.receipts)

\* The bundle, from the copies for the row to the row.
BundleInv ==
  /\ data.evidenceBundle = bundle.report
  /\ step["attestation"] \notin {"bundled", "over"} => ~bundle.report
  /\ step["attestation"] = "redacted" =>
       Elements(att.receipts) \subseteq Elements(data.receipts)
  /\ step["attestation"] = "bundled" => Backed(att.receipts)
  /\ row.verdict # "pending" =>
       row.evidenceBundle = bundle.report /\ Backed(row.receipts)

PhaseInv ==
  /\ TypeOK /\ LoopInv /\ SwarmInv /\ LostInv /\ ScanInv
  /\ ReviewInv /\ VerdictInv /\ BundleInv

=============================================================================
