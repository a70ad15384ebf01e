# SentinelForge: TLA+ models, checks and proofs

This directory specifies the parts of SentinelForge in which order,
concurrency and failure decide whether a release verdict can be trusted: the
pentest run that ends in a signed verdict, the request budget its attacks
share, the data its handlers hand on, the live event streams a dashboard
follows, the detection run that judges a patch, the scheduler that starts runs
on its own, the files and rows one run leaves for the next, the proof that a
target is owned, and the pull requests that carry a fix.  `PROJECT.json`
lists components, hazards, runs and theorems, and maps every definition to the
lines it models.  Paths below are relative to `src/src/sentinelforge/`.

Check a model with `tlc -config X.cfg M` (table *Runs*) and the proofs with
`tlapm M.tla` for `M` one of `PentestRunProofs`, `DetectionRunProofs`,
`AcrossRunsProofs`, `RequestBudgetProofs`, `OwnershipServiceProofs`,
`PatchFlowProofs`, `EventStreamProofs` and `PhaseDataProofs`.

## 1. Inventory

| Component | State it keeps | Operations | Hard behaviour |
|---|---|---|---|
| Orchestrator (`orchestrator.py`, `pentest_modes.py`) | `OrchestratorState`: phase results, shared `results`, deadline | plan phases, execute (loop, per-phase timeout, gate) | `wait_for` abandons a thread that lives on; gate and deadline leave the loop from several places |
| Pentest service (`pentest.py`) | the run's row, attestation on disk | create_and_start, create_and_execute, one handler per phase, attestation, finalizer, response | evidence read, signed and committed in separate steps; exception handlers that call the failing store |
| Policy engine, scoped client, swarm (`policy.py`, `agents/http.py`, `swarm/swarm.py`) | request count, time stamps, kill-switch latch; semaphore and limiter | evaluate, record_request, request, run tasks | check-then-act without a lock by several threads; stop file |
| Event bus and SSE streams (`event_bus.py`, `control/api.py`) | log and subscribers per run, a queue per stream | publish, subscribe, unsubscribe, stream | publishers in threads against an event loop, unlocked lists, replay |
| Detection run service (`control/service.py`) | run row, events, candidates | create, execute | many store calls, two try blocks, calls outside both |
| Scheduler (`scheduler.py`) | due list of a tick; schedules in the store | start, stop, tick, create, delete | stale list over awaits, cancel with a thread under way, restarts |
| Run store (`control/storage.py`) | sqlite tables | one transaction per call | each call may raise on the busy timeout |
| Ownership, environment, scope (`verification.py`, `ownership.py`, `environment.py`, `scope.py`) | challenges, verified targets | start, check, revoke, evaluate | one service for all request threads, no lock; a proof is fetched between reading a challenge and recording the outcome; expiry, revocation |
| Patch pull requests (`control/api.py`, `pr_generator.py`, `patchflow/`) | a git clone with its index, branches here and on the remote, PRs | propose, branch, write, add, commit, push, open | whole files written from an old reading; a clone shared by requests and never returned to main; any call failing or arriving unanswered |
| Engagement memory, CVE cache, threat patterns (`intelligence/`), NemoClaw metrics and heartbeat (`nemoclaw/`) | three JSON files; target memory and advisory cursor in the store | load, change, rewrite; upsert; tick | whole files rewritten from what was loaded at the start; torn writes; what is saved cannot be loaded |
| Discovery, scanners, attack agents, evidence model (`agents/`, `intelligence/`, `inference/`, `evidence/`) | receipts and results in `state.results`, the evidence bundle on disk | discover, scan, attack, judge, review, bundle | errors swallowed into "success"; an agent's receipts lost with its exception; threads that add to lists already read |
| Integrations (`integrations/`) | none | single outgoing calls | caught in place |
| API sessions, quota (`control/api.py`) | sliding windows, OAuth sessions | allow, log in | limits at their boundary |
| CLI, CI templates, web UI | none | | |

**Interaction.**  The API (or the scheduler, or the CLI) calls
`PentestService`, which prepares a row, builds an orchestrator and runs
`execute` in a daemon thread with an event loop of its own.  Every handler runs
in a thread of that loop's pool and writes `state.results` and the row.  Live
handlers build a policy engine and a swarm and share the engine among its
threads.  All of them publish to the bus; the SSE generators on the server's
event loop read it.  Detection runs are background tasks of a request and talk
to the store only.

**What has to be right.**

* *Pentest run*: SAFE is never given to a run with a finding, or in a gated
  mode to a run whose phases failed; the row agrees with the signed
  attestation; a run ends, says so, and its row does not change afterwards.
* *Budget*: the cap and the kill switch hold up to the requests already on
  their way; a swarm ends.
* *Streams*: a client misses nothing, and repeats only what the comments in the
  code allow; every stream of a finished run ends.
* *Detection*: a verdict on a patch rests on a test run and its events; a
  run settles.
* *Results*: whatever makes a verdict BLOCKED was seen at the target, and a
  finding that does not reach the verdict was lost for a reason that shows.
* *Stores*: what one run learned is there for the next, unless a write was
  torn or runs overlapped; counts do not go back.
* *Ownership*: a target counts as verified only on a proof fetched after the
  last revocation; active challenges stay limited.
* *Pull requests*: a PR opened for a finding holds its patch; a failure leaves
  the clone as it was, or says where it stopped.
* *Scheduler*: slots an interval apart, no burst after a downtime, a deleted
  schedule falls silent, a due one is served.

The hazards behind each are listed in `PROJECT.json` with the properties that
cover them.

## 2. Modules

| Module | Models | State and actions against the code |
|---|---|---|
| `PentestModes` | modes, phase plan | `ModeConfig` is `MODE_CONFIGS`, `PlanPhases` is `plan_phases` |
| `PentestRun` | orchestrator + service | `pc`, `index`, `outcome` are the loop; `zombies` the abandoned threads; `found` the finding sources in `state.results`; `att` the attestation handler; `row` the row; `announced` the `run_completed` payload |
| `ReleaseGate` | abstract specification | queued, running, decided once on all evidence, or closed undecided, or failed |
| `RequestBudget` | policy engine, client, swarm | `count`, `stamps`, `latched` are the engine's fields, the list of time stamps as the number of stamps of each age; one `pc` per task, one `step` per thread of it: a race sends each of its steps in a thread of its own; `abandoned` those that outlived its join; `Evaluate`/`Send`/`Answered` are the unlocked steps of one request |
| `EventStream` | bus and streams | `log`, `subs` are the bus; `next[p]` is the index of `publish`'s for loop; `queue`, `shown` per stream |
| `DetectionRun` | detection service | one `pc` value per store call of `execute`; `row` and `events` are the two tables |
| `Scheduler` | scheduler, process life | `rows` the table; `due` the list a tick holds; `slots` what became of each slot taken |
| `PhaseData` | every handler of `pentest.py` on `state.results`, with the agents' judgement of answers | `data` is `state.results`; `step[p]` where the thread of phase `p` is; `pending` the receipts a sweep has yet to publish, in the order of their `nth`, which stands for a receipt's place among its sweep's routes and is not a field of the code's; `found` (ghost) what was seen at the target; `att`, `bundle`, `row` what the attestation copies, writes and commits.  One action per handler, or per section of one that another thread can come between |
| `LearningStores` | the three JSON files, target memory, advisory cursor, heartbeat | a file is what a load gives: absent, torn or its entries; each run has the copy it loaded; `SaveTruncates`/`SaveWrites` are `write_text`; `SelectRow`/`CommitMetrics` the upsert.  Its specification is `StoresSpec`, and other names are its own too, because the proofs extend it together with `Scheduler` |
| `OwnershipService` | `OwnershipVerificationService` behind its endpoints | `challenges`, `verified` are the two fields; one `pc` per request thread, split where it walks, counts, fetches and records; `placed` what the owner has published; the last six variables are history, named for what the properties excuse |
| `PatchFlow` | `create_fix_pr`, the proposers and `PRGenerator` | `head`, `local`, `index`, `work` are the clone; `remote`, `prs` GitHub; one `pc` per request, one action per git or API call; a file's content is the set of findings it is patched for; `dropped` and `moved` are history |
| `PentestRunProofs`, `DetectionRunProofs`, `AcrossRunsProofs`, `RequestBudgetProofs`, `OwnershipServiceProofs`, `PatchFlowProofs`, `EventStreamProofs`, `PhaseDataProofs` | proofs | see section 5; the invariants they prove stand at the end of the modules they are about |
| `MC...` | instances | plans of the real modes; the modes and requests of `PhaseData`; quotas of events; symmetry of runs and threads; which finding has which file and branch |

**Composition.**  `PentestRun` extends `PentestModes` and implements
`ReleaseGate` under the mapping status, verdict, "some finding is stored".
`RequestBudget` is the inside of one live handler, whose outcome `PentestRun`
chooses; `EventStream` sees only the order in which threads publish.
`Scheduler` stops where `create_and_start` begins a `PentestRun`.  `PhaseData`
is the other side of `PentestRun`: the same loop with its threads, for the
phases of one plan, but with the data each handler reads and writes instead of
rows, crashes and the executor.  Where `PentestRun` says that a handler finds
something or swallows an error, `PhaseData` says what.  `LearningStores` takes
from a run only its start, its intelligence handlers and its end.

### Abstractions

* What a handler, detector, patcher or model computes is a nondeterministic
  outcome; of a finding only its source is kept, because `_handle_attestation`
  looks at nothing else.
* `results` separates *swallowed* from *ok*: several handlers catch their own
  exception and return an error as success.
* A store call is atomic and may raise; reading a row and rewriting it are one
  step, as no other thread writes that row in between in the modelled paths.
  In `PentestRun` raising store calls of the driving thread are modelled; one in
  a handler is `HandlerRaises`.
* In `RequestBudget` incrementing the counter and appending a stamp are one
  step.  Stamps are relative ages, and their order, which the code never looks
  at, is left out.  A request without an answer is never counted, in the code
  and in the model, so the bound is on answered and flying requests.  Starting a
  thread is taken not to fail.  Threads that a phase timeout abandons go on with
  the engine of their phase, which no later phase looks at: `PentestRun` has
  them.
* In `EventStream` the steps of generators and of unsubscribe are turns of one
  event loop, so they exclude each other, not the publishing threads.
* In `DetectionRun` the size of a patch stands for the ranking key after
  `exit_code`: files, lines, duration.  The last key, the candidate's id, is the
  tie-break.
* In `PhaseData` a target leaks what an attack tests, refuses it in the words
  or status the attack looks for, or does not answer; besides, an injection may
  meet an answer that is neither (401, 404, 405, 429, 5xx: `dismiss`) and a
  hypothesis a 5xx (`fail`, or `crash` in a race or with an integrity error in
  the body).  An answer is reduced to what the judging function looks at.
  Exploit scripts are the deterministic template; those of a configured model
  are not modelled.  Counts, texts and scores are left out.
* In `LearningStores` an entry is a member of a small set; what loading loses
  of an entry (its severity type, fields unknown to its class) is kept.  The CVE
  cache is three files written one after the other; only `nvd_cache.json` has
  entries, and it stands for all three: what a crash between the three leaves of
  the others is not modelled.  Ticks may overlap, since `tick` holds no lock; no
  line outside `nemoclaw/` calls `heartbeat_tick`, so when it is called is left
  to whoever hosts the orchestrator.
* In `OwnershipService` a start's walk over the dictionary of challenges is one
  step, which raises if another thread added one since the request began; the
  walk of a revocation goes record by record and keeps what it did when it
  raises.  `revoke_verification` has no caller but `tests/test_verification.py`.
* In `PatchFlow` a commit is the tree it holds; history, messages and the order
  of commits are left out, and one request changes one file.  GitHub refuses a
  branch without a commit of its own; trees do not tell, so `NothingToMerge` may
  happen to any branch without a pull request.  A write of a file that fails
  leaves the file as it was.  Plain `git checkout` of a branch that only the
  remote has cannot arise: a branch is pushed from this clone, which keeps it.
* In `Scheduler` the wall clock never goes back; two processes on one database
  are not modelled (`server.py` starts one worker).
* `AgentOrchestrator.cancel` and `submit`, `EventBus.send_done` and `clear_log`
  have no caller in `src/` and are left out.

## 3. Runs

| Run | Question | Bounds and why they suffice |
|---|---|---|
| `PentestRun_gated` | Gated modes, both entries, store failure, crash: is a verdict decided once, on all the evidence, only on a green run?  Does the run implement `ReleaseGate`? | `targeted` has live attacks only, `pre_release` all phases.  Two mishaps: one thread abandoned before another fails.  Pool of 2: two abandoned threads make the next handler wait for one of them to end (that it times out unstarted would take a third mishap).  The executor join does not expire here (see below) |
| `PentestRun_ungated` | Modes that go on after a failure, under fairness: do they end, announce themselves, explain a missing verdict, keep the row? | `quick`, and `continuous`, whose phase timeout equals the run's budget; two mishaps; the join may expire |
| `PhaseData_modes` | What do a verdict, its evidence and the review rest on, how can a finding be lost, and what is a release blocked for? | four modes, with and without live attacks, gate and source scan; two routes, so that one agent can fail beside another; two faults: one that delays a thread and one that swallows or loses (3.2 million states) |
| `RequestBudget_swarm` | Is the overrun of the cap bounded, also by races, does the swarm end, stopped or not? | two tasks on one slot, two phases of which the second has races of two threads, cap 1, one stop: a thread judges beside another of its race, and one that outlived the join beside the next task (133,435 states) |
| `EventStream_two` | What do two streams get, from the run's thread and a worker? | three events, two streams: the smallest list one can be passed by in |
| `EventStream_skip` | Finding 1 | the same |
| `DetectionRun_faults` | Are rows backed by tests and events, whatever raises where? | two sizes make ties and both orders; two failing calls reach the except clause and its own failure; a crash anywhere |
| `Scheduler_restarts` | Spacing, deletion, liveness over a failing tick and a restart | two schedules, intervals 2 and 3, five time units: each can have two slots, and a restart may fall between them |
| `LearningStores_two` | What does a run lose of what another one learned, does the memory of a target tell the truth, do the advisory counts go back? | two runs, at once or one after the other, two CVEs of which one matters, one crash, two heartbeat ticks before it: a stale view, a torn file, a lost update and two overlapping ticks each need no more (3.3 million states; with `MayTickAgain = TRUE`, ticks also after the crash, 5.8 million and no error) |
| `LearningStores_forgets` | Finding 2 | the same |
| `OwnershipService_shared` | What does the service keep under two threads, expiry, revocation and an owner who moves the proof? | one target (records of two never meet), two methods (only a file check may raise), limit 1, life of a challenge 1 tick, four requests, two revocations: two checks of one challenge overlap, a check and a revocation overlap, and a revocation follows one that was undone (1.6 million states) |
| `PatchFlow_clone` | What does a PR hold, what is the clone left with? | three findings, two of them in one file; five requests, two at a time, on `main` and two fix branches: one retries a finding with the caller's own branch name, `main`, one is for a pentest receipt; one failing call (5.5 million states) |

What the properties say is written above each of them in the modules.  The
invariants of a module are conjunctions of the claims of one decision (for
instance `ReleaseIsVerified`), so that each is about several pieces of state.

**Exceptions stated in properties.**  `AnnouncedIsFinal`
excepts an attestation thread that timed out and outlived `asyncio.run`'s
executor join (300 s): the model shows that it then writes a verdict over a row
already announced or marked failed.  For the same reason `PentestRun_gated`
lets the join finish: with `JoinMayExpire = TRUE` the run does not implement
`ReleaseGate`.  `NothingElseIsLost` and `StreamsEnd` except streams
passed by (finding 1).  `RunSettles` excepts a crash and two ways to
lose a run for good: an exception before the try, and a second one raised by the
except clause that reports the first (`LostForGood`); no single failure after
the scan began does it.  `LossNeedsStaleView` lists every way knowledge gets
lost, `MissedIsExplained` every way a finding misses the verdict,
`BlockIsExplained` every reason to block, the answers an attack mistakes for
success included: each exception is a line of the property, and a mutant that
adds another way is caught.  `CountsForwardUnlessOvertaken` excepts a scan that
stores its own count and a tick that another store overtook.  What the code lets
happen when requests overlap is in four history variables, each as narrow as the
code allows.  `undone`: a target whose check found its proof before a revocation
ended and wrote its outcome after it began; the next revocation that meets no
such check clears it.  `overruled`: a target whose proved record another request
set to failed, having looked at it before it was proved (a second check of that
challenge) or having begun while the outcome was being written (a revocation);
the next proof clears it.  `moved`: a request that another took to its branch
between its own branch step and its commit.  `dropped`: a finding whose patch a
whole-file write left out.  `RevocationHolds`, `VerifiedHasRecord` and
`CreatedHoldsPatch` claim everything else, over all interleavings; a revocation
whose walk raised promises nothing, and says so to its caller.
`DirtyNeedsFailure` has no exception for sharing: it wants, for each file left
changed, a request for that very file that failed at the commit.  That the next
commit carries such leftovers along, and that a second check may fail a record
just proved, the code allows and no property forbids.

**Fairness.**  `FairSpec` asks for weak fairness of what the runtime
schedules: the event loop, the handlers' threads (every outgoing call of theirs
has a timeout), the generators, the scheduler's loop and pool.  Failures,
timeouts, disconnects, crashes, restarts and the passing of wall-clock time are
never fair; only in `RequestBudget`, where the limiter sleeps for a fixed time,
the clock is.

## 4. Findings

With a run that shows them:

1. `EveryEventDelivered` (`event_bus.py:56`): publish walks the list of
   subscribers while another stream leaves it, and passes a stream by; when the
   event is `run_completed` that stream stays open.
2. `HistorySurvives` (`intelligence/engagement_memory.py:172`): what one process
   saves, the next cannot load; the swallowed error empties the memory, and the
   first `start_engagement` writes that over the history.

Met while modelling, and described by the models without a run of their own:

* Pentest run.  A gated run that aborts is COMPLETED with verdict pending
  (`pentest.py:192`); `docs/CINI_PENTEST_GUIDE.md:162` knows BLOCKED or SAFE.  A
  mode without the gate attests SAFE over a scan that failed (`pentest.py:1480`);
  `README.md:60` has incomplete releases blocked.  A store that fails again in
  the except clause leaves a finished run at running (`pentest.py:183`), against
  the comment at `pentest.py:188`.
* Budget.  Every live phase starts a new count, so the cap is per phase;
  `README.md:91` says per run.
* Attacks.  An injection whose target did not answer (status 0), or answered
  anything but 400, 403, 422 or one of seven words, is judged a success and
  blocks: 401, 404, 405, 429 and 5xx do, and injections are posted to every
  route, `GET` ones too (`agents/injection.py:211`, `pentest.py:843`); so does a
  race whose target fails with a 5xx for whatever reason
  (`intelligence/novel_attack.py:755`).  `README.md:80` has a hypothesis
  validated before it blocks.  An exploit script that times out counts as blocked although the target leaks.
  Injection findings of different routes share an id, so one `evidence.json`
  overwrites the other.  A route listed by both OpenAPI and source is attacked
  twice.  `custom_exploit` ignores `attack_only_source`.  An agent that raises
  late loses its earlier receipts; a race's late receipt is lost uncounted.
  String payloads of an earlier run would make the hunt raise, which is
  swallowed.  The bundle's report counts blocked receipts as confirmed findings.
* Swallowed errors.  An exception while dependency events are stored loses the
  vulnerabilities found, and the phase is recorded a success; failed advisory
  queries count as clean.  CVE enrichment runs before the scan that supplies its
  packages, and works only when its thread was abandoned.  The ownership phase
  succeeds for an unverified target, and looks at the configured URL while
  scoping may later switch to the staging one; no mode blocks on production.
  Validation and adversarial verification in the attestation change its
  summary, not its verdict.
* Ownership service.  A failed challenge no longer counts against the limit; a
  start may return a verified challenge that has expired, which a check then
  calls expired while its target stays verified; the set never lapses.  A start
  over the limit is an uncaught `ValueError`.  The file challenge of
  `OwnershipProver` writes its own marker.
* Pull requests.  Nothing returns the clone to main, so the branch of a second
  finding starts from the first's and its PR carries that patch too.  A retry
  after a failed push ends with "nothing to commit".  A whole file written from
  an old reading drops another finding's patch.  The commit message claims a
  verification in an isolated workspace that did not happen.  The PR endpoint
  of a pentest never gets beyond the proposal: it takes a URL for a path.
* `docs/PLAN.md:257` wants FAILED from any state, but the first calls of
  `DetectionRunService.execute` stand outside its try;
  `docs/NEMOCLAW_SETUP.md:141` has the scheduler's tick call the heartbeat, and
  `_tick` does not; a taken slot is not made up for when its run cannot start.

## 5. Proofs

All for every value of the constants that the modules' assumptions admit.

**`PentestRunProofs`** proves `Spec => []RunInv` and from it `TypeOK`,
`SafeNeedsGreenRun`, `SafeIsClean` and `VerdictIsBacked`.  The only facts about
plans used are in `PlanAssumption`: no phase twice, attestation followed by
`complete` only.  The properties are not inductive on their own.  `GateInv` says
every phase before `index` succeeded in a gated mode; `FreshInv` that what lies
ahead has no result, so that a recorded result belongs to a phase reached;
`ZombieInv` that an abandoned thread belongs to a phase recorded as failed (or
about to be), which is why a late finding cannot slip under a SAFE verdict whose
scans did not fail; `AttestationInv` ties the flag read, the verdict signed and
the row; `CleanInv` carries "nothing found" from the read to the end.

On top of `RunInv` it proves three more results.  `UndecidedIsExplained` needs
`DecidedInv`: every phase passed has a result, an attestation that is recorded
as a success has committed, and without an exception the loop is left only at
the end of the plan or after a failed phase.  That a plan has an attestation at
all is `MandatoryPhases`, which `plan_phases` sees to in every mode.
`AnnouncedIsFinal`, an action property, follows action by action: the row is
written by the driver, which is past its writes when it announces, and by an
attestation, which is then a zombie.  `RunImplementsGate` is the refinement of
`ReleaseGate`, proved under `GatedAndJoined` (every mode gated, the executor
joined, as in `PentestRun_gated`): `LifecycleInv` says what the row's status is
at every point of the loop, and each action then maps to a step of the gate or
to a stutter.  The hypothesis is needed: without the gate a verdict may follow
a failed scan whose thread still adds evidence, and with an expired join it may
follow the end of the run.

**`DetectionRunProofs`** proves `Spec => []DetectInv` and from it `TypeOK`,
`ReleaseIsVerified` and `EventsExplainRow`, for any number of failing store
calls and any crash.  `OpenInv` says both verdict and lifecycle are written
last; `CandidatesInv` that from the ranking on the selected candidate passed its
tests if any did; `FindingInv` and `ReportInv` fix which event and which verdict
have been written at each step, so that a call that raises between the two
cannot leave a claim without its event.

**`AcrossRunsProofs`** is about what holds from one run to the next, in two
modules.  For `Scheduler` it proves `Spec => []SchedInv` and from it `TypeOK`,
`SlotsAreSpaced` and `DeletedRunsOnce`, with any stops, crashes and restarts.
`DueInv` says the list a tick holds has one entry per schedule, each due by now;
`AheadInv` that every slot taken ends before the next time of its row and of
the entry that may still take one, which is why a late tick cannot start a
burst; `UnlistedInv` that a slot taken from a row already gone is the last of
its schedule.

For `LearningStores` it proves `StoresSpec => []StoresInv` and from it
`StoresTypeOK`, `MemoryIsHonest` and the two action properties
`LossNeedsStaleView` and `CountsForwardUnlessOvertaken`, for any finite set of
runs, any entries and any number of crashes.  Loss is explained by `FreshInv`:
a file that parses holds what was last saved, so whoever loads it knows all of
it, and as long as nobody else touches the file neither a feed, a lesson nor a
refused save takes an entry away.  `EntriesInv` is what lets it speak of types
(the cache holds CVEs only, the learner's tasks are CVEs and the source scan),
`PlaceInv` says which handler a place belongs to, hence which file a run that
writes has open.  `MemoryInv` adds to `MemoryIsHonest` that a recorded run is
over and that what a run has read of the row names a run recorded by then: it
is not itself among them, so a commit adds one run to the count and never
compares a run with itself, also when two inserts race and one fails.
`CursorInv` says that the base of each tick is the count until another store, of
a scan or of a second tick, overtakes it.

**`RequestBudgetProofs`** proves `Spec => []BudgetInv` and from it
`OverrunIsBounded` and `TypeOK`, for any tasks, widths of a race, caps and
windows.  The bound is on the threads that may send at the moment one more is
sent on an unspent budget: `LivingInv` says that a thread which is not through
belongs to a task at work, to a race, or to a race that gave it up; `SlotInv`
that no more tasks are at work than the semaphore has slots.  So there are at
most slots times threads of a task, and those given up.  `TypeOK` needs
`AttemptInv`: a request that is judged or in flight is one its thread still had
to make.

**`OwnershipServiceProofs`** proves `Spec => []OwnershipInv` and from it
`TypeOK`, `ActiveIsBounded`, `RevocationHolds` and `VerifiedHasRecord`, for any
finite, non-empty set of request threads.  The properties speak of the table
and the set; what makes them inductive is what each thread between two of its
steps still believes.  `ChallengeInv` says that a check works on a challenge
nobody else has verified unless it met him; `RevokingInv` that a revocation
which met no check finds set and records as it left them; `QuietInv` that after
a revocation nothing says the target is owned, and whoever holds an older proof
has met it; `RecordInv` that what backs a verified target is there before the
target is; `CountInv` that threads which have counted and not yet added share
one place below the limit.

**`PatchFlowProofs`** proves `Spec => []PatchInv` and from it `TypeOK`,
`CreatedHoldsPatch` and `DirtyNeedsFailure`, for any findings, files (at least
one), branches and requests, `main` and shared branches included.  `HoldInv`
follows the patch of each request that was neither moved nor dropped from the
proposal through working tree, index and branch to the remote.  It is kept by
other requests only because of `GrowInv`: but for the patches left out, nothing
committed is missing in the index and nothing staged in the working tree, so a
commit of somebody else's cannot take a patch back.  `CloneInv` says whose
leftovers a changed or staged file is; `RequestInv` that an answer naming a step
is the end of its request.

**`EventStreamProofs`** proves `Spec => []StreamInv` and from it `TypeOK` and
`NothingElseIsLost`, for any threads, streams and quotas.  `ReplayInv` says that
a replay has delivered what lies before it in the log, `WalkInv` that an
iteration of `publish` has given its event to every watching stream it has
behind it, or recorded that it passed it by; `ListInv` and `PublishInv` (an
event is logged before it is handed out) connect the two when a stream ends its
replay while an event is being handed out.  The lemmas say what `append`,
`list.remove` and reading do to what a sequence contains; that a stream is
listed once, part of `TypeOK`, is what makes removal move positions by one.

**`PhaseDataProofs`** proves `Spec => []PhaseInv` and from it `TypeOK`,
`LostIsCounted`, `ApprovalMatchesVerdict`, `LateSuccessIsFailed`,
`ReportIsBacked`, `MissedIsExplained` and `BlockIsExplained`, for any set of
requests (in any of the modes, with any routes, identities and scores) and any
number of faults.  Every plan is an ascending one (lemma `PlanAscends`, from the
ranks of `PHASE_ORDER` and the switches of a mode), so when a phase has begun no
earlier one is awaited or begins, and what still runs of one belongs to a phase
recorded as failed (`LoopInv`).  `SwarmInv` ties receipts to attacks both ways: a
receipt says what the course of one attack makes of it, and an attack without
one lost it or its phase did; `LostInv` has the statistics agree with that, and
`ScanInv` says the same of scanners.  Review, verdict and bundle read a list
that abandoned threads still add to: `ReviewInv` says that behind a SAFE
candidate no thread is left that could find anything, `VerdictInv` that what a
clean reading missed comes from failed phases, from the reading to the row, and
`BundleInv` that the copies made for the row are a part of the list the bundle
is written from.  That a file of the bundle is the last receipt of its name needs
the greatest of a set of positions, which `WFMin` gives without an induction
over data.

**Model-checked only**: liveness (`RunIsAnnounced`, `RunEnds`, `StreamsEnd`,
`RunSettles`, `DueIsServed`), which is out of the provers' reach and stays with
TLC.  Every other property of a passing run is stated by a theorem.  What the
sum over ages in `RequestBudget` comes to is an induction over data; no theorem
rests on it.

## 6. Not modelled

Text and data: payload generation, syntax-tree rules, the patterns of a
redaction, hashing, prompts, SBOM and VEX documents, HTML.  Single HTTP calls
whose errors are caught in place (integrations).  The hourly quota, one lock
around one list.  Agent traces, security invariants and the demo seed of the
store.  Code without a caller outside tests: the monitoring classes,
`ZeroDayHunter`, `agents/pr_creator.py`, `agents/code_worker.py`,
`AgentOrchestrator.cancel`, `EventBus.clear_log`.  Reasons are given per
component in `PROJECT.json`.

## 7. Plan

Order follows what a wrong release decision would cost.

1. The models listed in section 2: done.
2. Proofs of every invariant and action property of these models: done.
3. The quota's sliding window, and the composition of `PhaseData` with the
   store failures and crashes of `PentestRun`.
