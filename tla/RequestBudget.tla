---------------------------- MODULE RequestBudget ----------------------------
(***************************************************************************)
(* The live phases of a run: each builds a PolicyEngine (policy.py) and a   *)
(* scoped client (agents/http.py) and runs one task per route or hypothesis *)
(* in an AgentSwarm (swarm/swarm.py).  A task sends its requests one after  *)
(* the other, in a thread of the loop's pool; a race_condition hypothesis   *)
(* sends its steps at once, each in a thread of its own that is joined for  *)
(* some seconds only.  All these threads share the engine without a lock: a *)
(* request is judged first and counted when it is answered, and pruning the *)
(* time stamps reads and replaces their list.                              *)
(*                                                                         *)
(* Time is relative: stamps say how many counted requests there are of each *)
(* age, in ticks of which Window make a second.  The list of the code is    *)
(* only filtered and measured, so its order is left out; an age of Window   *)
(* stands for every age past the second.                                   *)
(***************************************************************************)
EXTENDS Integers, FiniteSets, Functions

CONSTANTS
  Tasks,          \* tasks of one phase's swarm
  Phases,         \* number of live phases, each with an engine of its own
  RacePhases,     \* those whose tasks may be races: zero_day_hunting
  Width,          \* steps of a race
  Attempts,       \* requests a task makes, one after the other
  RaceAttempts,   \* requests a thread of a race makes
  MaxConcurrency, \* the swarm's semaphore
  MaxTotal,       \* scope.max_total_requests
  MaxPerSecond,   \* scope.max_requests_per_second
  Window,         \* ticks in a second
  MaxStops        \* bound: times the operator puts up the kill switch file

ASSUME BudgetAssumption ==
  /\ IsFiniteSet(Tasks) /\ RacePhases \subseteq 1 .. Phases
  /\ {Phases, Width, Attempts, RaceAttempts, MaxConcurrency, MaxTotal, MaxPerSecond, Window}
       \subseteq Nat \ {0}
  /\ RaceAttempts <= Attempts /\ MaxStops \in Nat

VARIABLES
  phase,      \* which live phase runs
  pc,         \* per task: where its coroutine is
  step,       \* per thread of a task: where it is
  left,       \* per thread: requests still to make
  snapshot,   \* per thread: the stamps it found fresh when it judged a request
  abandoned,  \* threads that outlived the join of their race
  count,      \* engine: _request_count
  stamps,     \* engine: _request_timestamps
  latched,    \* engine: _kill_switch_active
  wait,       \* swarm limiter: ticks until _next_at
  stopFile,   \* the kill switch file exists
  stops       \* times it was put up

threads == <<step, left, snapshot, abandoned>>
engine == <<count, stamps, latched>>
operator == <<stopFile, stops>>
vars == <<phase, pc, step, left, snapshot, abandoned, count, stamps, latched, wait,
          stopFile, stops>>

PCs == {"queued", "spawned", "working", "racing", "completed", "failed"}
Steps == {"ready", "judging", "flying", "over"}
Threads == Tasks \X (1 .. Width)

At(places) == {t \in Tasks : pc[t] \in places}
Active == At({"spawned", "working", "racing"})
Flying == {q \in Threads : step[q] = "flying"}
\* Threads a task of this phase may have.
Lanes  == 1 .. IF phase \in RacePhases THEN Width ELSE 1

\* _RateLimiter: 1 / requests_per_second.
Interval == IF Window \div MaxPerSecond > 0 THEN Window \div MaxPerSecond ELSE 1

Ages     == 0 .. Window
NoStamps == [age \in Ages |-> 0]
Fresh(ages) == [ages EXCEPT ![Window] = 0]

Init ==
  /\ phase = 1
  /\ pc = [t \in Tasks |-> "queued"]
  /\ step = [q \in Threads |-> "over"] /\ left = [q \in Threads |-> 0]
  /\ snapshot = [q \in Threads |-> NoStamps] /\ abandoned = {}
  /\ count = 0 /\ stamps = NoStamps /\ latched = FALSE /\ wait = 0
  /\ stopFile = FALSE /\ stops = 0

-----------------------------------------------------------------------------
(* AgentSwarm._run_one *)

(* Mutant: no semaphore.                                                   *)
SpawnUnbounded(t) ==
  /\ pc[t] = "queued" /\ ~stopFile
  /\ pc' = [pc EXCEPT ![t] = "spawned"]
  /\ UNCHANGED <<phase, threads, engine, wait, operator>>

(* With a slot of the semaphore, and no kill switch in sight.               *)
Spawn(t) ==
  /\ pc[t] = "queued" /\ Cardinality(Active) < MaxConcurrency /\ ~stopFile
  /\ pc' = [pc EXCEPT ![t] = "spawned"]
  /\ UNCHANGED <<phase, threads, engine, wait, operator>>

KilledBeforeSpawn(t) ==
  /\ pc[t] = "queued" /\ Cardinality(Active) < MaxConcurrency /\ stopFile
  /\ pc' = [pc EXCEPT ![t] = "failed"]
  /\ UNCHANGED <<phase, threads, engine, wait, operator>>

\* The threads of a task that send its requests, so many each.
Launch(t, lanes, n) ==
  /\ step' = [q \in Threads |-> IF q \in {t} \X lanes THEN "ready" ELSE step[q]]
  /\ left' = [q \in Threads |-> IF q \in {t} \X lanes THEN n ELSE left[q]]

(* The limiter spaces the starts of tasks, not their requests.              *)
Start(t) ==
  /\ pc[t] = "spawned" /\ wait = 0
  /\ \/ pc' = [pc EXCEPT ![t] = "working"] /\ Launch(t, {1}, Attempts)
     \/ /\ phase \in RacePhases
        /\ pc' = [pc EXCEPT ![t] = "racing"] /\ Launch(t, Lanes, RaceAttempts)
  /\ wait' = Interval
  /\ UNCHANGED <<phase, snapshot, abandoned, engine, operator>>

Living(t) == {q \in Threads : q[1] = t /\ step[q] # "over"}

Finish(t) ==
  /\ pc[t] \in {"working", "racing"} /\ Living(t) = {}
  /\ pc' = [pc EXCEPT ![t] = "completed"]
  /\ UNCHANGED <<phase, threads, engine, wait, operator>>

(* A race waits for its threads for so long and no longer; what is left of  *)
(* them goes on, with the same engine and without a slot.                   *)
JoinExpires(t) ==
  /\ pc[t] = "racing" /\ Living(t) # {}
  /\ pc' = [pc EXCEPT ![t] = "completed"]
  /\ abandoned' = abandoned \cup Living(t)
  /\ UNCHANGED <<phase, step, left, snapshot, engine, wait, operator>>

(* Whatever a task raises becomes a failed result.  In a race it ends the   *)
(* thread that raised, and nobody is told.                                 *)
Raises(q) ==
  /\ step[q] \in {"ready", "flying"}
  /\ step' = [step EXCEPT ![q] = "over"] /\ left' = [left EXCEPT ![q] = 0]
  /\ pc' = [pc EXCEPT ![q[1]] = IF @ = "working" THEN "failed" ELSE @]
  /\ UNCHANGED <<phase, snapshot, abandoned, engine, wait, operator>>

-----------------------------------------------------------------------------
(* ScopedHTTPClient.request and PolicyEngine.evaluate, in a task's thread   *)

(* Mutant: the thread does not know when it is through.                     *)
AttemptedOnceMore(q) ==
  /\ left' = [left EXCEPT ![q] = @ - 1]
  /\ step' = [step EXCEPT ![q] = IF left[q] = 0 THEN "over" ELSE "ready"]

\* The attempt is over; its receipt says denied, error or answered.
Attempted(q) ==
  /\ left' = [left EXCEPT ![q] = @ - 1]
  /\ step' = [step EXCEPT ![q] = IF left[q] = 1 THEN "over" ELSE "ready"]

(* Blocked by the runtime check, or by the scope's methods, hosts or paths. *)
DeniedByScope(q) ==
  /\ step[q] = "ready" /\ ~latched /\ ~stopFile
  /\ Attempted(q)
  /\ UNCHANGED <<phase, pc, snapshot, abandoned, engine, wait, operator>>

(* Mutant: a denied request is tried again.                                *)
DeniedIsRetried(q) ==
  /\ step[q] = "ready" /\ (latched \/ stopFile)
  /\ latched' = TRUE
  /\ UNCHANGED <<phase, pc, threads, count, stamps, wait, operator>>

(* check_kill_switch remembers the file it saw.                             *)
DeniedByKillSwitch(q) ==
  /\ step[q] = "ready" /\ (latched \/ stopFile)
  /\ latched' = TRUE
  /\ Attempted(q)
  /\ UNCHANGED <<phase, pc, snapshot, abandoned, count, stamps, wait, operator>>

(* The static checks pass; the fresh stamps are read ...                    *)
Evaluate(q) ==
  /\ step[q] = "ready" /\ ~latched /\ ~stopFile
  /\ step' = [step EXCEPT ![q] = "judging"]
  /\ snapshot' = [snapshot EXCEPT ![q] = Fresh(stamps)]
  /\ UNCHANGED <<phase, pc, left, abandoned, engine, wait, operator>>

Spent(q) == count >= MaxTotal \/ SumFunction(snapshot[q]) >= MaxPerSecond

(* ... and stored, over whatever other threads have appended meanwhile.     *)
DeniedByBudget(q) ==
  /\ step[q] = "judging" /\ Spent(q)
  /\ stamps' = snapshot[q]
  /\ Attempted(q)
  /\ snapshot' = [snapshot EXCEPT ![q] = NoStamps]
  /\ UNCHANGED <<phase, pc, abandoned, count, latched, wait, operator>>

Send(q) ==
  /\ step[q] = "judging" /\ ~Spent(q)
  /\ stamps' = snapshot[q]
  /\ step' = [step EXCEPT ![q] = "flying"]
  /\ snapshot' = [snapshot EXCEPT ![q] = NoStamps]
  /\ UNCHANGED <<phase, pc, left, abandoned, count, latched, wait, operator>>

(* record_request: only an answered request is counted.                     *)
Answered(q) ==
  /\ step[q] = "flying"
  /\ count' = count + 1 /\ stamps' = [stamps EXCEPT ![0] = @ + 1]
  /\ Attempted(q)
  /\ UNCHANGED <<phase, pc, snapshot, abandoned, latched, wait, operator>>

(* One without an answer never is, although it reached the target.          *)
Unanswered(q) ==
  /\ step[q] = "flying"
  /\ Attempted(q)
  /\ UNCHANGED <<phase, pc, snapshot, abandoned, engine, wait, operator>>

-----------------------------------------------------------------------------
PhaseOver == At({"completed", "failed"}) = Tasks

(* The next handler builds its own engine, limiter and tasks.  What is left *)
(* of a race goes on with the old engine, which nobody else looks at again. *)
NextPhase ==
  /\ PhaseOver /\ phase < Phases
  /\ phase' = phase + 1
  /\ pc' = [t \in Tasks |-> "queued"]
  /\ step' = [q \in Threads |-> "over"] /\ left' = [q \in Threads |-> 0]
  /\ snapshot' = [q \in Threads |-> NoStamps] /\ abandoned' = {}
  /\ count' = 0 /\ stamps' = NoStamps /\ latched' = FALSE /\ wait' = 0
  /\ UNCHANGED operator

Aged(ages) == [age \in Ages |->
  IF age = 0 THEN 0 ELSE ages[age - 1] + IF age = Window THEN ages[age] ELSE 0]

(* A stamp past the window is never seen again.                             *)
Tick ==
  /\ wait > 0 \/ stamps # NoStamps \/ \E q \in Threads : Fresh(snapshot[q]) # NoStamps
  /\ wait' = IF wait > 0 THEN wait - 1 ELSE 0
  /\ stamps' = Fresh(Aged(stamps))
  /\ snapshot' = [q \in Threads |-> Aged(snapshot[q])]
  /\ UNCHANGED <<phase, pc, step, left, abandoned, count, latched, operator>>

PutStopFile ==
  /\ ~stopFile /\ stops < MaxStops
  /\ stopFile' = TRUE /\ stops' = stops + 1
  /\ UNCHANGED <<phase, pc, threads, engine, wait>>

RemoveStopFile ==
  /\ stopFile
  /\ stopFile' = FALSE
  /\ UNCHANGED <<phase, pc, threads, engine, wait, stops>>

RunOver == PhaseOver /\ phase = Phases
Stopped == RunOver /\ UNCHANGED vars

TaskStep(t) ==
  Spawn(t) \/ KilledBeforeSpawn(t) \/ Start(t) \/ Finish(t)

ThreadStep(q) ==
  \/ DeniedByScope(q) \/ DeniedByKillSwitch(q) \/ Evaluate(q)
  \/ DeniedByBudget(q) \/ Send(q) \/ Answered(q) \/ Unanswered(q)

Next ==
  \/ \E t \in Tasks : TaskStep(t) \/ JoinExpires(t)
  \/ \E q \in Threads : ThreadStep(q) \/ Raises(q)
  \/ NextPhase \/ Tick \/ PutStopFile \/ RemoveStopFile \/ Stopped

Spec == Init /\ [][Next]_vars

(* The event loop and the pool serve every task and thread, the client's    *)
(* requests time out, and the clock advances.  Nothing makes a task raise,  *)
(* and no join has to expire.                                              *)
Fairness ==
  /\ \A t \in Tasks : WF_vars(TaskStep(t))
  /\ \A q \in Threads : WF_vars(ThreadStep(q))
  /\ WF_vars(Tick) /\ WF_vars(NextPhase)

FairSpec == Spec /\ Fairness

-----------------------------------------------------------------------------
TypeOK ==
  /\ phase \in 1 .. Phases /\ pc \in [Tasks -> PCs]
  /\ step \in [Threads -> Steps] /\ left \in [Threads -> 0 .. Attempts]
  /\ stamps \in [Ages -> Nat] /\ snapshot \in [Threads -> [Ages -> Nat]]
  /\ abandoned \subseteq Threads
  /\ count \in Nat /\ latched \in BOOLEAN /\ wait \in 0 .. Interval
  /\ stopFile \in BOOLEAN /\ stops \in 0 .. MaxStops

(* The engine has no lock, so its cap on the requests of a phase can be     *)
(* overrun, but by less than the threads that may send at once: those of    *)
(* the tasks that hold a slot of the swarm, and those a race gave up on.    *)
(* Requests that are never answered are not in the count.                  *)
OverrunIsBounded ==
  count + Cardinality(Flying)
    <= MaxTotal + MaxConcurrency * Cardinality(Lanes) + Cardinality(abandoned) - 1

(* The strengthening of TypeOK that every step keeps: a thread that is not   *)
(* through has a request left to make.                                     *)
AttemptInv ==
  /\ TypeOK
  /\ \A q \in Threads : step[q] # "over" => left[q] > 0

(* The strengthening of OverrunIsBounded that every step keeps: what bounds  *)
(* the overrun is that a living thread belongs to a task with a slot, or to *)
(* a race that gave up on it.                                              *)
SlotInv == Cardinality(Active) <= MaxConcurrency
LivingInv ==
  \A q \in Threads : step[q] # "over" =>
    \/ pc[q[1]] = "working" /\ q[2] = 1
    \/ pc[q[1]] = "racing" /\ q[2] \in Lanes
    \/ pc[q[1]] = "completed" /\ q \in abandoned

BudgetInv == AttemptInv /\ SlotInv /\ LivingInv /\ OverrunIsBounded

(* Every swarm comes to its end, kill switch or not.                        *)
RunEnds == <>RunOver

=============================================================================
