------------------------ MODULE RequestBudgetProofs ------------------------
(***************************************************************************)
(* The cap of a phase is overrun by less than the threads that may send at  *)
(* once, and no thread makes more requests than it has, for any tasks,      *)
(* races, caps and windows, and any interleaving of the threads that share  *)
(* the engine without a lock.                                              *)
(***************************************************************************)
EXTENDS RequestBudget, FiniteSetTheorems, TLAPS

(* The constants, one by one; starts of tasks are some ticks apart.         *)
LEMMA BudgetConstants ==
  /\ Phases \in Nat \ {0} /\ Attempts \in Nat \ {0} /\ Window \in Nat \ {0}
  /\ Width \in Nat \ {0} /\ MaxStops \in Nat /\ Interval \in Nat \ {0}
  /\ MaxConcurrency \in Nat \ {0} /\ MaxTotal \in Nat \ {0}
  /\ RaceAttempts \in 1 .. Attempts
<1>1. /\ Phases \in Nat \ {0} /\ Attempts \in Nat \ {0} /\ Window \in Nat \ {0}
      /\ Width \in Nat \ {0} /\ MaxStops \in Nat /\ MaxPerSecond \in Nat \ {0}
      /\ MaxConcurrency \in Nat \ {0} /\ MaxTotal \in Nat \ {0}
      /\ RaceAttempts \in Nat \ {0} /\ RaceAttempts <= Attempts
  BY BudgetAssumption DEF BudgetAssumption
<1>2. Window \div MaxPerSecond \in Int
  BY <1>1
<1>3. Interval \in Nat \ {0}
  BY <1>2 DEF Interval
<1>4. QED
  BY <1>1, <1>3

-----------------------------------------------------------------------------
(* Type correctness *)

(* Counts of ages stay counts of ages.                                      *)
LEMMA AgesStayAges ==
  ASSUME NEW ages \in [Ages -> Nat]
  PROVE  /\ Fresh(ages) \in [Ages -> Nat] /\ Aged(ages) \in [Ages -> Nat]
         /\ [ages EXCEPT ![0] = @ + 1] \in [Ages -> Nat]
         /\ NoStamps \in [Ages -> Nat]
<1>1. 0 \in Ages /\ Window \in Ages
  BY BudgetConstants DEF Ages
<1>2. Fresh(ages) \in [Ages -> Nat] /\ NoStamps \in [Ages -> Nat]
      /\ [ages EXCEPT ![0] = @ + 1] \in [Ages -> Nat]
  BY <1>1 DEF Fresh, NoStamps
<1>3. ASSUME NEW age \in Ages
      PROVE  IF age = 0 THEN TRUE ELSE age - 1 \in Ages
  BY <1>3, BudgetConstants DEF Ages
<1>4. ASSUME NEW age \in Ages
      PROVE  (IF age = 0 THEN 0 ELSE ages[age - 1] + IF age = Window THEN ages[age] ELSE 0) \in Nat
  BY <1>3, <1>4
<1>5. QED
  BY <1>2, <1>4 DEF Aged

(* What the engine and the threads that judge with it keep, in a word.      *)
EngineTypes ==
  /\ stamps \in [Ages -> Nat] /\ snapshot \in [Threads -> [Ages -> Nat]]
  /\ count \in Nat /\ latched \in BOOLEAN

(* What each task is at, and which threads a race gave up on.               *)
TaskTypes == pc \in [Tasks -> PCs] /\ abandoned \subseteq Threads

(* What each thread is at.                                                  *)
ThreadTypes ==
  /\ step \in [Threads -> Steps] /\ left \in [Threads -> 0 .. Attempts]
  /\ \A q \in Threads : step[q] # "over" => left[q] > 0

(* What remains: the phase, the limiter and the operator's file.            *)
OtherTypes ==
  /\ phase \in 1 .. Phases /\ wait \in 0 .. Interval
  /\ stopFile \in BOOLEAN /\ stops \in 0 .. MaxStops

(* The parts make up the invariant, in this state and in the next one.      *)
LEMMA AttemptParts ==
  /\ AttemptInv <=> EngineTypes /\ TaskTypes /\ ThreadTypes /\ OtherTypes
  /\ AttemptInv' <=> EngineTypes' /\ TaskTypes' /\ ThreadTypes' /\ OtherTypes'
BY DEF AttemptInv, TypeOK, EngineTypes, TaskTypes, ThreadTypes, OtherTypes

(* A thread moves on with its attempts, or has made one, or has ended.      *)
LEMMA ThreadMoves ==
  ASSUME ThreadTypes, NEW q \in Threads, step[q] # "over",
         \/ /\ UNCHANGED left
            /\ \E place \in Steps : step' = [step EXCEPT ![q] = place]
         \/ Attempted(q)
         \/ /\ left' = [left EXCEPT ![q] = 0]
            /\ step' = [step EXCEPT ![q] = "over"]
  PROVE  ThreadTypes'
<1>1. left[q] \in 1 .. Attempts /\ Attempts \in Nat
  BY BudgetConstants DEF ThreadTypes
<1> DEFINE Moved(place, n) ==
      /\ step' = [step EXCEPT ![q] = place] /\ left' = [left EXCEPT ![q] = n]
      /\ place # "over" => n > 0
<1>2. PICK place \in Steps : \E n \in 0 .. Attempts : Moved(place, n)
  <2>1. CASE UNCHANGED left /\ \E place \in Steps : step' = [step EXCEPT ![q] = place]
    <3>1. left' = [left EXCEPT ![q] = left[q]]
      BY <2>1 DEF ThreadTypes
    <3>2. PICK place \in Steps : step' = [step EXCEPT ![q] = place]
      BY <2>1
    <3>3. Moved(place, left[q]) /\ left[q] \in 0 .. Attempts
      BY <3>1, <3>2, <1>1
    <3>4. QED
      BY <3>3
  <2>2. CASE Attempted(q)
    <3>1. CASE left[q] = 1
      <4>1. Moved("over", 0) /\ 0 \in 0 .. Attempts /\ "over" \in Steps
        BY <2>2, <3>1, <1>1 DEF Attempted, Steps
      <4>2. QED
        BY <4>1
    <3>2. CASE left[q] # 1
      <4>1. Moved("ready", left[q] - 1) /\ left[q] - 1 \in 0 .. Attempts /\ "ready" \in Steps
        BY <2>2, <3>2, <1>1 DEF Attempted, Steps
      <4>2. QED
        BY <4>1
    <3>3. QED
      BY <3>1, <3>2
  <2>3. CASE left' = [left EXCEPT ![q] = 0] /\ step' = [step EXCEPT ![q] = "over"]
    <3>1. Moved("over", 0) /\ 0 \in 0 .. Attempts /\ "over" \in Steps
      BY <2>3, <1>1 DEF Steps
    <3>2. QED
      BY <3>1
  <2>4. QED
    BY <2>1, <2>2, <2>3
<1>3. PICK n \in 0 .. Attempts : Moved(place, n)
  BY <1>2
<1>4. step' \in [Threads -> Steps] /\ left' \in [Threads -> 0 .. Attempts]
  BY <1>3 DEF ThreadTypes
<1>5. ASSUME NEW r \in Threads, step'[r] # "over"
      PROVE  left'[r] > 0
  BY <1>3, <1>5 DEF ThreadTypes
<1>6. QED
  BY <1>4, <1>5 DEF ThreadTypes

(* Threads that are launched have an attempt to make.                       *)
LEMMA ThreadsLaunched ==
  ASSUME ThreadTypes, NEW t, NEW lanes, NEW n \in 1 .. Attempts, Launch(t, lanes, n)
  PROVE  ThreadTypes'
<1>1. Attempts \in Nat /\ "ready" \in Steps
  BY BudgetConstants DEF Steps
<1>2. step' \in [Threads -> Steps] /\ left' \in [Threads -> 0 .. Attempts]
  BY <1>1 DEF ThreadTypes, Launch
<1>3. ASSUME NEW r \in Threads, step'[r] # "over"
      PROVE  left'[r] > 0
  BY <1>1, <1>3 DEF ThreadTypes, Launch
<1>4. QED
  BY <1>2, <1>3 DEF ThreadTypes

(* The steps of a thread.                                                   *)
LEMMA ThreadKeepsTypes ==
  ASSUME EngineTypes, ThreadTypes, NEW q \in Threads, ThreadStep(q)
  PROVE  EngineTypes' /\ ThreadTypes'
<1>1. snapshot[q] \in [Ages -> Nat] /\ NoStamps \in [Ages -> Nat] /\ Fresh(stamps) \in [Ages -> Nat]
  BY AgesStayAges DEF EngineTypes
<1>2. ThreadTypes'
  <2>1. step[q] # "over"
    BY DEF ThreadStep, DeniedByScope, DeniedByKillSwitch, Evaluate, DeniedByBudget, Send,
           Answered, Unanswered
  <2>2. CASE Evaluate(q) \/ Send(q)
    <3>1. UNCHANGED left /\ \E place \in Steps : step' = [step EXCEPT ![q] = place]
      BY <2>2 DEF Evaluate, Send, Steps
    <3>2. QED
      BY <2>1, <3>1, ThreadMoves
  <2>3. CASE Attempted(q)
    BY <2>1, <2>3, ThreadMoves
  <2>4. QED
    BY <2>2, <2>3 DEF ThreadStep, DeniedByScope, DeniedByKillSwitch, DeniedByBudget, Answered,
                      Unanswered
<1>3. CASE DeniedByScope(q) \/ Unanswered(q)
  BY <1>2, <1>3 DEF DeniedByScope, Unanswered, engine, EngineTypes
<1>4. CASE DeniedByKillSwitch(q)
  BY <1>2, <1>4 DEF DeniedByKillSwitch, EngineTypes
<1>5. CASE Evaluate(q)
  BY <1>1, <1>2, <1>5 DEF Evaluate, engine, EngineTypes
<1>6. CASE DeniedByBudget(q) \/ Send(q)
  <2>1. /\ stamps' = snapshot[q] /\ snapshot' = [snapshot EXCEPT ![q] = NoStamps]
        /\ UNCHANGED <<count, latched>>
    BY <1>6 DEF DeniedByBudget, Send
  <2>2. QED
    BY <1>1, <1>2, <2>1 DEF EngineTypes
<1>7. CASE Answered(q)
  <2>1. stamps' \in [Ages -> Nat]
    BY <1>7, AgesStayAges DEF Answered, EngineTypes
  <2>2. QED
    BY <1>2, <1>7, <2>1 DEF Answered, EngineTypes
<1>8. QED
  BY <1>3, <1>4, <1>5, <1>6, <1>7 DEF ThreadStep

(* The steps of a task.                                                     *)
LEMMA TaskKeepsTypes ==
  ASSUME TaskTypes, ThreadTypes, NEW t \in Tasks, TaskStep(t) \/ JoinExpires(t)
  PROVE  TaskTypes' /\ ThreadTypes'
<1>1. CASE Start(t)
  <2>1. pc' \in [Tasks -> PCs]
    BY <1>1 DEF Start, TaskTypes, PCs
  <2>2. PICK lanes \in SUBSET Nat, n \in 1 .. Attempts : Launch(t, lanes, n)
    <3>1. {1} \in SUBSET Nat /\ Lanes \in SUBSET Nat /\ Attempts \in 1 .. Attempts
      BY BudgetConstants DEF Lanes
    <3>2. QED
      BY <1>1, <3>1, BudgetConstants DEF Start
  <2>3. ThreadTypes'
    BY <2>2, ThreadsLaunched
  <2>4. QED
    BY <1>1, <2>1, <2>3 DEF Start, TaskTypes
<1>2. CASE Spawn(t) \/ KilledBeforeSpawn(t) \/ Finish(t)
  BY <1>2 DEF Spawn, KilledBeforeSpawn, Finish, threads, TaskTypes, ThreadTypes, PCs
<1>3. CASE JoinExpires(t)
  BY <1>3 DEF JoinExpires, Living, TaskTypes, ThreadTypes, PCs
<1>4. QED
  BY <1>1, <1>2, <1>3 DEF TaskStep

(* At the start of a run or a phase nothing is asked, counted or at work.   *)
PhaseBegins ==
  /\ pc = [t \in Tasks |-> "queued"]
  /\ step = [q \in Threads |-> "over"] /\ left = [q \in Threads |-> 0]
  /\ snapshot = [q \in Threads |-> NoStamps] /\ abandoned = {}
  /\ count = 0 /\ stamps = NoStamps /\ latched = FALSE

(* And so types are right.                                                  *)
LEMMA FreshTypes ==
  ASSUME PhaseBegins
  PROVE  EngineTypes /\ TaskTypes /\ ThreadTypes
<1>1. NoStamps \in [Ages -> Nat] /\ 0 \in 0 .. Attempts
  BY BudgetConstants DEF NoStamps
<1>2. EngineTypes
  BY <1>1 DEF PhaseBegins, EngineTypes
<1>3. TaskTypes
  BY DEF PhaseBegins, TaskTypes, PCs
<1>4. ThreadTypes
  BY <1>1 DEF PhaseBegins, ThreadTypes, Steps
<1>5. QED
  BY <1>2, <1>3, <1>4

(* The engine, the limiter and the clock.                                   *)
LEMMA TickKeepsTypes ==
  ASSUME EngineTypes, OtherTypes, Tick
  PROVE  EngineTypes' /\ OtherTypes'
<1>1. stamps' \in [Ages -> Nat]
  <2>1. Aged(stamps) \in [Ages -> Nat]
    BY AgesStayAges DEF EngineTypes
  <2>2. Fresh(Aged(stamps)) \in [Ages -> Nat]
    BY <2>1, AgesStayAges
  <2>3. QED
    BY <2>2 DEF Tick
<1>2. snapshot' \in [Threads -> [Ages -> Nat]]
  <2>1. \A q \in Threads : Aged(snapshot[q]) \in [Ages -> Nat]
    BY AgesStayAges DEF EngineTypes
  <2>2. QED
    BY <2>1 DEF Tick
<1>3. OtherTypes'
  BY BudgetConstants DEF Tick, operator, OtherTypes
<1>4. QED
  BY <1>1, <1>2, <1>3 DEF Tick, EngineTypes

(* The steps of the operator, and those that change nothing.                *)
LEMMA OperatorKeepsTypes ==
  ASSUME AttemptInv, PutStopFile \/ RemoveStopFile \/ UNCHANGED vars
  PROVE  AttemptInv'
<1>1. UNCHANGED <<phase, pc, step, left, snapshot, abandoned, count, stamps, latched, wait>>
  BY DEF PutStopFile, RemoveStopFile, vars, threads, engine
<1>2. stops' \in 0 .. MaxStops
  <2>1. UNCHANGED stops \/ (stops < MaxStops /\ stops' = stops + 1)
    BY DEF PutStopFile, RemoveStopFile, vars
  <2>2. QED
    BY <2>1, AttemptParts, BudgetConstants DEF OtherTypes
<1>3. stopFile' \in BOOLEAN
  <2>1. stopFile' = TRUE \/ stopFile' = FALSE \/ stopFile' = stopFile
    BY Zenon DEF PutStopFile, RemoveStopFile, vars
  <2>2. QED
    BY <2>1, AttemptParts DEF OtherTypes
<1>4. OtherTypes'
  BY <1>1, <1>2, <1>3, AttemptParts DEF OtherTypes
<1>5. EngineTypes' /\ TaskTypes' /\ ThreadTypes'
  BY <1>1, AttemptParts DEF EngineTypes, TaskTypes, ThreadTypes
<1>6. QED
  BY <1>4, <1>5, AttemptParts

(* Every step keeps types, and a living thread has a request to make.       *)
LEMMA AttemptStep ==
  ASSUME AttemptInv, [Next]_vars
  PROVE  AttemptInv'
<1>p. EngineTypes /\ TaskTypes /\ ThreadTypes /\ OtherTypes
  BY AttemptParts
<1>1. ASSUME NEW t \in Tasks, TaskStep(t) \/ JoinExpires(t)
      PROVE  AttemptInv'
  <2>1. TaskTypes' /\ ThreadTypes'
    BY <1>p, <1>1, TaskKeepsTypes
  <2>2. EngineTypes'
    BY <1>p, <1>1 DEF TaskStep, Spawn, KilledBeforeSpawn, Start, Finish, JoinExpires, threads,
                     engine, EngineTypes
  <2>3. wait' \in {wait, Interval} /\ UNCHANGED <<phase, operator>>
    BY <1>1 DEF TaskStep, Spawn, KilledBeforeSpawn, Start, Finish, JoinExpires
  <2>4. OtherTypes'
    <3>1. wait' \in 0 .. Interval
      BY <1>p, <2>3, BudgetConstants DEF OtherTypes
    <3>2. QED
      BY <1>p, <2>3, <3>1 DEF OtherTypes, operator
  <2>5. QED
    BY <2>1, <2>2, <2>4, AttemptParts
<1>2. ASSUME NEW q \in Threads, ThreadStep(q)
      PROVE  AttemptInv'
  <2>1. EngineTypes' /\ ThreadTypes'
    BY <1>p, <1>2, ThreadKeepsTypes
  <2>2. UNCHANGED <<phase, pc, abandoned, wait, operator>>
    BY <1>2 DEF ThreadStep, DeniedByScope, DeniedByKillSwitch, Evaluate, DeniedByBudget, Send,
                Answered, Unanswered
  <2>3. TaskTypes' /\ OtherTypes'
    BY <1>p, <2>2 DEF TaskTypes, OtherTypes, operator
  <2>4. QED
    BY <2>1, <2>3, AttemptParts
<1>3. ASSUME NEW q \in Threads, Raises(q)
      PROVE  AttemptInv'
  <2>1. ThreadTypes'
    BY <1>p, <1>3, ThreadMoves DEF Raises
  <2>2. TaskTypes'
    BY <1>p, <1>3 DEF Raises, TaskTypes, Threads, PCs
  <2>3. EngineTypes' /\ OtherTypes'
    BY <1>p, <1>3 DEF Raises, engine, operator, EngineTypes, OtherTypes
  <2>4. QED
    BY <2>1, <2>2, <2>3, AttemptParts
<1>4. CASE NextPhase
  <2>1. PhaseBegins'
    BY <1>4 DEF NextPhase, PhaseBegins
  <2>2. (PhaseBegins => EngineTypes /\ TaskTypes /\ ThreadTypes)'
    BY FreshTypes, PTL
  <2>3. OtherTypes'
    BY <1>4, <1>p, BudgetConstants DEF NextPhase, operator, OtherTypes
  <2>4. QED
    BY <2>1, <2>2, <2>3, AttemptParts
<1>5. CASE Tick
  <2>1. EngineTypes' /\ OtherTypes'
    BY <1>5, <1>p, TickKeepsTypes
  <2>2. TaskTypes' /\ ThreadTypes'
    BY <1>5, <1>p DEF Tick, TaskTypes, ThreadTypes
  <2>3. QED
    BY <2>1, <2>2, AttemptParts
<1>6. CASE PutStopFile \/ RemoveStopFile \/ Stopped \/ UNCHANGED vars
  BY <1>6, OperatorKeepsTypes DEF Stopped
<1>7. QED
  BY <1>1, <1>2, <1>3, <1>4, <1>5, <1>6 DEF Next

(* At the start types are right.                                            *)
LEMMA AttemptInit == Init => AttemptInv
<1>1. Init => OtherTypes
  <2>1. 1 \in 1 .. Phases /\ 0 \in 0 .. Interval /\ 0 \in 0 .. MaxStops
    BY BudgetConstants
  <2>2. QED
    BY <2>1, Zenon DEF Init, OtherTypes
<1>2. Init => PhaseBegins
  BY Zenon DEF Init, PhaseBegins
<1>3. QED
  BY <1>1, <1>2, FreshTypes, AttemptParts

(* Counters, stamps, threads and attempts keep their types: no interleaving *)
(* makes a thread send a request it had no attempt left for (TypeOK).      *)
THEOREM BudgetTypeCorrect == Spec => []TypeOK
<1>1. AttemptInv => TypeOK
  BY DEF AttemptInv
<1>2. QED
  BY <1>1, AttemptInit, AttemptStep, PTL DEF Spec
-----------------------------------------------------------------------------
(* The overrun *)

(* Tasks are finitely many, and so are those that hold a slot.              *)
LEMMA ActiveIsFinite == IsFiniteSet(Active) /\ Cardinality(Active) \in Nat
<1>1. IsFiniteSet(Tasks)
  BY BudgetAssumption DEF BudgetAssumption
<1>2. Active \in SUBSET Tasks
  BY DEF Active, At
<1>3. QED
  BY <1>1, <1>2, FS_Subset, FS_CardinalityType

(* Of finite sets the smaller one has no more members.                      *)
LEMMA NoMore ==
  ASSUME NEW S, NEW T, IsFiniteSet(T), S \subseteq T
  PROVE  IsFiniteSet(S) /\ Cardinality(S) \in Nat
         /\ Cardinality(T) \in Nat /\ Cardinality(S) <= Cardinality(T)
BY FS_Subset, FS_CardinalityType

(* A task has finitely many threads.                                        *)
LEMMA LanesAreFinite ==
  /\ IsFiniteSet(Lanes) /\ Cardinality(Lanes) \in Nat \ {0}
  /\ Lanes \subseteq 1 .. Width
<1>1. PICK w \in 1 .. Width : Lanes = 1 .. w
  BY BudgetConstants DEF Lanes
<1>2. IsFiniteSet(1 .. w) /\ Cardinality(1 .. w) = IF 1 > w THEN 0 ELSE w - 1 + 1
  BY <1>1, BudgetConstants, FS_Interval
<1>3. QED
  BY <1>1, <1>2, BudgetConstants

(* So there are finitely many threads in all.                               *)
LEMMA ThreadsAreFinite == IsFiniteSet(Threads)
<1>1. IsFiniteSet(Tasks)
  BY BudgetAssumption DEF BudgetAssumption
<1>2. IsFiniteSet(1 .. Width)
  BY BudgetConstants, FS_Interval
<1>3. QED
  BY <1>1, <1>2, FS_Product DEF Threads

(* Those that can be living: of tasks with a slot, or given up on.          *)
Able == abandoned \cup (Active \X Lanes)

(* The living are among them.                                               *)
LEMMA LivingAreAble ==
  ASSUME LivingInv, NEW q \in Threads, step[q] # "over"
  PROVE  q \in Able
<1>1. q[1] \in Tasks /\ q = <<q[1], q[2]>>
  BY DEF Threads
<1>2. 1 \in Lanes
  BY BudgetConstants DEF Lanes
<1>3. q \in abandoned \/ (q[1] \in Active /\ q[2] \in Lanes)
  BY <1>1, <1>2 DEF LivingInv, Active, At
<1>4. QED
  BY <1>1, <1>3 DEF Able

(* As many as the slots have threads, and those given up on.                *)
LEMMA AbleAreFew ==
  ASSUME SlotInv, abandoned \subseteq Threads
  PROVE  /\ IsFiniteSet(Able) /\ Cardinality(Able) \in Nat
         /\ Cardinality(abandoned) \in Nat
         /\ MaxConcurrency * Cardinality(Lanes) \in Nat \ {0}
         /\ Cardinality(Able)
              <= MaxConcurrency * Cardinality(Lanes) + Cardinality(abandoned)
<1> DEFINE a == Cardinality(Active)
<1> DEFINE w == Cardinality(Lanes)
<1>1. a \in Nat /\ w \in Nat \ {0} /\ a <= MaxConcurrency /\ MaxConcurrency \in Nat \ {0}
  BY ActiveIsFinite, LanesAreFinite, BudgetConstants DEF SlotInv
<1>2. IsFiniteSet(Active \X Lanes) /\ Cardinality(Active \X Lanes) = a * w
  BY ActiveIsFinite, LanesAreFinite, FS_Product
<1>3. IsFiniteSet(abandoned) /\ Cardinality(abandoned) \in Nat
  BY ThreadsAreFinite, NoMore
<1>4. /\ IsFiniteSet(Able)
      /\ Cardinality(Able)
           = Cardinality(abandoned) + a * w - Cardinality(abandoned \cap (Active \X Lanes))
  BY <1>2, <1>3, FS_Union DEF Able
<1>5. Cardinality(abandoned \cap (Active \X Lanes)) \in Nat
  BY <1>3, NoMore
<1> HIDE DEF a, w
<1>6. a * w \in Nat /\ MaxConcurrency * w \in Nat \ {0} /\ a * w <= MaxConcurrency * w
  BY <1>1, SMT
<1>7. Cardinality(Able) \in Nat
  BY <1>4, FS_CardinalityType
<1>8. Cardinality(Able) <= MaxConcurrency * w + Cardinality(abandoned)
  BY <1>3, <1>4, <1>5, <1>6, <1>7
<1>9. QED
  BY <1>3, <1>4, <1>6, <1>7, <1>8 DEF w

(* A request in flight is a living thread's.                                *)
LEMMA FlyingIsFinite == IsFiniteSet(Flying) /\ Cardinality(Flying) \in Nat
BY ThreadsAreFinite, NoMore DEF Flying

(* A step that neither sends nor counts, and forgets no thread that a race  *)
(* gave up on, leaves the overrun where it was.                             *)
LEMMA NothingSent ==
  ASSUME OverrunIsBounded, count \in Nat, count' = count, phase' = phase,
         Flying' \subseteq Flying, abandoned \subseteq abandoned',
         abandoned' \subseteq Threads
  PROVE  OverrunIsBounded'
<1>1. Lanes' = Lanes
  BY DEF Lanes
<1>2. Cardinality(Flying') <= Cardinality(Flying) /\ Cardinality(Flying') \in Nat
      /\ Cardinality(Flying) \in Nat
  BY FlyingIsFinite, NoMore
<1>3. IsFiniteSet(abandoned')
  BY ThreadsAreFinite, NoMore
<1>4. Cardinality(abandoned) <= Cardinality(abandoned') /\ Cardinality(abandoned') \in Nat
      /\ Cardinality(abandoned) \in Nat
  BY <1>3, NoMore
<1> DEFINE most == MaxConcurrency * Cardinality(Lanes)
<1>5. most \in Nat /\ MaxTotal \in Nat
  BY LanesAreFinite, BudgetConstants
<1>6. count + Cardinality(Flying) <= MaxTotal + most + Cardinality(abandoned) - 1
  BY DEF OverrunIsBounded
<1> HIDE DEF most
<1>7. count + Cardinality(Flying') <= MaxTotal + most + Cardinality(abandoned') - 1
  BY <1>2, <1>4, <1>5, <1>6
<1>8. QED
  BY <1>1, <1>7 DEF OverrunIsBounded, most

(* Slots are given back, or taken while one is free.                        *)
LEMMA SlotStep ==
  ASSUME SlotInv, TaskTypes, NEW t \in Tasks, TaskStep(t) \/ JoinExpires(t)
  PROVE  SlotInv'
<1>1. CASE Spawn(t)
  <2>1. Active' \subseteq Active \cup {t}
    BY <1>1 DEF Spawn, Active, At, TaskTypes
  <2>2. Cardinality(Active \cup {t}) <= Cardinality(Active) + 1
        /\ IsFiniteSet(Active \cup {t}) /\ Cardinality(Active) \in Nat
    <3>1. IsFiniteSet(Active) /\ Cardinality(Active) \in Nat
      BY ActiveIsFinite
    <3>2. IsFiniteSet(Active \cup {t}) /\ Cardinality(Active \cup {t})
            = IF t \in Active THEN Cardinality(Active) ELSE Cardinality(Active) + 1
      BY <3>1, FS_AddElement
    <3>3. QED
      BY <3>1, <3>2
  <2>3. Cardinality(Active') <= Cardinality(Active \cup {t})
        /\ Cardinality(Active') \in Nat /\ Cardinality(Active \cup {t}) \in Nat
    BY <2>1, <2>2, NoMore
  <2>4. QED
    BY <1>1, <2>2, <2>3, BudgetConstants DEF Spawn, SlotInv
<1>2. CASE ~Spawn(t)
  <2>1. Active' \subseteq Active
    BY <1>2 DEF TaskStep, KilledBeforeSpawn, Start, Finish, JoinExpires, Active, At, TaskTypes
  <2>2. Cardinality(Active') <= Cardinality(Active) /\ Cardinality(Active') \in Nat
        /\ Cardinality(Active) \in Nat
    BY <2>1, ActiveIsFinite, NoMore
  <2>3. QED
    BY <2>2, BudgetConstants DEF SlotInv
<1>3. QED
  BY <1>1, <1>2

(* A task that lets go of its slot has no living thread, or gives up on it. *)
LEMMA LivingStep ==
  ASSUME LivingInv, TaskTypes, ThreadTypes, NEW t \in Tasks, TaskStep(t) \/ JoinExpires(t)
  PROVE  LivingInv'
<1>1. phase' = phase /\ Lanes' = Lanes /\ abandoned \subseteq abandoned'
  BY DEF TaskStep, Spawn, KilledBeforeSpawn, Start, Finish, JoinExpires, threads, Lanes
<1> DEFINE Lives(q) ==
      \/ pc'[q[1]] = "working" /\ q[2] = 1
      \/ pc'[q[1]] = "racing" /\ q[2] \in Lanes
      \/ pc'[q[1]] = "completed" /\ q \in abandoned'
<1>2. \A q \in Threads : q[1] \in Tasks
  BY DEF Threads
<1>3. \A s \in Tasks \ {t} : pc'[s] = pc[s]
  BY DEF TaskStep, Spawn, KilledBeforeSpawn, Start, Finish, JoinExpires, TaskTypes
<1>4. ASSUME NEW q \in Threads, step'[q] # "over", q[1] # t
      PROVE  Lives(q)
  <2>1. step'[q] = step[q]
    BY <1>4 DEF TaskStep, Spawn, KilledBeforeSpawn, Start, Finish, JoinExpires, Launch, threads
  <2>2. QED
    BY <1>1, <1>2, <1>3, <1>4, <2>1 DEF LivingInv
<1>5. ASSUME NEW q \in Threads, step'[q] # "over", q[1] = t
      PROVE  Lives(q)
  <2>1. CASE Spawn(t) \/ KilledBeforeSpawn(t) \/ Finish(t)
    <3>1. step'[q] = step[q]
      BY <2>1 DEF Spawn, KilledBeforeSpawn, Finish, threads
    <3>2. QED
      BY <1>5, <2>1, <3>1 DEF Spawn, KilledBeforeSpawn, Finish, Living, LivingInv
  <2>2. CASE Start(t)
    <3>1. step[q] = "over"
      BY <1>5, <2>2 DEF Start, LivingInv
    <3>2. CASE pc' = [pc EXCEPT ![t] = "working"] /\ Launch(t, {1}, Attempts)
      <4>1. q[2] = 1
        BY <1>5, <3>1, <3>2 DEF Launch
      <4>2. QED
        BY <1>5, <3>2, <4>1 DEF TaskTypes
    <3>3. CASE pc' = [pc EXCEPT ![t] = "racing"] /\ Launch(t, Lanes, RaceAttempts)
      <4>1. q[2] \in Lanes
        BY <1>5, <3>1, <3>3 DEF Launch
      <4>2. QED
        BY <1>5, <3>3, <4>1 DEF TaskTypes
    <3>4. QED
      BY <2>2, <3>2, <3>3 DEF Start
  <2>3. CASE JoinExpires(t)
    BY <1>5, <2>3 DEF JoinExpires, Living, TaskTypes
  <2>4. QED
    BY <2>1, <2>2, <2>3 DEF TaskStep
<1>6. QED
  BY <1>1, <1>4, <1>5 DEF LivingInv

(* Only a living thread moves on, and its task keeps its slot.              *)
LEMMA LivingThreadStep ==
  ASSUME LivingInv, ThreadTypes, NEW q \in Threads, ThreadStep(q)
  PROVE  LivingInv'
<1>1. UNCHANGED <<phase, pc, abandoned>> /\ step[q] # "over"
  BY DEF ThreadStep, DeniedByScope, DeniedByKillSwitch, Evaluate, DeniedByBudget, Send,
         Answered, Unanswered
<1>2. \A r \in Threads \ {q} : step'[r] = step[r]
  BY DEF ThreadStep, DeniedByScope, DeniedByKillSwitch, Evaluate, DeniedByBudget, Send,
         Answered, Unanswered, Attempted, ThreadTypes
<1>3. QED
  BY <1>1, <1>2 DEF LivingInv, Active, At, Lanes

(* A request is sent on an unspent budget, by one of those able to send:    *)
(* count < MaxTotal, and no more in flight than those.                      *)
LEMMA SendStep ==
  ASSUME BudgetInv, NEW q \in Threads, Send(q)
  PROVE  OverrunIsBounded'
<1>1. SlotInv /\ abandoned \subseteq Threads /\ ThreadTypes /\ count \in Nat
  BY AttemptParts DEF BudgetInv, TaskTypes, EngineTypes
<1>2. Lanes' = Lanes /\ abandoned' = abandoned /\ count' = count /\ count < MaxTotal
  <2>1. ~(count >= MaxTotal)
    BY DEF Send, Spent
  <2>2. QED
    BY <1>1, <2>1, BudgetConstants DEF Send, Lanes
<1>3. Flying' \subseteq Able
  <2>1. ASSUME NEW r \in Threads, step'[r] = "flying"
        PROVE  step[r] # "over"
    BY <1>1, <2>1 DEF Send, ThreadTypes
  <2>2. QED
    BY <2>1, LivingAreAble DEF Flying, BudgetInv
<1>4. Cardinality(Flying') <= Cardinality(Able) /\ Cardinality(Flying') \in Nat
  BY <1>1, <1>3, AbleAreFew, NoMore
<1> DEFINE most == MaxConcurrency * Cardinality(Lanes)
<1>5. /\ most \in Nat /\ Cardinality(abandoned) \in Nat /\ Cardinality(Able) \in Nat
      /\ Cardinality(Able) <= most + Cardinality(abandoned)
  BY <1>1, AbleAreFew
<1> HIDE DEF most
<1>6. count + Cardinality(Flying') <= MaxTotal + most + Cardinality(abandoned) - 1
  BY <1>1, <1>2, <1>4, <1>5, BudgetConstants
<1>7. QED
  BY <1>2, <1>6 DEF OverrunIsBounded, most

(* An answer moves one request from those in flight to those counted.       *)
LEMMA AnsweredStep ==
  ASSUME BudgetInv, NEW q \in Threads, Answered(q)
  PROVE  OverrunIsBounded'
<1>1. ThreadTypes /\ count \in Nat
  BY AttemptParts DEF BudgetInv, EngineTypes
<1>2. Lanes' = Lanes /\ abandoned' = abandoned /\ count' = count + 1
  BY DEF Answered, Lanes
<1>3. Flying' = Flying \ {q} /\ q \in Flying
  BY <1>1 DEF Answered, Attempted, Flying, ThreadTypes
<1>4. Cardinality(Flying') = Cardinality(Flying) - 1 /\ Cardinality(Flying) \in Nat
  BY <1>3, FlyingIsFinite, FS_RemoveElement
<1>5. count' + Cardinality(Flying') = count + Cardinality(Flying)
  BY <1>1, <1>2, <1>4
<1>6. QED
  BY <1>2, <1>5 DEF BudgetInv, OverrunIsBounded

(* At the start of a run or a phase nothing is counted or in flight.        *)
LEMMA FreshBudget ==
  ASSUME PhaseBegins
  PROVE  SlotInv /\ LivingInv /\ OverrunIsBounded
<1>1. Active = {} /\ Flying = {} /\ LivingInv
  BY DEF PhaseBegins, Active, At, Flying, LivingInv
<1>2. SlotInv
  BY <1>1, FS_EmptySet, BudgetConstants DEF SlotInv
<1>3. MaxConcurrency * Cardinality(Lanes) \in Nat \ {0}
  BY <1>2, AbleAreFew DEF PhaseBegins
<1>4. OverrunIsBounded
  BY <1>1, <1>3, FS_EmptySet, BudgetConstants DEF PhaseBegins, OverrunIsBounded
<1>5. QED
  BY <1>1, <1>2, <1>4

(* Every step keeps the invariant.                                          *)
LEMMA BudgetStep ==
  ASSUME BudgetInv, [Next]_vars
  PROVE  BudgetInv'
<1>p. /\ AttemptInv /\ SlotInv /\ LivingInv /\ OverrunIsBounded
      /\ EngineTypes /\ TaskTypes /\ ThreadTypes /\ count \in Nat
  BY AttemptParts DEF BudgetInv, EngineTypes
<1>t. /\ AttemptInv' /\ EngineTypes' /\ TaskTypes' /\ ThreadTypes'
      /\ abandoned' \subseteq Threads
  <2>1. AttemptInv'
    BY <1>p, AttemptStep
  <2>2. QED
    BY <2>1, AttemptParts DEF TaskTypes
<1>1. ASSUME NEW t \in Tasks, TaskStep(t) \/ JoinExpires(t)
      PROVE  SlotInv' /\ LivingInv' /\ OverrunIsBounded'
  <2>1. SlotInv' /\ LivingInv'
    BY <1>p, <1>1, SlotStep, LivingStep
  <2>2. count' = count /\ phase' = phase /\ abandoned \subseteq abandoned'
    BY <1>1 DEF TaskStep, Spawn, KilledBeforeSpawn, Start, Finish, JoinExpires, threads, engine
  <2>3. Flying' \subseteq Flying
    BY <1>1, <1>p DEF TaskStep, Spawn, KilledBeforeSpawn, Start, Finish, JoinExpires, Launch,
                     threads, Flying, ThreadTypes
  <2>4. QED
    BY <1>p, <1>t, <2>1, <2>2, <2>3, NothingSent
<1>2. ASSUME NEW q \in Threads, ThreadStep(q)
      PROVE  SlotInv' /\ LivingInv' /\ OverrunIsBounded'
  <2>1. UNCHANGED <<phase, pc, abandoned>>
    BY <1>2 DEF ThreadStep, DeniedByScope, DeniedByKillSwitch, Evaluate, DeniedByBudget, Send,
                Answered, Unanswered
  <2>2. SlotInv' /\ LivingInv'
    BY <1>p, <1>2, <2>1, LivingThreadStep DEF SlotInv, Active, At
  <2>3. CASE Send(q)
    BY <2>2, <2>3, SendStep
  <2>4. CASE Answered(q)
    BY <2>2, <2>4, AnsweredStep
  <2>5. CASE ~Send(q) /\ ~Answered(q)
    <3>1. count' = count
      BY <1>2, <2>5 DEF ThreadStep, DeniedByScope, DeniedByKillSwitch, Evaluate,
                        DeniedByBudget, Unanswered, engine
    <3>2. Flying' \subseteq Flying
      BY <1>2, <1>p, <2>5 DEF ThreadStep, DeniedByScope, DeniedByKillSwitch, Evaluate,
                        DeniedByBudget, Unanswered, Attempted, Flying, ThreadTypes
    <3>3. QED
      BY <1>p, <1>t, <2>1, <2>2, <3>1, <3>2, NothingSent
  <2>6. QED
    BY <2>3, <2>4, <2>5
<1>3. ASSUME NEW q \in Threads, Raises(q)
      PROVE  SlotInv' /\ LivingInv' /\ OverrunIsBounded'
  <2>1. UNCHANGED <<phase, abandoned, count>>
    BY <1>3 DEF Raises, engine
  <2>2. q[1] \in Tasks /\ \A r \in Threads \ {q} : step'[r] = step[r]
    BY <1>3, <1>p DEF Raises, ThreadTypes, Threads
  <2>3. Active' \subseteq Active
    BY <1>3, <1>p, <2>2 DEF Raises, Active, At, TaskTypes
  <2>4. SlotInv'
    <3>1. Cardinality(Active') <= Cardinality(Active) /\ Cardinality(Active') \in Nat
          /\ Cardinality(Active) \in Nat
      BY <2>3, ActiveIsFinite, NoMore
    <3>2. QED
      BY <1>p, <3>1, BudgetConstants DEF SlotInv
  <2>5. LivingInv'
    <3>1. \A r \in Threads : r[1] \in Tasks /\ r = <<r[1], r[2]>>
      BY DEF Threads
    <3>2. /\ step'[q] = "over" /\ \A s \in Tasks \ {q[1]} : pc'[s] = pc[s]
          /\ pc[q[1]] # "working" => pc' = pc
      BY <1>3, <1>p DEF Raises, ThreadTypes, TaskTypes
    <3>3. pc[q[1]] = "working" => q[2] = 1
      BY <1>3, <1>p DEF Raises, LivingInv
    <3>4. ASSUME NEW r \in Threads, step'[r] # "over"
          PROVE  pc'[r[1]] = pc[r[1]] /\ step[r] # "over"
      <4>1. r # q /\ step[r] # "over"
        BY <2>2, <3>2, <3>4
      <4>2. CASE r[1] = q[1] /\ pc[q[1]] = "working"
        <5>1. r[2] = 1
          BY <1>p, <4>1, <4>2 DEF LivingInv
        <5>2. QED
          BY <3>1, <3>3, <4>1, <4>2, <5>1
      <4>3. QED
        BY <3>1, <3>2, <4>1, <4>2
    <3>5. QED
      BY <1>p, <2>1, <3>4 DEF LivingInv, Lanes
  <2>6. Flying' \subseteq Flying
    BY <1>3, <1>p DEF Raises, Flying, ThreadTypes
  <2>7. QED
    BY <1>p, <1>t, <2>1, <2>4, <2>5, <2>6, NothingSent
<1>4. CASE NextPhase
  <2>1. PhaseBegins'
    BY <1>4 DEF NextPhase, PhaseBegins
  <2>2. (PhaseBegins => SlotInv /\ LivingInv /\ OverrunIsBounded)'
    BY FreshBudget, PTL
  <2>3. QED
    BY <1>t, <2>1, <2>2 DEF BudgetInv
<1>5. CASE Tick \/ PutStopFile \/ RemoveStopFile \/ Stopped \/ UNCHANGED vars
  <2>1. UNCHANGED <<phase, pc, step, abandoned, count>>
    BY <1>5 DEF Tick, PutStopFile, RemoveStopFile, Stopped, vars, threads, engine
  <2>2. QED
    BY <1>p, <1>t, <2>1 DEF BudgetInv, SlotInv, LivingInv, OverrunIsBounded, Active, At, Flying,
                            Lanes
<1>6. QED
  BY <1>t, <1>1, <1>2, <1>3, <1>4, <1>5 DEF Next, BudgetInv

(* The invariant: slots are never overdrawn, and a living thread belongs to *)
(* a task with a slot or to a race that gave up on it.                      *)
THEOREM BudgetInvariant == Spec => []BudgetInv
<1>1. Init => BudgetInv
  <2>1. Init => PhaseBegins
    BY Zenon DEF Init, PhaseBegins
  <2>2. QED
    BY <2>1, AttemptInit, FreshBudget DEF BudgetInv
<1>2. QED
  BY <1>1, BudgetStep, PTL DEF Spec

(* Judging a request and counting it are two steps without a lock, and yet  *)
(* answered and flying requests together exceed max_total_requests by less  *)
(* than the threads of the tasks with a slot and those races gave up on.    *)
THEOREM OverrunBounded == Spec => []OverrunIsBounded
<1>1. BudgetInv => OverrunIsBounded
  BY DEF BudgetInv
<1>2. QED
  BY <1>1, BudgetInvariant, PTL
=============================================================================
