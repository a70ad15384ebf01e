--------------------------- MODULE AcrossRunsProofs ---------------------------
(***************************************************************************)
(* What holds from one pentest run to the next.  Of the scheduler that      *)
(* starts them: the slots of a schedule are spaced and a deleted schedule   *)
(* falls silent, for any schedules and intervals and any failing, stopping, *)
(* crashing and restarting in between.  Of the stores they leave for each   *)
(* other: what was saved is lost only by a stale view, the memory of a      *)
(* target counts the runs committed and the advisory count goes down only   *)
(* by a scan, for any runs, entries and deaths of the process.              *)
(***************************************************************************)
EXTENDS Scheduler, LearningStores, FiniteSetTheorems, TLAPS

-----------------------------------------------------------------------------
(* The scheduler *)

(* What Settle leaves of a slot: everything but its fate.                   *)
LEMMA SettleKeeps ==
  ASSUME TypeOK, NEW fate \in {"pending", "started", "missed"}, Settle(fate)
  PROVE  /\ slots' \subseteq Slot
         /\ \A s \in slots' : \E t \in slots :
              /\ s = [t EXCEPT !.fate = IF @ = "pending" THEN fate ELSE @]
              /\ s.id = t.id /\ s.at = t.at /\ s.interval = t.interval
              /\ s.listed = t.listed
<1> USE DEF Settle, Slot, TypeOK
<1>1. ASSUME NEW t \in slots
      PROVE  LET s == [t EXCEPT !.fate = IF @ = "pending" THEN fate ELSE @]
             IN  /\ s \in Slot /\ s.id = t.id /\ s.at = t.at
                 /\ s.interval = t.interval /\ s.listed = t.listed
  OBVIOUS
<1>2. QED
  BY <1>1

(* A step that takes no slot and changes no row: the loop moves on or gives *)
(* up its list, the process comes or goes, time passes.                     *)
LEMMA QuietStep ==
  ASSUME SchedInv, UNCHANGED <<rows, created, slots>>,
         clock' \in Time, clock <= clock', due' \in {due, {}}
  PROVE  KnownInv' /\ DueInv' /\ AheadInv' /\ UnlistedInv'
<1>1. KnownInv' /\ DueInv'
  BY DEF SchedInv, KnownInv, DueInv, TypeOK, Time
<1>2. AheadInv'
  BY DEF SchedInv, AheadInv, TypeOK, Time, Slot, Exists
<1>3. UnlistedInv'
  BY DEF SchedInv, UnlistedInv, Exists
<1>4. QED
  BY <1>1, <1>2, <1>3

(* Settling the slot in hand changes nothing the invariant speaks of.       *)
LEMMA SettleStep ==
  ASSUME SchedInv, NEW fate \in {"pending", "started", "missed"}, Settle(fate),
         UNCHANGED <<rows, created, clock>>, due' \in {due, {}}
  PROVE  KnownInv' /\ DueInv' /\ AheadInv' /\ UnlistedInv'
<1>1. \A s \in slots' : \E t \in slots :
        /\ s = [t EXCEPT !.fate = IF @ = "pending" THEN fate ELSE @]
        /\ s.id = t.id /\ s.at = t.at /\ s.interval = t.interval
        /\ s.listed = t.listed
  BY SettleKeeps DEF SchedInv
<1>2. KnownInv' /\ DueInv'
  BY <1>1 DEF SchedInv, KnownInv, DueInv
<1>3. AheadInv'
  BY <1>1 DEF SchedInv, AheadInv, Exists
<1>4. UnlistedInv'
  BY <1>1 DEF SchedInv, UnlistedInv, Exists
<1>5. QED
  BY <1>2, <1>3, <1>4

(* A new schedule has an id no slot has.                                    *)
LEMMA CreateStep ==
  ASSUME SchedInv, NEW id \in Ids, NEW interval \in Intervals,
         CreateSchedule(id, interval)
  PROVE  SchedInv'
<1> USE DEF CreateSchedule, bounds
<1>1. TypeOK'
  BY SchedulerAssumption DEF SchedInv, TypeOK, Schedule, Time
<1>2. KnownInv' /\ DueInv'
  BY DEF SchedInv, KnownInv, DueInv
<1>3. AheadInv'
  BY DEF SchedInv, AheadInv, KnownInv, Exists
<1>4. UnlistedInv'
  BY DEF SchedInv, UnlistedInv, KnownInv, Exists
<1>5. SlotsAreSpaced'
  BY DEF SchedInv, SlotsAreSpaced
<1>6. QED
  BY <1>1, <1>2, <1>3, <1>4, <1>5 DEF SchedInv

(* Deleting a row leaves less to be said.                                   *)
LEMMA DeleteStep ==
  ASSUME SchedInv, NEW id \in Ids, DeleteSchedule(id)
  PROVE  SchedInv'
<1> USE DEF DeleteSchedule, Restrict, bounds
<1>1. TypeOK'
  BY DEF SchedInv, TypeOK
<1>2. KnownInv' /\ DueInv' /\ AheadInv' /\ UnlistedInv'
  BY DEF SchedInv, KnownInv, DueInv, AheadInv, UnlistedInv, Exists
<1>3. SlotsAreSpaced'
  BY DEF SchedInv, SlotsAreSpaced
<1>4. QED
  BY <1>1, <1>2, <1>3 DEF SchedInv

(* A tick reads one entry per schedule, due now.                            *)
LEMMA TickStep ==
  ASSUME SchedInv, Tick
  PROVE  SchedInv'
<1> DEFINE ListedRow(id) == [id |-> id, interval |-> rows[id].interval,
                             next |-> rows[id].next]
<1>1. due' = {ListedRow(id) : id \in DueNow}
  BY DEF Tick
<1>2. ASSUME NEW id \in DueNow
      PROVE  /\ ListedRow(id) \in [id : Ids, interval : Intervals, next : Nat]
             /\ ListedRow(id).id = id /\ ListedRow(id).next = rows[id].next
             /\ rows[id].next <= clock /\ Exists(id) /\ id \in created
  BY DEF DueNow, SchedInv, TypeOK, Schedule, Exists
<1>3. TypeOK'
  BY <1>1, <1>2 DEF Tick, bounds, SchedInv, TypeOK, Up
<1>4. KnownInv' /\ DueInv'
  BY <1>1, <1>2 DEF Tick, bounds, SchedInv, KnownInv, DueInv
<1>5. AheadInv'
  BY <1>1, <1>2 DEF Tick, bounds, SchedInv, AheadInv, Exists
<1>6. UnlistedInv'
  BY <1>1, <1>2 DEF Tick, bounds, SchedInv, UnlistedInv, Exists
<1>7. SlotsAreSpaced'
  BY DEF Tick, bounds, SchedInv, SlotsAreSpaced
<1>8. QED
  BY <1>3, <1>4, <1>5, <1>6, <1>7 DEF SchedInv

(* The times of a slot are natural numbers.                                 *)
LEMMA SlotIsTyped ==
  ASSUME SchedInv, NEW t \in slots
  PROVE  t.at \in Nat /\ t.interval \in Nat
<1>1. t \in Slot
  BY DEF SchedInv, TypeOK
<1>2. t.at \in Time /\ t.interval \in Intervals
  BY <1>1 DEF Slot
<1>3. t.at \in Nat
  BY <1>2 DEF Time
<1>4. t.interval \in Nat
  BY <1>2, SchedulerAssumption DEF SchedulerAssumption
<1>5. QED
  BY <1>3, <1>4

(* Taking a slot puts it at the clock, past the end of the slots before it, *)
(* and moves the row an interval on.                                       *)
LEMMA TakeStep ==
  ASSUME SchedInv, NEW s \in due, TakeSlot(s)
  PROVE  SchedInv'
<1> DEFINE new == [id |-> s.id, interval |-> s.interval, at |-> clock,
                   listed |-> Exists(s.id), fate |-> "pending"]
<1>1. /\ slots' = slots \cup {new} /\ due' = due \ {s}
      /\ UNCHANGED <<clock, created, faults, starts>> /\ pc' = "preparing"
      /\ rows' = IF Exists(s.id) THEN [rows EXCEPT ![s.id].next = clock + s.interval]
                                 ELSE rows
  BY DEF TakeSlot, Take, bounds
<1>2. /\ s \in [id : Ids, interval : Intervals, next : Nat] /\ s.id \in created
      /\ clock \in Nat /\ s.interval \in Nat
  <2>1. s \in [id : Ids, interval : Intervals, next : Nat]
    BY DEF SchedInv, TypeOK
  <2>2. s.id \in created /\ clock \in Time
    BY DEF SchedInv, TypeOK, KnownInv
  <2>3. s.interval \in Intervals
    BY <2>1
  <2>4. s.interval \in Nat
    BY <2>3, SchedulerAssumption DEF SchedulerAssumption
  <2>5. QED
    BY <2>1, <2>2, <2>4 DEF Time
<1>3. new \in Slot
  BY <1>2 DEF Slot, Exists, SchedInv, TypeOK
<1>4. /\ DOMAIN rows' = DOMAIN rows
      /\ \A id \in DOMAIN rows : id # s.id => rows'[id] = rows[id]
      /\ Exists(s.id) => /\ rows'[s.id] \in Schedule
                         /\ rows'[s.id].next = clock + s.interval
  BY <1>1, <1>2 DEF Exists, SchedInv, TypeOK, Schedule
<1>5. TypeOK'
  <2>1. \A id \in DOMAIN rows' : rows'[id] \in Schedule
    BY <1>4 DEF SchedInv, TypeOK, Exists
  <2>2. QED
    BY <1>1, <1>3, <1>4, <2>1 DEF SchedInv, TypeOK, Up
<1>6. KnownInv' /\ DueInv'
  BY <1>1, <1>2 DEF SchedInv, KnownInv, DueInv
<1>7. \A t \in slots : t.id = s.id => t.at + t.interval <= clock
  <2>1. ASSUME NEW t \in slots, t.id = s.id
        PROVE  t.at + t.interval <= clock
    <3>1. t.at + t.interval <= s.next /\ s.next <= clock
      BY <2>1 DEF SchedInv, AheadInv, DueInv
    <3>2. t.at \in Nat /\ t.interval \in Nat
      BY <2>1, SlotIsTyped
    <3>3. QED
      BY <1>2, <3>1, <3>2
  <2>2. QED
    BY <2>1
<1>8. AheadInv'
  <2>1. ASSUME NEW t \in slots
        PROVE  /\ t.at <= clock'
               /\ Exists(t.id)' => t.at + t.interval <= rows'[t.id].next
               /\ \A u \in due' : t.id = u.id => t.at + t.interval <= u.next
    <3>1. t.at \in Nat /\ t.interval \in Nat
      BY <2>1, SlotIsTyped
    <3>2. CASE t.id = s.id
      BY <1>1, <1>2, <1>4, <1>7, <3>1, <3>2 DEF SchedInv, AheadInv, Exists
    <3>3. CASE t.id # s.id
      BY <1>1, <1>4, <3>3 DEF SchedInv, AheadInv, Exists
    <3>4. QED
      BY <3>2, <3>3
  <2>2. /\ new.at <= clock'
        /\ Exists(new.id)' => new.at + new.interval <= rows'[new.id].next
        /\ \A u \in due' : new.id # u.id
    BY <1>1, <1>2, <1>4 DEF SchedInv, DueInv, Exists
  <2>3. QED
    BY <1>1, <2>1, <2>2 DEF AheadInv
<1>9. UnlistedInv'
  <2>1. ASSUME NEW t \in slots, ~t.listed
        PROVE  t.id # s.id
    BY <2>1 DEF SchedInv, UnlistedInv
  <2>2. new.listed = Exists(s.id) /\ new.id = s.id
    OBVIOUS
  <2>3. \A u \in due' : u.id # s.id
    BY <1>1 DEF SchedInv, DueInv
  <2>4. \A id : Exists(id)' = Exists(id)
    BY <1>4 DEF Exists
  <2>5. slots' = slots \cup {new} /\ due' \subseteq due
    BY <1>1
  <2> HIDE DEF new
  <2>6. ASSUME NEW t \in slots', ~t.listed
        PROVE  /\ ~Exists(t.id)' /\ \A u \in due' : u.id # t.id
               /\ \A u \in slots' : u.id = t.id /\ ~u.listed => u = t
    <3>1. CASE t = new
      BY <2>1, <2>2, <2>3, <2>4, <2>5, <2>6, <3>1
    <3>2. CASE t \in slots
      <4>1. t.id # s.id /\ ~Exists(t.id) /\ \A u \in due : u.id # t.id
        BY <2>1, <2>6, <3>2 DEF SchedInv, UnlistedInv
      <4>2. \A u \in slots : u.id = t.id /\ ~u.listed => u = t
        BY <2>6, <3>2 DEF SchedInv, UnlistedInv
      <4>3. QED
        BY <2>2, <2>4, <2>5, <4>1, <4>2
    <3>3. QED
      BY <2>5, <2>6, <3>1, <3>2
  <2>7. QED
    BY <2>6 DEF UnlistedInv
<1>10. SlotsAreSpaced'
  <2>1. \A t \in slots : t.id = new.id => t.at + t.interval <= new.at
    BY <1>7
  <2>2. QED
    BY <1>1, <2>1 DEF SchedInv, SlotsAreSpaced
<1>11. QED
  BY <1>5, <1>6, <1>8, <1>9, <1>10 DEF SchedInv

(* Every other step is quiet or settles the slot in hand.                   *)
LEMMA OtherStep ==
  ASSUME SchedInv,
         \/ TickEnds \/ RefuseScope \/ HandOver \/ Resume \/ TickFails \/ Thread
         \/ Process \/ TimePasses \/ Over \/ UNCHANGED vars
  PROVE  SchedInv'
<1>1. CASE TickEnds \/ HandOver \/ Resume \/ TickFails \/ Start \/ Exit
          \/ TimePasses \/ Over \/ UNCHANGED vars
  <2>1. /\ UNCHANGED <<rows, created, slots>> /\ due' \in {due, {}}
        /\ clock' \in Time /\ clock <= clock'
    BY <1>1, SchedulerAssumption DEF SchedInv, TypeOK, Time, TickEnds, HandOver,
       Resume, TickFails, Start, Exit, TimePasses, Over, vars, bounds
  <2>2. pc' \in Up \cup {"stopped", "down"} /\ faults' \in 0 .. MaxFaults
        /\ starts' \in 0 .. MaxStarts
    BY <1>1, SchedulerAssumption DEF SchedInv, TypeOK, Up, TickEnds, HandOver,
       Resume, TickFails, Start, Exit, TimePasses, Over, vars, bounds
  <2>3. TypeOK'
    BY <2>1, <2>2 DEF SchedInv, TypeOK
  <2>4. SlotsAreSpaced'
    BY <2>1 DEF SchedInv, SlotsAreSpaced
  <2>5. QED
    BY <2>1, <2>3, <2>4, QuietStep DEF SchedInv
<1>2. CASE RefuseScope \/ Thread \/ (\E fate \in {"pending", "missed"} : Stop(fate))
          \/ Crash
  <2>1. PICK fate \in {"pending", "started", "missed"} : Settle(fate)
    BY <1>2 DEF RefuseScope, Thread, ThreadRuns, Stop, Crash
  <2>2. UNCHANGED <<rows, created, clock, faults, starts>> /\ due' \in {due, {}}
    BY <1>2 DEF RefuseScope, Thread, ThreadRuns, Stop, Crash, bounds
  <2>3. pc' \in Up \cup {"stopped", "down"}
    BY <1>2 DEF RefuseScope, Thread, ThreadRuns, Stop, Crash, Up, SchedInv, TypeOK
  <2>4. /\ slots' \subseteq Slot
        /\ \A s \in slots' : \E t \in slots :
             /\ s = [t EXCEPT !.fate = IF @ = "pending" THEN fate ELSE @]
             /\ s.id = t.id /\ s.at = t.at /\ s.interval = t.interval
             /\ s.listed = t.listed
    BY <2>1, SettleKeeps DEF SchedInv
  <2>5. TypeOK'
    BY <2>2, <2>3, <2>4 DEF SchedInv, TypeOK
  <2>6. SlotsAreSpaced'
    BY <2>4 DEF SchedInv, SlotsAreSpaced
  <2>7. QED
    BY <2>1, <2>2, <2>5, <2>6, SettleStep DEF SchedInv
<1>3. QED
  BY <1>1, <1>2 DEF Process

(* The inductive invariant holds in every reachable state.                  *)
THEOREM SchedulerInvariant == Spec => []SchedInv
<1>1. Init => SchedInv
  BY SchedulerAssumption DEF Init, SchedInv, TypeOK, KnownInv, DueInv, AheadInv,
     UnlistedInv, SlotsAreSpaced, Exists, Time
<1>2. SchedInv /\ [Next]_vars => SchedInv'
  <2>1. SUFFICES ASSUME SchedInv, [Next]_vars PROVE SchedInv'
    OBVIOUS
  <2>2. CASE Endpoint
    BY <2>1, <2>2, CreateStep, DeleteStep DEF Endpoint
  <2>3. CASE Tick
    BY <2>1, <2>3, TickStep
  <2>4. CASE \E s \in due : TakeSlot(s)
    BY <2>1, <2>4, TakeStep
  <2>5. QED
    BY <2>1, <2>2, <2>3, <2>4, OtherStep DEF Next, Loop
<1>3. QED
  BY <1>1, <1>2, PTL DEF Spec

(* Type correctness of schedules, slots and the loop.                       *)
THEOREM SchedulerTypeCorrect == Spec => []TypeOK
<1>1. SchedInv => TypeOK
  BY DEF SchedInv
<1>2. QED
  BY <1>1, SchedulerInvariant, PTL

(* The slots of a schedule are an interval apart, whatever fails, stops or  *)
(* restarts (SlotsAreSpaced).                                              *)
THEOREM SlotsSpaced == Spec => []SlotsAreSpaced
<1>1. SchedInv => SlotsAreSpaced
  BY DEF SchedInv
<1>2. QED
  BY <1>1, SchedulerInvariant, PTL

(* A set with no two members has one member at most.                        *)
LEMMA AtMostOne ==
  ASSUME NEW S, \A x, y \in S : x = y
  PROVE  Cardinality(S) = IF S = {} THEN 0 ELSE 1
<1>1. CASE S = {}
  BY <1>1, FS_EmptySet
<1>2. CASE S # {}
  <2>1. PICK x \in S : TRUE
    BY <1>2
  <2>2. S = {x}
    BY <2>1
  <2>3. QED
    BY <1>2, <2>2, FS_Singleton
<1>3. QED
  BY <1>1, <1>2

(* A deleted schedule runs once more at the most (DeletedRunsOnce).         *)
THEOREM DeletedRunOnce == Spec => []DeletedRunsOnce
<1>1. ASSUME SchedInv, NEW id \in created, ~Exists(id)
      PROVE  Cardinality({s \in slots : s.id = id /\ ~s.listed})
               + Cardinality({s \in due : s.id = id}) <= 1
  <2> DEFINE gone == {s \in slots : s.id = id /\ ~s.listed}
             listed == {s \in due : s.id = id}
  <2>1. Cardinality(gone) = IF gone = {} THEN 0 ELSE 1
    <3>1. \A s, t \in gone : s = t
      BY <1>1 DEF SchedInv, UnlistedInv
    <3>2. QED
      BY <3>1, AtMostOne
  <2>2. Cardinality(listed) = IF listed = {} THEN 0 ELSE 1
    <3>1. \A s, t \in listed : s = t
      BY <1>1 DEF SchedInv, DueInv
    <3>2. QED
      BY <3>1, AtMostOne
  <2>3. gone = {} \/ listed = {}
    BY <1>1 DEF SchedInv, UnlistedInv
  <2>4. QED
    BY <2>1, <2>2, <2>3
<1>2. SchedInv => DeletedRunsOnce
  BY <1>1 DEF DeletedRunsOnce
<1>3. QED
  BY <1>2, SchedulerInvariant, PTL

-----------------------------------------------------------------------------
(* The learning stores: handlers and places *)

(* The feeds and the handlers by name.                                      *)
LEMMA StoreNames ==
  /\ {Feeds[i] : i \in DOMAIN Feeds} = {"nvd", "kev", "epss"}
  /\ {Phases[i] : i \in DOMAIN Phases} =
       {"new", "init", "cve", "scan", "threat", "metrics", "done"}
<1>1. DOMAIN Feeds = {1, 2, 3}
  BY DEF Feeds
<1>2. DOMAIN Phases = {1, 2, 3, 4, 5, 6, 7}
  BY DEF Phases
<1>3. QED
  BY <1>1, <1>2 DEF Feeds, Phases

(* The steps, each a case of the lemmas below.                              *)
LEMMA StoreCases ==
  ASSUME [StoresNext]_storeVars
  PROVE  \/ \E r \in Runs : Step(r)
         \/ Heartbeat \/ ProcessDies \/ UNCHANGED storeVars
BY DEF StoresNext

(* Handler and place of a run change, and of no other.                      *)
Goes(r, p, place) ==
  /\ phase' = [phase EXCEPT ![r] = p] /\ at' = [at EXCEPT ![r] = place]

(* Places a run may go to.                                                  *)
Fits(p, place) ==
  /\ p \in {"new", "init", "cve", "scan", "threat", "metrics", "done"} /\ place \in Places
  /\ place \in {"load", "save", "write"} => p \in FileHandlers
  /\ place = "work" => p \in {"cve", "scan", "threat"}
  /\ place \in {"read", "select", "commit"} => p = "metrics"

(* A run that stays in its handler keeps it.                                *)
LEMMA StaysInHandler ==
  ASSUME StoresTypeOK, NEW r \in Runs, NEW place,
         at' = [at EXCEPT ![r] = place] \/ (UNCHANGED at /\ place = at[r]), UNCHANGED phase
  PROVE  Goes(r, phase[r], place)
BY DEF StoresTypeOK, Goes

(* After a save a run goes on in its handler, or in the next one.           *)
LEMMA SavedMoves ==
  ASSUME StoresTypeOK, NEW r \in Runs, Saved(r)
  PROVE  IF phase[r] = "init" THEN Goes(r, "cve", "load") ELSE Goes(r, phase[r], "work")
<1>1. CASE phase[r] = "init"
  BY <1>1 DEF Saved, Enter, Goes
<1>2. CASE phase[r] # "init"
  BY <1>2, StaysInHandler DEF Saved
<1>3. QED
  BY <1>1, <1>2

(* Whatever a run does, only its own handler and place change, and it was   *)
(* not over.                                                                *)
LEMMA StepMoves ==
  ASSUME StoresTypeOK, PlaceInv, NEW r \in Runs, Step(r)
  PROVE  /\ phase[r] # "done"
         /\ \E p, place : Fits(p, place) /\ Goes(r, p, place)
<1>p. phase[r] \in {"new", "init", "cve", "scan", "threat", "metrics", "done"}
  BY StoreNames DEF StoresTypeOK
<1>1. CASE Begin(r)
  <2>1. Goes(r, "init", "load") /\ phase[r] = "new"
    BY <1>1 DEF Begin, Enter, Goes
  <2>2. Fits("init", "load")
    BY DEF Fits, Places, FileHandlers
  <2>3. QED
    BY <2>1, <2>2
<1>2. CASE Load(r)
  <2>1. phase[r] \in FileHandlers /\ UNCHANGED phase
    BY <1>2 DEF Load, PlaceInv
  <2>2. PICK place \in {"save", "work"} :
          at' = [at EXCEPT ![r] = place] /\ (phase[r] = "init" => place = "save")
    BY <1>2 DEF Load, FileOf
  <2>3. Goes(r, phase[r], place)
    BY <2>1, <2>2, StaysInHandler
  <2>4. Fits(phase[r], place)
    BY <2>1, <2>2 DEF Fits, Places, FileHandlers
  <2>5. QED
    BY <2>1, <2>3, <2>4 DEF FileHandlers
<1>3. CASE Ingest(r)
  <2>1. phase[r] = "cve" /\ at[r] = "work" /\ UNCHANGED phase
    BY <1>3 DEF Ingest
  <2>2. PICK place \in {"save", "work"} :
          at' = [at EXCEPT ![r] = place] \/ (UNCHANGED at /\ place = at[r])
    BY <1>3, <2>1 DEF Ingest
  <2>3. Goes(r, phase[r], place)
    BY <2>1, <2>2, StaysInHandler
  <2>4. Fits(phase[r], place)
    BY <2>1, <2>2 DEF Fits, Places, FileHandlers
  <2>5. QED
    BY <2>1, <2>3, <2>4
<1>4. CASE LearnFromCve(r) \/ LearnFromScan(r)
  <2>1. phase[r] = "threat" /\ UNCHANGED phase /\ at' = [at EXCEPT ![r] = "save"]
    BY <1>4 DEF LearnFromCve, LearnFromScan
  <2>3. Goes(r, phase[r], "save")
    BY <2>1, StaysInHandler
  <2>4. Fits(phase[r], "save")
    BY <2>1 DEF Fits, Places, FileHandlers
  <2>5. QED
    BY <2>1, <2>3, <2>4
<1>5. CASE CloseIngestion(r) \/ ScanAdvisories(r) \/ LearningOver(r)
  <2>1. PICK p \in {"scan", "threat", "metrics"} : \E place \in {"work", "load", "read"} :
          /\ Goes(r, p, place) /\ <<p, place>> \in
               {<<"scan", "work">>, <<"threat", "load">>, <<"metrics", "read">>}
    BY <1>5 DEF CloseIngestion, ScanAdvisories, LearningOver, Enter, Goes
  <2>2. \A q, place : <<q, place>> \in
          {<<"scan", "work">>, <<"threat", "load">>, <<"metrics", "read">>} => Fits(q, place)
    BY DEF Fits, Places, FileHandlers
  <2>3. phase[r] # "done"
    BY <1>5 DEF CloseIngestion, ScanAdvisories, LearningOver
  <2>4. QED
    BY <2>1, <2>2, <2>3
<1>6. CASE SaveTruncates(r) \/ SaveWrites(r)
  <2>1. phase[r] \in FileHandlers
    BY <1>6 DEF SaveTruncates, SaveWrites, PlaceInv
  <2>2. CASE Saved(r)
    <3>1. Fits("cve", "load") /\ (phase[r] # "init" => Fits(phase[r], "work"))
      BY <2>1 DEF Fits, Places, FileHandlers
    <3>2. QED
      BY <2>1, <2>2, <3>1, SavedMoves DEF FileHandlers
  <2>3. CASE at' = [at EXCEPT ![r] = "write"] /\ UNCHANGED phase
    <3>1. Goes(r, phase[r], "write")
      BY <2>3, StaysInHandler
    <3>2. Fits(phase[r], "write")
      BY <2>1 DEF Fits, Places, FileHandlers
    <3>3. QED
      BY <2>1, <3>1, <3>2 DEF FileHandlers
  <2>4. QED
    BY <1>6, <2>2, <2>3 DEF SaveTruncates, SaveWrites
<1>7. CASE ReadPrevious(r) \/ SelectRow(r)
  <2>1. phase[r] = "metrics" /\ UNCHANGED phase
    BY <1>7 DEF ReadPrevious, SelectRow
  <2>2. PICK place \in {"select", "commit"} : at' = [at EXCEPT ![r] = place]
    BY <1>7 DEF ReadPrevious, SelectRow
  <2>3. Goes(r, phase[r], place) /\ Fits(phase[r], place)
    BY <2>1, <2>2, StaysInHandler DEF Fits, Places, FileHandlers
  <2>4. QED
    BY <2>1, <2>3
<1>8. CASE CommitMetrics(r) \/ MetricsFail(r)
  <2>1. Goes(r, "done", "out") /\ phase[r] = "metrics"
    BY <1>8 DEF CommitMetrics, MetricsFail, Enter, Goes
  <2>2. Fits("done", "out")
    BY DEF Fits, Places, FileHandlers
  <2>3. QED
    BY <2>1, <2>2
<1>9. QED
  BY <1>1, <1>2, <1>3, <1>4, <1>5, <1>6, <1>7, <1>8 DEF Step

(* Every step keeps handlers and places together, and what is over stays so. *)
LEMMA PlaceStep ==
  ASSUME StoresTypeOK, PlaceInv, [StoresNext]_storeVars
  PROVE  /\ PlaceInv' /\ phase' \in [Runs -> {Phases[i] : i \in DOMAIN Phases}]
         /\ at' \in [Runs -> Places]
         /\ \A r \in Runs : phase[r] = "done" => phase'[r] = "done"
<1>t. /\ phase \in [Runs -> {"new", "init", "cve", "scan", "threat", "metrics", "done"}]
      /\ at \in [Runs -> Places]
  BY StoreNames DEF StoresTypeOK
<1> SUFFICES /\ PlaceInv' /\ at' \in [Runs -> Places]
             /\ phase' \in [Runs -> {"new", "init", "cve", "scan", "threat", "metrics", "done"}]
             /\ \A r \in Runs : phase[r] = "done" => phase'[r] = "done"
  BY StoreNames
<1>1. ASSUME NEW r \in Runs, Step(r)
      PROVE  /\ PlaceInv' /\ at' \in [Runs -> Places]
             /\ phase' \in [Runs -> {"new", "init", "cve", "scan", "threat", "metrics", "done"}]
             /\ \A s \in Runs : phase[s] = "done" => phase'[s] = "done"
  <2>1. PICK p, place : Fits(p, place) /\ Goes(r, p, place)
    BY <1>1, StepMoves
  <2>2. phase[r] # "done"
    BY <1>1, StepMoves
  <2>3. QED
    BY <1>t, <2>1, <2>2 DEF PlaceInv, Fits, Goes
<1>2. CASE Heartbeat \/ UNCHANGED storeVars
  BY <1>t, <1>2 DEF Heartbeat, TickReads, TickWrites, storeVars, runVars, PlaceInv
<1>3. CASE ProcessDies
  BY <1>t, <1>3 DEF ProcessDies, PlaceInv, Places
<1>4. QED
  BY <1>1, <1>2, <1>3, StoreCases

-----------------------------------------------------------------------------
(* The rows of the store *)

(* What a step does to the row and the tick: a run's metrics, a scan's and  *)
(* the heartbeat's counts, and nothing else touches them.                   *)
LEMMA RowCases ==
  ASSUME [StoresNext]_storeVars
  PROVE  /\ \/ UNCHANGED tables
            \/ \E r \in Runs : \/ ReadPrevious(r) \/ SelectRow(r) \/ CommitMetrics(r)
                               \/ MetricsFail(r)
            \/ ProcessDies
         /\ \/ UNCHANGED hearts
            \/ Heartbeat \/ ProcessDies
            \/ \E r \in Runs : ScanAdvisories(r)
<1>1. ASSUME NEW r \in Runs,
             \/ Begin(r) \/ Load(r) \/ Ingest(r) \/ CloseIngestion(r) \/ LearnFromCve(r)
             \/ LearnFromScan(r) \/ LearningOver(r) \/ SaveTruncates(r) \/ SaveWrites(r)
      PROVE  UNCHANGED <<tables, hearts>>
  BY <1>1 DEF Begin, Load, Ingest, CloseIngestion, LearnFromCve, LearnFromScan,
              LearningOver, SaveTruncates, SaveWrites
<1>2. ASSUME NEW r \in Runs, ScanAdvisories(r)
      PROVE  UNCHANGED tables
  BY <1>2 DEF ScanAdvisories
<1>3. ASSUME NEW r \in Runs,
             ReadPrevious(r) \/ SelectRow(r) \/ CommitMetrics(r) \/ MetricsFail(r)
      PROVE  UNCHANGED hearts
  BY <1>3 DEF ReadPrevious, SelectRow, CommitMetrics, MetricsFail
<1>4. ASSUME Heartbeat
      PROVE  UNCHANGED tables
  BY <1>4 DEF Heartbeat, TickReads, TickWrites
<1>5. ASSUME UNCHANGED storeVars
      PROVE  UNCHANGED <<tables, hearts>>
  BY <1>5 DEF storeVars, tables, hearts
<1>6. QED
  BY <1>1, <1>2, <1>3, <1>4, <1>5, StoreCases DEF Step

(* Nothing happens to the row or what was seen of it.                       *)
LEMMA MemoryFrame ==
  ASSUME MemoryInv, UNCHANGED <<row, recorded>>,
         \A r \in Runs : phase[r] = "done" => phase'[r] = "done",
         seen' \in [Runs -> [previous : recorded \cup {NoRun}, exists : BOOLEAN]]
  PROVE  MemoryInv'
BY DEF MemoryInv, MemoryIsHonest

(* Every step keeps the memory of the target honest.                        *)
LEMMA MemoryStep ==
  ASSUME StoresTypeOK, PlaceInv, MemoryInv, [StoresNext]_storeVars
  PROVE  MemoryInv' /\ row' \in [count : 0 .. Cardinality(Runs), last : Runs \cup {NoRun},
                                 previous : Runs \cup {NoRun}]
<1> DEFINE Seen == [previous : recorded \cup {NoRun}, exists : BOOLEAN]
           Row == [count : 0 .. Cardinality(Runs), last : Runs \cup {NoRun},
                   previous : Runs \cup {NoRun}]
<1>r. row \in Row
  BY DEF StoresTypeOK
<1>d. \A r \in Runs : phase[r] = "done" => phase'[r] = "done"
  BY PlaceStep
<1>s. seen \in [Runs -> Seen] /\ recorded \subseteq Runs
  BY DEF MemoryInv
<1>f. IsFiniteSet(Runs) /\ NoRun \notin Runs /\ IsFiniteSet(recorded)
      /\ Cardinality(Runs) \in Nat
  BY <1>s, StoresAssumption, FS_Subset, FS_CardinalityType DEF StoresAssumption
<1>1. CASE UNCHANGED tables
  BY <1>1, <1>r, <1>d, <1>s, MemoryFrame DEF tables
<1>2. ASSUME NEW r \in Runs, ReadPrevious(r)
      PROVE  MemoryInv' /\ row' \in Row
  <2>1. row.last \in recorded \cup {NoRun}
    BY DEF MemoryInv, MemoryIsHonest
  <2>2. seen' \in [Runs -> Seen]
    BY <1>2, <1>s, <2>1 DEF ReadPrevious
  <2>3. QED
    BY <1>2, <1>r, <1>d, <2>2, MemoryFrame DEF ReadPrevious
<1>3. ASSUME NEW r \in Runs, SelectRow(r)
      PROVE  MemoryInv' /\ row' \in Row
  <2>0. (row.count > 0) \in BOOLEAN
    OBVIOUS
  <2>1. PICK exists \in BOOLEAN : seen' = [seen EXCEPT ![r].exists = exists]
    BY <1>3, <2>0, Zenon DEF SelectRow
  <2>2. seen' \in [Runs -> Seen]
    BY <1>s, <2>1
  <2>3. QED
    BY <1>3, <1>r, <1>d, <2>2, MemoryFrame DEF SelectRow
<1>4. ASSUME NEW r \in Runs, seen' = [seen EXCEPT ![r] = Unseen], UNCHANGED <<row, recorded>>
      PROVE  MemoryInv' /\ row' \in Row
  <2>1. seen' \in [Runs -> Seen]
    BY <1>4, <1>s DEF Unseen
  <2>2. QED
    BY <1>4, <1>r, <1>d, <2>1, MemoryFrame
<1>5. ASSUME NEW r \in Runs, CommitMetrics(r), seen[r].exists \/ row.count = 0
      PROVE  MemoryInv' /\ row' \in Row
  <2>1. /\ row' = [count |-> row.count + 1, last |-> r, previous |-> seen[r].previous]
        /\ recorded' = recorded \cup {r} /\ seen' = [seen EXCEPT ![r] = Unseen]
        /\ phase[r] = "metrics" /\ phase' = [phase EXCEPT ![r] = "done"]
    BY <1>5 DEF CommitMetrics, Enter
  <2>2. r \notin recorded
    BY <2>1 DEF MemoryInv
  <2>3. Cardinality(recorded') = Cardinality(recorded) + 1 /\ Cardinality(recorded) \in Nat
    BY <1>f, <2>1, <2>2, FS_AddElement, FS_CardinalityType
  <2>4. recorded' \subseteq Runs
    BY <1>s, <2>1
  <2>5. Cardinality(recorded') <= Cardinality(Runs)
    BY <1>f, <2>4, FS_Subset
  <2>6. row.count = Cardinality(recorded)
    BY DEF MemoryInv, MemoryIsHonest
  <2>7. seen[r].previous \in recorded \cup {NoRun}
    BY <1>s
  <2>8. row' \in Row
    BY <1>s, <2>1, <2>3, <2>5, <2>6, <2>7, <1>f
  <2>9. MemoryIsHonest'
    BY <1>f, <2>1, <2>2, <2>3, <2>6, <2>7 DEF MemoryIsHonest
  <2>10. seen' \in [Runs -> [previous : recorded' \cup {NoRun}, exists : BOOLEAN]]
    BY <1>s, <2>1 DEF Unseen
  <2>11. recorded' \subseteq {s \in Runs : phase'[s] = "done"}
    BY <1>d, <2>1 DEF MemoryInv, StoresTypeOK
  <2>12. QED
    BY <2>8, <2>9, <2>10, <2>11 DEF MemoryInv
<1>6. ASSUME NEW r \in Runs, CommitMetrics(r)
      PROVE  MemoryInv' /\ row' \in Row
  BY <1>4, <1>5, <1>6 DEF CommitMetrics
<1>7. ASSUME NEW r \in Runs, MetricsFail(r)
      PROVE  MemoryInv' /\ row' \in Row
  BY <1>4, <1>7 DEF MetricsFail
<1>8. CASE ProcessDies
  <2>1. seen' \in [Runs -> Seen]
    BY <1>8 DEF ProcessDies, Unseen
  <2>2. QED
    BY <1>8, <1>r, <1>d, <2>1, MemoryFrame DEF ProcessDies
<1>9. QED
  BY <1>1, <1>2, <1>3, <1>6, <1>7, <1>8, RowCases

(* Storing a count overtakes the ticks that know another one.               *)
LEMMA StoreStep ==
  ASSUME CursorInv, cursor \in Nat, NEW n \in Nat, StoreCursor(n)
  PROVE  /\ Overtaking(n) \in [Ticks -> [at : {"new", "asking", "over"}, base : Nat,
                                        overtaken : BOOLEAN]]
         /\ \A t \in Ticks : Overtaking(n)[t].at = "asking" /\ ~Overtaking(n)[t].overtaken
                              => cursor' = Overtaking(n)[t].base
<1> DEFINE Overtakes(t) == beat[t].overtaken \/ (beat[t].at = "asking" /\ n # cursor)
<1>1. \A t \in Ticks : Overtakes(t) \in BOOLEAN
  BY DEF CursorInv
<1>2. \A t \in Ticks : Overtaking(n)[t] = [beat[t] EXCEPT !.overtaken = Overtakes(t)]
  BY DEF Overtaking
<1>3. ASSUME NEW t \in Ticks
      PROVE  /\ Overtaking(n)[t].at = beat[t].at /\ Overtaking(n)[t].base = beat[t].base
             /\ Overtaking(n)[t].overtaken = Overtakes(t)
             /\ Overtaking(n)[t] \in [at : {"new", "asking", "over"}, base : Nat,
                                     overtaken : BOOLEAN]
  <2>1. beat[t] \in [at : {"new", "asking", "over"}, base : Nat, overtaken : BOOLEAN]
    BY DEF CursorInv
  <2> HIDE DEF Overtakes
  <2>2. QED
    BY <1>1, <1>2, <2>1
<1>4. Overtaking(n) = [t \in Ticks |-> Overtaking(n)[t]]
  BY DEF Overtaking
<1>5. ASSUME NEW t \in Ticks, beat[t].at = "asking", ~Overtakes(t)
      PROVE  cursor' = beat[t].base
  BY <1>5 DEF CursorInv, StoreCursor
<1> HIDE DEF Overtakes
<1>6. QED
  BY <1>3, <1>4, <1>5

(* A tick that is not asking says nothing of the count.                     *)
LEMMA IdleTyped ==
  ASSUME NEW state \in {"new", "over"}
  PROVE  /\ Idle(state) \in [at : {"new", "asking", "over"}, base : Nat, overtaken : BOOLEAN]
         /\ Idle(state).at # "asking"
BY DEF Idle

(* Every step keeps what the ticks know of the advisory count.              *)
LEMMA CursorStep ==
  ASSUME StoresTypeOK, CursorInv, [StoresNext]_storeVars
  PROVE  CursorInv' /\ cursor' \in Nat
<1> DEFINE Beat == [at : {"new", "asking", "over"}, base : Nat, overtaken : BOOLEAN]
<1>c. cursor \in Nat /\ beat \in [Ticks -> Beat]
  BY DEF StoresTypeOK, CursorInv
<1>1. CASE UNCHANGED hearts
  BY <1>1, <1>c DEF hearts, CursorInv
<1>2. ASSUME NEW t \in Ticks, TickReads(t)
      PROVE  CursorInv' /\ cursor' \in Nat
  <2>1. beat' = [beat EXCEPT ![t] = [at |-> "asking", base |-> cursor, overtaken |-> FALSE]]
        /\ cursor' = cursor
    BY <1>2 DEF TickReads, Idle
  <2>2. QED
    BY <1>c, <2>1 DEF CursorInv
<1>3. ASSUME NEW t \in Ticks, TickWrites(t)
      PROVE  CursorInv' /\ cursor' \in Nat
  <2>1. Idle("over") \in Beat /\ Idle("over").at # "asking"
    BY IdleTyped
  <2>2. CASE \E n \in {beat[t].base, beat[t].base + 1} :
               StoreCursor(n) /\ beat' = [Overtaking(n) EXCEPT ![t] = Idle("over")]
    <3>1. PICK n \in {beat[t].base, beat[t].base + 1} :
            StoreCursor(n) /\ beat' = [Overtaking(n) EXCEPT ![t] = Idle("over")]
      BY <2>2
    <3>n. beat[t].base \in Nat
      BY <1>c
    <3>m. n \in Nat
      BY <3>n
    <3>2. Overtaking(n) \in [Ticks -> Beat]
          /\ \A u \in Ticks : Overtaking(n)[u].at = "asking" /\ ~Overtaking(n)[u].overtaken
                               => cursor' = Overtaking(n)[u].base
      BY <1>c, <3>1, <3>m, StoreStep
    <3>3. beat' \in [Ticks -> Beat]
      BY <2>1, <3>1, <3>2
    <3>4. \A u \in Ticks : beat'[u] = IF u = t THEN Idle("over") ELSE Overtaking(n)[u]
      BY <3>1, <3>2
    <3>5. QED
      BY <2>1, <3>1, <3>m, <3>2, <3>3, <3>4 DEF CursorInv, StoreCursor
  <2>3. CASE beat' = [beat EXCEPT ![t] = Idle("over")] /\ UNCHANGED cursor
    BY <1>c, <2>1, <2>3 DEF CursorInv
  <2>4. QED
    BY <1>3, <2>2, <2>3 DEF TickWrites
<1>4. ASSUME NEW r \in Runs, ScanAdvisories(r)
      PROVE  CursorInv' /\ cursor' \in Nat
  <2>1. CASE StoreCursor(1) /\ beat' = Overtaking(1)
    BY <1>c, <2>1, StoreStep DEF CursorInv, StoreCursor
  <2>2. CASE UNCHANGED <<cursor, beat>>
    BY <1>c, <2>2 DEF CursorInv
  <2>3. QED
    BY <1>4, <2>1, <2>2 DEF ScanAdvisories
<1>5. CASE ProcessDies
  <2>1. cursor' = cursor
        /\ beat' = [t \in Ticks |->
             IF beat[t].at = "asking" \/ ~MayTickAgain THEN Idle("over")
             ELSE beat[t]]
    BY <1>5 DEF ProcessDies
  <2>2. Idle("over") \in Beat /\ Idle("over").at # "asking"
    BY IdleTyped
  <2>3. \A t \in Ticks : beat'[t] \in Beat /\ beat'[t].at # "asking"
    BY <1>c, <2>1, <2>2
  <2>4. QED
    BY <1>c, <2>1, <2>3 DEF CursorInv
<1>6. QED
  BY <1>1, <1>2, <1>3, <1>4, <1>5, RowCases DEF Heartbeat

-----------------------------------------------------------------------------
(* The files *)

FileTypes ==
  /\ todo \in [Runs -> SUBSET ({"nvd", "kev", "epss"} \cup Cves \cup {Code})]
  /\ view \in [Runs -> [text : SUBSET Cves, live : SUBSET Entry]]
  /\ results \in [Runs -> SUBSET Relevant]
  /\ disk \in [Files -> [parses : BOOLEAN, entries : SUBSET Entry]]
  /\ kept \in [Files -> SUBSET Entry] /\ stale \in [Runs -> BOOLEAN]

FilesInv ==
  /\ FileTypes /\ disk["cves"].entries \subseteq Cves
  /\ \A f \in Files : disk[f].parses => disk[f].entries = kept[f]
RunInv(r) == RightEntries(r) /\ KnowsKept(r)

(* The invariant of the files, and of each run that works on them.          *)
LEMMA FilesParts ==
  /\ StoresTypeOK /\ EntriesInv /\ FreshInv => FilesInv /\ \A r \in Runs : RunInv(r)
  /\ FilesInv /\ (\A r \in Runs : RunInv(r)) => EntriesInv /\ FreshInv
BY StoreNames DEF StoresTypeOK, EntriesInv, FreshInv, FilesInv, FileTypes, RunInv

(* The same of the next state.                                              *)
LEMMA FilesPartsNext ==
  FilesInv' /\ (\A r \in Runs : RunInv(r)') => EntriesInv' /\ FreshInv'
BY DEF EntriesInv, FreshInv, FilesInv, FileTypes, RunInv

(* The assumptions on the constants, one by one.                            *)
LEMMA StoreConstants ==
  Relevant \subseteq Cves /\ Cves \subseteq Entry /\ Code \in Entry /\ Runs \subseteq Entry
BY StoresAssumption DEF StoresAssumption, Entry

(* A run that another one's step leaves alone keeps its part of the         *)
(* invariant: if that step saves the file the run works on, its view is     *)
(* stale from now on.                                                       *)
LEMMA OthersKept ==
  ASSUME FileTypes, NEW r \in Runs, NEW p, NEW place, Goes(r, p, place), StoresTypeOK,
         NEW s \in Runs \ {r}, RunInv(s), todo'[s] = todo[s], view'[s] = view[s],
         stale[s] => stale'[s],
         \/ kept'[FileOf(phase[s])] = kept[FileOf(phase[s])]
         \/ phase[s] \in {"cve", "threat"} /\ at[s] \in {"work", "save", "write"} => stale'[s]
  PROVE  RunInv(s)'
<1>1. phase'[s] = phase[s] /\ at'[s] = at[s]
  BY DEF Goes, StoresTypeOK
<1>2. RightEntries(s)'
  BY <1>1 DEF RunInv, RightEntries, Entries
<1>3. KnowsKept(s)'
  BY <1>1 DEF RunInv, KnowsKept, Entries
<1>4. QED
  BY <1>2, <1>3 DEF RunInv

(* Files, views and tasks stay; the run is in no place where it matters, or *)
(* in the same handler as before, its file open.                            *)
LEMMA FilesFrame ==
  ASSUME StoresTypeOK, FilesInv, \A s \in Runs : RunInv(s),
         NEW r \in Runs, NEW p, NEW place, Goes(r, p, place),
         UNCHANGED <<todo, view, results, disk, kept, stale>>,
         \/ p \notin {"cve", "threat"} \/ place = "load"
         \/ p = phase[r] /\ at[r] \in {"work", "save", "write"}
  PROVE  FilesInv' /\ \A s \in Runs : RunInv(s)'
<1>1. FilesInv'
  BY DEF FilesInv, FileTypes
<1>2. ASSUME NEW s \in Runs \ {r}
      PROVE  RunInv(s)'
  BY <1>2, OthersKept DEF FilesInv
<1>3. RunInv(r)'
  <2>1. phase'[r] = p /\ at'[r] = place
    BY DEF Goes, StoresTypeOK
  <2>2. QED
    BY <2>1 DEF RunInv, RightEntries, KnowsKept, Entries
<1>4. QED
  BY <1>1, <1>2, <1>3

(* A run goes somewhere and holds other things afterwards, no file changes, *)
(* and what it holds is right there.                                        *)
Holds(r, p, place, t, v, q, b) ==
  /\ Goes(r, p, place) /\ UNCHANGED <<disk, kept>>
  /\ t \subseteq {"nvd", "kev", "epss"} \cup Cves \cup {Code}
  /\ v \in [text : SUBSET Cves, live : SUBSET Entry]
  /\ q \subseteq Relevant /\ b \in BOOLEAN
  /\ todo' = [todo EXCEPT ![r] = t] /\ view' = [view EXCEPT ![r] = v]
  /\ results' = [results EXCEPT ![r] = q] /\ stale' = [stale EXCEPT ![r] = b]
  /\ p = "cve" /\ place # "load" =>
       v.text \cup v.live \subseteq Cves /\ t \subseteq {"nvd", "kev", "epss"}
  /\ p = "threat" /\ place # "load" => t \subseteq Relevant \cup {Code}
  /\ p \in {"cve", "threat"} /\ place \in {"work", "save", "write"} /\ ~b =>
       kept[FileOf(p)] \subseteq v.text \cup v.live

(* Such a step keeps the invariant.                                         *)
LEMMA OwnStep ==
  ASSUME StoresTypeOK, FilesInv, \A s \in Runs : RunInv(s), NEW r \in Runs,
         NEW p, NEW place, NEW t, NEW v, NEW q, NEW b, Holds(r, p, place, t, v, q, b)
  PROVE  FilesInv' /\ \A s \in Runs : RunInv(s)'
<1> USE DEF Holds
<1>t. FileTypes
  BY DEF FilesInv
<1>1. FilesInv'
  <2>1. /\ todo' \in [Runs -> SUBSET ({"nvd", "kev", "epss"} \cup Cves \cup {Code})]
        /\ view' \in [Runs -> [text : SUBSET Cves, live : SUBSET Entry]]
        /\ results' \in [Runs -> SUBSET Relevant] /\ stale' \in [Runs -> BOOLEAN]
    BY <1>t DEF FileTypes
  <2>2. QED
    BY <2>1 DEF FilesInv, FileTypes
<1>2. ASSUME NEW s \in Runs \ {r}
      PROVE  RunInv(s)'
  <2>1. /\ todo'[s] = todo[s] /\ view'[s] = view[s]
        /\ stale'[s] = stale[s]
    BY <1>2, <1>t DEF FileTypes
  <2>2. QED
    BY <1>2, <1>t, <2>1, OthersKept
<1>3. RunInv(r)'
  <2>1. phase'[r] = p /\ at'[r] = place
    BY DEF Goes, StoresTypeOK
  <2>2. todo'[r] = t /\ view'[r] = v /\ stale'[r] = b
    BY <1>t DEF FileTypes
  <2>3. RightEntries(r)'
    BY <2>1, <2>2, StoreNames DEF RightEntries, Entries
  <2>4. KnowsKept(r)'
    BY <2>1, <2>2 DEF KnowsKept, Entries
  <2>5. QED
    BY <2>3, <2>4 DEF RunInv
<1>4. QED
  BY <1>1, <1>2, <1>3

(* Loading a file that parses gives a run all that was kept.                *)
LEMMA LoadKeepsFiles ==
  ASSUME StoresTypeOK, PlaceInv, FilesInv, \A s \in Runs : RunInv(s), NEW r \in Runs, Load(r)
  PROVE  FilesInv' /\ \A s \in Runs : RunInv(s)'
<1>t. FileTypes
  BY DEF FilesInv
<1>1. at[r] = "load" /\ phase[r] \in FileHandlers /\ UNCHANGED <<phase, results, disk, kept>>
  BY DEF Load, PlaceInv
<1>2. /\ results' = [results EXCEPT ![r] = results[r]] /\ results[r] \subseteq Relevant
      /\ \A f \in Files : disk[f].parses \in BOOLEAN /\ disk[f].entries \subseteq Entry
  BY <1>1, <1>t DEF FileTypes
<1>3. /\ disk["cves"].entries \subseteq Cves
      /\ \A f \in Files : disk[f].parses => disk[f].entries = kept[f]
  BY DEF FilesInv
<1>4. CASE phase[r] = "init"
  <2> DEFINE v == [text |-> {}, live |-> {r}]
             b == ~disk["engagements"].parses
  <2>1. FileOf("init") = "engagements"
    BY DEF FileOf
  <2>2. /\ view' = [view EXCEPT ![r] = v] /\ todo' = [todo EXCEPT ![r] = {}]
        /\ at' = [at EXCEPT ![r] = "save"] /\ stale' = [stale EXCEPT ![r] = b]
    BY <1>4, <2>1 DEF Load, Started, LoadedEngagements, Nothing
  <2>3. v \in [text : SUBSET Cves, live : SUBSET Entry] /\ b \in BOOLEAN
    <3>1. {r} \in SUBSET Entry
      BY StoreConstants
    <3>2. QED
      BY <3>1
  <2>4. Goes(r, "init", "save")
    BY <1>1, <1>4, <2>2, StaysInHandler
  <2> HIDE DEF v, b
  <2>5. Holds(r, "init", "save", {}, v, results[r], b)
    BY <1>1, <1>2, <2>2, <2>3, <2>4 DEF Holds
  <2>6. QED
    BY <2>5, OwnStep
<1>5. CASE phase[r] = "cve"
  <2> DEFINE v == [text |-> Parsed("cves"), live |-> {}]
             b == ~disk["cves"].parses
  <2>1. FileOf("cve") = "cves"
    BY DEF FileOf
  <2>2. /\ view' = [view EXCEPT ![r] = v] /\ todo' = [todo EXCEPT ![r] = {"nvd", "kev", "epss"}]
        /\ at' = [at EXCEPT ![r] = "work"] /\ stale' = [stale EXCEPT ![r] = b]
    BY <1>5, <2>1, StoreNames DEF Load, LoadedCves
  <2>3. Parsed("cves") \subseteq Cves /\ (~b => kept["cves"] \subseteq Parsed("cves"))
    BY <1>3 DEF Parsed, Files
  <2>4. v \in [text : SUBSET Cves, live : SUBSET Entry] /\ b \in BOOLEAN
    BY <2>3
  <2>5. /\ v.text \cup v.live \subseteq Cves
        /\ ~b => kept[FileOf("cve")] \subseteq v.text \cup v.live
    BY <2>1, <2>3
  <2>6. Goes(r, "cve", "work")
    BY <1>1, <1>5, <2>2, StaysInHandler
  <2> HIDE DEF v, b
  <2>7. Holds(r, "cve", "work", {"nvd", "kev", "epss"}, v, results[r], b)
    BY <1>1, <1>2, <2>2, <2>4, <2>5, <2>6 DEF Holds
  <2>8. QED
    BY <2>7, OwnStep
<1>6. CASE phase[r] = "threat"
  <2> DEFINE v == [text |-> {}, live |-> Parsed("patterns")]
             b == ~disk["patterns"].parses
             t == results[r] \cup {Code}
  <2>1. FileOf("threat") = "patterns"
    BY DEF FileOf
  <2>2. /\ view' = [view EXCEPT ![r] = v] /\ todo' = [todo EXCEPT ![r] = t]
        /\ at' = [at EXCEPT ![r] = "work"] /\ stale' = [stale EXCEPT ![r] = b]
    BY <1>6, <2>1 DEF Load, LoadedPatterns
  <2>3. Parsed("patterns") \subseteq Entry /\ (~b => kept["patterns"] \subseteq Parsed("patterns"))
    BY <1>2, <1>3 DEF Parsed, Files
  <2>4. v \in [text : SUBSET Cves, live : SUBSET Entry] /\ b \in BOOLEAN
    BY <2>3
  <2>5. ~b => kept[FileOf("threat")] \subseteq v.text \cup v.live
    BY <2>1, <2>3
  <2>6. t \subseteq Relevant \cup {Code} /\ t \subseteq {"nvd", "kev", "epss"} \cup Cves \cup {Code}
    BY <1>2, StoreConstants
  <2>7. Goes(r, "threat", "work")
    BY <1>1, <1>6, <2>2, StaysInHandler
  <2> HIDE DEF v, b, t
  <2>8. Holds(r, "threat", "work", t, v, results[r], b)
    BY <1>1, <1>2, <2>2, <2>4, <2>5, <2>6, <2>7 DEF Holds
  <2>9. QED
    BY <2>8, OwnStep
<1>7. QED
  BY <1>1, <1>4, <1>5, <1>6 DEF FileHandlers

(* The feed that is asked next is one still to be asked.                    *)
LEMMA NextFeedNamed ==
  ASSUME NEW r \in Runs, todo[r] \subseteq {"nvd", "kev", "epss"}, todo[r] # {}
  PROVE  NextFeed(r) \in {"nvd", "kev", "epss"}
<1> DEFINE First(i) == Feeds[i] \in todo[r] /\ \A j \in 1 .. i - 1 : Feeds[j] \notin todo[r]
<1>1. DOMAIN Feeds = {1, 2, 3} /\ Feeds[1] = "nvd" /\ Feeds[2] = "kev" /\ Feeds[3] = "epss"
  BY DEF Feeds
<1>2. \E i \in DOMAIN Feeds : First(i)
  <2>1. CASE "nvd" \in todo[r]
    <3>1. First(1)
      BY <1>1, <2>1
    <3>2. QED
      BY <1>1, <3>1
  <2>2. CASE "nvd" \notin todo[r] /\ "kev" \in todo[r]
    <3>1. First(2)
      BY <1>1, <2>2
    <3>2. QED
      BY <1>1, <3>1
  <2>3. CASE "nvd" \notin todo[r] /\ "kev" \notin todo[r] /\ "epss" \in todo[r]
    <3>1. \A j \in 1 .. 2 : j = 1 \/ j = 2
      OBVIOUS
    <3>2. First(3)
      BY <1>1, <2>3, <3>1
    <3>3. QED
      BY <1>1, <3>2
  <2>4. QED
    BY <2>1, <2>2, <2>3
<1> DEFINE first == CHOOSE i \in DOMAIN Feeds : First(i)
<1>3. first \in DOMAIN Feeds
  BY <1>2
<1>4. NextFeed(r) = Feeds[first]
  BY DEF NextFeed
<1>5. QED
  BY <1>1, <1>3, <1>4

(* Asking a feed loses no entry and adds CVEs only.                         *)
LEMMA IngestedGrows ==
  ASSUME NEW v \in [text : SUBSET Cves, live : SUBSET Entry], NEW given \in SUBSET Cves,
         NEW feed \in {"nvd", "kev", "epss"}
  PROVE  LET w == Ingested(v, feed, given) IN
         /\ w \in [text : SUBSET Cves, live : SUBSET Entry]
         /\ v.text \cup v.live \subseteq w.text \cup w.live
         /\ w.text \cup w.live \subseteq v.text \cup v.live \cup Cves
<1>1. v = [text |-> v.text, live |-> v.live] /\ v.text \subseteq Cves /\ v.live \subseteq Entry
  OBVIOUS
<1>2. Cves \subseteq Entry
  BY StoreConstants
<1>3. CASE feed = "nvd"
  <2>1. Ingested(v, feed, given) = [text |-> v.text \ given, live |-> v.live \cup given]
    BY <1>3 DEF Ingested, IngestNvd
  <2>2. QED
    BY <1>1, <1>2, <2>1
<1>4. CASE feed = "kev"
  <2>1. Ingested(v, feed, given) = [text |-> v.text, live |-> v.live \cup (given \ v.text)]
    BY <1>1, <1>4 DEF Ingested, IngestKev
  <2>2. QED
    BY <1>1, <1>2, <2>1
<1>5. CASE feed = "epss"
  BY <1>1, <1>5 DEF Ingested, IngestEpss
<1>6. QED
  BY <1>3, <1>4, <1>5

(* An answer of a feed, or its failure.                                     *)
LEMMA IngestKeepsFiles ==
  ASSUME StoresTypeOK, FilesInv, \A s \in Runs : RunInv(s), NEW r \in Runs, Ingest(r)
  PROVE  FilesInv' /\ \A s \in Runs : RunInv(s)'
<1>t. FileTypes
  BY DEF FilesInv
<1>1. /\ phase[r] = "cve" /\ at[r] = "work" /\ todo[r] # {} /\ UNCHANGED phase
      /\ todo' = [todo EXCEPT ![r] = todo[r] \ {NextFeed(r)}]
      /\ UNCHANGED <<results, disk, kept, stale>>
  BY DEF Ingest
<1>2. todo[r] \subseteq {"nvd", "kev", "epss"} /\ Entries(r) \subseteq Cves
  BY <1>1, StoreNames DEF RunInv, RightEntries
<1>3. /\ results' = [results EXCEPT ![r] = results[r]] /\ results[r] \in SUBSET Relevant
      /\ stale' = [stale EXCEPT ![r] = stale[r]] /\ stale[r] \in BOOLEAN
      /\ view[r] \in [text : SUBSET Cves, live : SUBSET Entry]
  BY <1>1, <1>t DEF FileTypes
<1>4. ~stale[r] => kept["cves"] \subseteq Entries(r)
  BY <1>1 DEF RunInv, KnowsKept, FileOf
<1>5. PICK place \in {"save", "work"}, v \in [text : SUBSET Cves, live : SUBSET Entry] :
        /\ at' = [at EXCEPT ![r] = place] \/ (UNCHANGED at /\ place = at[r])
        /\ view' = [view EXCEPT ![r] = v]
        /\ Entries(r) \subseteq v.text \cup v.live /\ v.text \cup v.live \subseteq Cves
  <2>1. CASE UNCHANGED <<at, view>>
    <3>1. view' = [view EXCEPT ![r] = view[r]]
      BY <2>1, <1>t DEF FileTypes
    <3>2. Entries(r) = view[r].text \cup view[r].live
      BY DEF Entries
    <3>3. QED
      BY <1>1, <1>2, <1>3, <2>1, <3>1, <3>2
  <2>2. ASSUME NEW given \in SUBSET Cves, at' = [at EXCEPT ![r] = "save"],
               view' = [view EXCEPT ![r] = Ingested(@, NextFeed(r), given)]
        PROVE  \E v \in [text : SUBSET Cves, live : SUBSET Entry] :
                 /\ view' = [view EXCEPT ![r] = v]
                 /\ Entries(r) \subseteq v.text \cup v.live /\ v.text \cup v.live \subseteq Cves
    <3> DEFINE w == Ingested(view[r], NextFeed(r), given)
    <3>1. NextFeed(r) \in {"nvd", "kev", "epss"}
      BY <1>1, <1>2, NextFeedNamed
    <3>2. /\ w \in [text : SUBSET Cves, live : SUBSET Entry]
          /\ view[r].text \cup view[r].live \subseteq w.text \cup w.live
          /\ w.text \cup w.live \subseteq view[r].text \cup view[r].live \cup Cves
      BY <1>3, <3>1, IngestedGrows
    <3>3. view' = [view EXCEPT ![r] = w]
      BY <2>2
    <3> HIDE DEF w
    <3>4. QED
      BY <1>2, <3>2, <3>3 DEF Entries
  <2>3. \/ UNCHANGED <<at, view>>
        \/ \E given \in SUBSET Cves : /\ at' = [at EXCEPT ![r] = "save"]
                                      /\ view' = [view EXCEPT ![r] = Ingested(@, NextFeed(r), given)]
    BY DEF Ingest
  <2>4. QED
    BY <2>1, <2>2, <2>3
<1>6. Goes(r, "cve", place)
  BY <1>1, <1>5, StaysInHandler
<1> DEFINE t == todo[r] \ {NextFeed(r)}
<1>7. t \subseteq {"nvd", "kev", "epss"} /\ todo' = [todo EXCEPT ![r] = t]
  BY <1>1, <1>2
<1>8. ~stale[r] => kept[FileOf("cve")] \subseteq v.text \cup v.live
  BY <1>4, <1>5 DEF FileOf
<1> HIDE DEF t
<1>9. Holds(r, "cve", place, t, v, results[r], stale[r])
  BY <1>1, <1>3, <1>5, <1>6, <1>7, <1>8 DEF Holds
<1>10. QED
  BY <1>9, OwnStep

(* The end of a handler: its object is gone.                                *)
LEMMA ClosingKeepsFiles ==
  ASSUME StoresTypeOK, FilesInv, \A s \in Runs : RunInv(s), NEW r \in Runs,
         CloseIngestion(r) \/ LearningOver(r)
  PROVE  FilesInv' /\ \A s \in Runs : RunInv(s)'
<1>t. FileTypes
  BY DEF FilesInv
<1>1. Nothing \in [text : SUBSET Cves, live : SUBSET Entry]
  BY DEF Nothing
<1>2. /\ UNCHANGED <<todo, disk, kept>> /\ view' = [view EXCEPT ![r] = Nothing]
      /\ stale' = [stale EXCEPT ![r] = FALSE]
  BY DEF CloseIngestion, LearningOver
<1>3. todo' = [todo EXCEPT ![r] = todo[r]]
      /\ todo[r] \subseteq {"nvd", "kev", "epss"} \cup Cves \cup {Code}
  BY <1>2, <1>t DEF FileTypes
<1>4. PICK p \in {"scan", "metrics"}, place \in {"work", "read"} : Goes(r, p, place)
  BY DEF CloseIngestion, LearningOver, Enter, Goes
<1>5. PICK q \in SUBSET Relevant : results' = [results EXCEPT ![r] = q]
  <2>1. CASE CloseIngestion(r)
    <3> DEFINE q == IF Found(r) \cap view[r].text = {} THEN Found(r) ELSE {}
    <3>1. q \in SUBSET Relevant
      BY DEF Found
    <3>2. results' = [results EXCEPT ![r] = q]
      BY <2>1 DEF CloseIngestion
    <3> HIDE DEF q
    <3>3. QED
      BY <3>1, <3>2
  <2>2. CASE LearningOver(r)
    BY <2>2 DEF LearningOver
  <2>3. QED
    BY <2>1, <2>2
<1>6. Holds(r, p, place, todo[r], Nothing, q, FALSE)
  BY <1>1, <1>2, <1>3, <1>4, <1>5 DEF Holds
<1>7. QED
  BY <1>6, OwnStep

(* Learning adds to what the run holds.                                     *)
LEMMA LearningKeepsFiles ==
  ASSUME StoresTypeOK, FilesInv, \A s \in Runs : RunInv(s), NEW r \in Runs,
         LearnFromCve(r) \/ LearnFromScan(r)
  PROVE  FilesInv' /\ \A s \in Runs : RunInv(s)'
<1>t. FileTypes
  BY DEF FilesInv
<1>1. /\ phase[r] = "threat" /\ at[r] = "work" /\ UNCHANGED phase
      /\ at' = [at EXCEPT ![r] = "save"] /\ UNCHANGED <<results, disk, kept, stale>>
  BY DEF LearnFromCve, LearnFromScan
<1>2. /\ results' = [results EXCEPT ![r] = results[r]] /\ results[r] \subseteq Relevant
      /\ stale' = [stale EXCEPT ![r] = stale[r]] /\ stale[r] \in BOOLEAN
      /\ view[r] \in [text : SUBSET Cves, live : SUBSET Entry]
  BY <1>1, <1>t DEF FileTypes
<1>3. todo[r] \subseteq Relevant \cup {Code}
  BY <1>1 DEF RunInv, RightEntries
<1>4. PICK item \in Relevant \cup {Code}, t \in SUBSET (Relevant \cup {Code}) :
        todo' = [todo EXCEPT ![r] = t] /\ Upsert(r, item)
  <2>1. CASE LearnFromScan(r)
    BY <2>1 DEF LearnFromScan
  <2>2. CASE LearnFromCve(r)
    <3>1. PICK item \in todo[r] \ {Code} :
            todo' = [todo EXCEPT ![r] = todo[r] \ {item}] /\ Upsert(r, item)
      BY <2>2 DEF LearnFromCve
    <3>2. todo[r] \ {item} \in SUBSET (Relevant \cup {Code})
      BY <1>3
    <3>3. QED
      BY <1>3, <3>1, <3>2
  <2>3. QED
    BY <2>1, <2>2
<1>5. item \in Entry
  BY StoreConstants
<1>6. PICK v \in [text : SUBSET Cves, live : SUBSET Entry] :
        view' = [view EXCEPT ![r] = v] /\ Entries(r) \subseteq v.text \cup v.live
  <2>1. CASE UNCHANGED view
    <3>1. view' = [view EXCEPT ![r] = view[r]]
      BY <2>1, <1>t DEF FileTypes
    <3>2. QED
      BY <1>2, <3>1 DEF Entries
  <2>2. CASE view' = [view EXCEPT ![r].live = @ \cup {item}]
    <3> DEFINE v == [view[r] EXCEPT !.live = @ \cup {item}]
    <3>1. view' = [view EXCEPT ![r] = v]
      BY <2>2
    <3>2. v \in [text : SUBSET Cves, live : SUBSET Entry]
      BY <1>2, <1>5
    <3>3. Entries(r) \subseteq v.text \cup v.live
      BY <1>2 DEF Entries
    <3> HIDE DEF v
    <3>4. QED
      BY <3>1, <3>2, <3>3
  <2>3. QED
    BY <1>4, <2>1, <2>2 DEF Upsert
<1>7. Goes(r, "threat", "save")
  BY <1>1, StaysInHandler
<1>8. ~stale[r] => kept[FileOf("threat")] \subseteq v.text \cup v.live
  <2>1. ~stale[r] => kept[FileOf("threat")] \subseteq Entries(r)
    BY <1>1 DEF RunInv, KnowsKept
  <2>2. QED
    BY <1>6, <2>1
<1>9. Holds(r, "threat", "save", t, v, results[r], stale[r])
  BY <1>1, <1>2, <1>4, <1>6, <1>7, <1>8, StoreConstants DEF Holds
<1>10. QED
  BY <1>9, OwnStep

(* Who has the file of another run open is disturbed by its save, and       *)
(* nobody's view is renewed.                                                *)
LEMMA Disturbed ==
  ASSUME StoresTypeOK, NEW r \in Runs, Disturb(r)
  PROVE  /\ stale' \in [Runs -> BOOLEAN] /\ stale'[r] = stale[r]
         /\ \A s \in Runs : stale[s] => stale'[s]
         /\ \A s \in Runs \ {r} :
              /\ phase[s] \in {"cve", "threat"} /\ at[s] \in {"work", "save", "write"}
              /\ FileOf(phase[s]) = FileOf(phase[r])
              => stale'[s]
<1>1. stale \in [Runs -> BOOLEAN]
  BY DEF StoresTypeOK
<1>2. QED
  BY <1>1 DEF Disturb

(* Truncating a file, or refusing to save.                                  *)
LEMMA TruncatingKeepsFiles ==
  ASSUME StoresTypeOK, PlaceInv, FilesInv, \A s \in Runs : RunInv(s), NEW r \in Runs,
         SaveTruncates(r)
  PROVE  FilesInv' /\ \A s \in Runs : RunInv(s)'
<1>t. FileTypes
  BY DEF FilesInv
<1>1. at[r] = "save" /\ phase[r] \in FileHandlers /\ UNCHANGED <<todo, view, results, kept>>
  BY DEF SaveTruncates, PlaceInv
<1>2. CASE Saved(r) /\ UNCHANGED <<disk, stale>>
  <2>1. CASE phase[r] = "init"
    <3>1. Goes(r, "cve", "load")
      BY <1>2, <2>1, SavedMoves
    <3>2. QED
      BY <1>1, <1>2, <3>1, FilesFrame
  <2>2. CASE phase[r] # "init"
    <3>1. Goes(r, phase[r], "work")
      BY <1>2, <2>2, SavedMoves
    <3>2. QED
      BY <1>1, <1>2, <3>1, FilesFrame
  <2>3. QED
    BY <2>1, <2>2
<1>3. CASE /\ disk' = [disk EXCEPT ![FileOf(phase[r])] = [parses |-> FALSE, entries |-> {}]]
           /\ at' = [at EXCEPT ![r] = "write"] /\ UNCHANGED phase /\ Disturb(r)
  <2>1. Goes(r, phase[r], "write")
    BY <1>3, StaysInHandler
  <2>2. FilesInv'
    <3>1. disk' \in [Files -> [parses : BOOLEAN, entries : SUBSET Entry]]
      BY <1>3, <1>t DEF FileTypes
    <3>2. \A f \in Files :
            disk'[f] = disk[f] \/ disk'[f] = [parses |-> FALSE, entries |-> {}]
      BY <1>3, <1>t DEF FileTypes
    <3>3. stale' \in [Runs -> BOOLEAN]
      BY <1>3, Disturbed
    <3>4. \A f \in Files : disk'[f].parses => disk'[f].entries = kept'[f]
      BY <1>1, <3>2 DEF FilesInv
    <3>5. disk'["cves"].entries \subseteq Cves
      BY <3>2 DEF FilesInv, Files
    <3>6. QED
      BY <1>1, <1>t, <3>1, <3>3, <3>4, <3>5 DEF FilesInv, FileTypes
  <2>3. ASSUME NEW s \in Runs \ {r}
        PROVE  RunInv(s)'
    BY <1>1, <1>3, <1>t, <2>1, <2>3, Disturbed, OthersKept
  <2>4. RunInv(r)'
    <3>1. phase'[r] = phase[r] /\ at'[r] = "write" /\ stale'[r] = stale[r]
      BY <1>3, <2>1, Disturbed DEF Goes, StoresTypeOK
    <3>2. QED
      BY <1>1, <3>1 DEF RunInv, RightEntries, KnowsKept, Entries
  <2>5. QED
    BY <2>2, <2>3, <2>4
<1>4. QED
  BY <1>2, <1>3 DEF SaveTruncates

(* Writing a file, whole or torn.                                           *)
LEMMA WritingKeepsFiles ==
  ASSUME StoresTypeOK, PlaceInv, FilesInv, \A s \in Runs : RunInv(s), NEW r \in Runs,
         SaveWrites(r)
  PROVE  FilesInv' /\ \A s \in Runs : RunInv(s)'
<1>t. FileTypes
  BY DEF FilesInv
<1> DEFINE f == FileOf(phase[r])
<1>1. /\ at[r] = "write" /\ phase[r] \in FileHandlers /\ UNCHANGED <<todo, view, results>>
      /\ Saved(r) /\ Disturb(r)
  BY DEF SaveWrites, PlaceInv
<1>2. f \in Files /\ (f = "cves" => phase[r] = "cve")
  BY <1>1 DEF FileOf, FileHandlers, Files
<1>3. Entries(r) \subseteq Entry
  <2>1. view[r].text \subseteq Cves /\ view[r].live \subseteq Entry
    BY <1>t DEF FileTypes
  <2>2. QED
    BY <2>1, StoreConstants DEF Entries
<1>4. f = "cves" => Entries(r) \subseteq Cves
  BY <1>1, <1>2 DEF RunInv, RightEntries
<1> HIDE DEF f
<1>5. \/ /\ disk' = [disk EXCEPT ![f] = [parses |-> TRUE, entries |-> Entries(r)]]
         /\ kept' = [kept EXCEPT ![f] = Entries(r)]
      \/ /\ disk' = [disk EXCEPT ![f] = [parses |-> FALSE, entries |-> {}]]
         /\ UNCHANGED kept
  BY DEF SaveWrites, f
<1>6. FilesInv'
  <2>1. disk' \in [Files -> [parses : BOOLEAN, entries : SUBSET Entry]]
    <3>1. PICK x \in [parses : BOOLEAN, entries : SUBSET Entry] : disk' = [disk EXCEPT ![f] = x]
      <4>1. /\ [parses |-> TRUE, entries |-> Entries(r)] \in [parses : BOOLEAN, entries : SUBSET Entry]
            /\ [parses |-> FALSE, entries |-> {}] \in [parses : BOOLEAN, entries : SUBSET Entry]
        BY <1>3
      <4>2. QED
        BY <1>5, <4>1
    <3>2. QED
      BY <1>t, <3>1 DEF FileTypes
  <2>2. kept' \in [Files -> SUBSET Entry]
    BY <1>2, <1>3, <1>5, <1>t DEF FileTypes
  <2>3. \A g \in Files : \/ disk'[g] = disk[g] /\ kept'[g] = kept[g]
                         \/ ~disk'[g].parses /\ disk'[g].entries = {}
                         \/ g = f /\ disk'[g].entries = Entries(r) /\ kept'[g] = Entries(r)
    BY <1>2, <1>5, <1>t DEF FileTypes
  <2>4. \A g \in Files : disk'[g].parses => disk'[g].entries = kept'[g]
    BY <2>3 DEF FilesInv
  <2>5. disk'["cves"].entries \subseteq Cves
    BY <1>4, <2>3 DEF FilesInv, Files
  <2>6. stale' \in [Runs -> BOOLEAN]
    BY <1>1, Disturbed
  <2>7. QED
    BY <1>1, <1>t, <2>1, <2>2, <2>4, <2>5, <2>6 DEF FilesInv, FileTypes
<1>7. \A g \in Files \ {f} : kept'[g] = kept[g]
  BY <1>5, <1>t DEF FileTypes
<1>8. ASSUME NEW p, NEW place, Goes(r, p, place), NEW s \in Runs \ {r}
      PROVE  RunInv(s)'
  <2>1. \/ kept'[FileOf(phase[s])] = kept[FileOf(phase[s])]
        \/ phase[s] \in {"cve", "threat"} /\ at[s] \in {"work", "save", "write"} => stale'[s]
    <3>1. FileOf(phase[s]) \in Files
      BY DEF FileOf, Files
    <3>2. QED
      BY <1>1, <1>7, <1>8, <3>1, Disturbed DEF f
  <2>2. stale[s] => stale'[s]
    BY <1>1, <1>8, Disturbed
  <2>3. QED
    BY <1>1, <1>t, <1>8, <2>1, <2>2, OthersKept
<1>9. CASE phase[r] = "init"
  <2>1. Goes(r, "cve", "load")
    BY <1>1, <1>9, SavedMoves
  <2>2. phase'[r] = "cve" /\ at'[r] = "load"
    BY <2>1 DEF Goes, StoresTypeOK
  <2>3. RunInv(r)'
    BY <2>2 DEF RunInv, RightEntries, KnowsKept
  <2>4. QED
    BY <1>6, <1>8, <2>1, <2>3
<1>10. CASE phase[r] # "init"
  <2>1. Goes(r, phase[r], "work")
    BY <1>1, <1>10, SavedMoves
  <2>2. phase'[r] = phase[r] /\ at'[r] = "work" /\ stale'[r] = stale[r]
    BY <1>1, <2>1, Disturbed DEF Goes, StoresTypeOK
  <2>3. RightEntries(r)'
    BY <1>1, <2>2 DEF RunInv, RightEntries, Entries
  <2>4. kept'[f] = Entries(r) \/ kept'[f] = kept[f]
    BY <1>2, <1>5, <1>t DEF FileTypes
  <2>5. KnowsKept(r)'
    BY <1>1, <2>2, <2>4 DEF RunInv, KnowsKept, Entries, f
  <2>6. QED
    BY <1>6, <1>8, <2>1, <2>3, <2>5 DEF RunInv
<1>11. QED
  BY <1>9, <1>10

(* Every step keeps what the files hold, what runs hold of them and what is *)
(* still to do.                                                             *)
LEMMA FilesStep ==
  ASSUME StoresTypeOK, PlaceInv, FilesInv, \A s \in Runs : RunInv(s), [StoresNext]_storeVars
  PROVE  FilesInv' /\ \A s \in Runs : RunInv(s)'
<1>1. ASSUME NEW r \in Runs, Step(r)
      PROVE  FilesInv' /\ \A s \in Runs : RunInv(s)'
  <2>1. CASE Begin(r)
    <3>1. Goes(r, "init", "load") /\ UNCHANGED <<todo, view, results, disk, kept, stale>>
      BY <2>1 DEF Begin, Enter, Goes
    <3>2. QED
      BY <3>1, FilesFrame
  <2>2. CASE ScanAdvisories(r)
    <3>1. Goes(r, "threat", "load") /\ UNCHANGED <<todo, view, results, disk, kept, stale>>
      BY <2>2 DEF ScanAdvisories, Enter, Goes
    <3>2. QED
      BY <3>1, FilesFrame
  <2>3. CASE CommitMetrics(r) \/ MetricsFail(r)
    <3>1. Goes(r, "done", "out") /\ UNCHANGED <<todo, view, results, disk, kept, stale>>
      BY <2>3 DEF CommitMetrics, MetricsFail, Enter, Goes
    <3>2. QED
      BY <3>1, FilesFrame
  <2>4. CASE ReadPrevious(r) \/ SelectRow(r)
    <3>1. PICK place \in {"select", "commit"} : at' = [at EXCEPT ![r] = place]
      BY <2>4 DEF ReadPrevious, SelectRow
    <3>2. /\ phase[r] = "metrics" /\ UNCHANGED phase
          /\ UNCHANGED <<todo, view, results, disk, kept, stale>>
      BY <2>4 DEF ReadPrevious, SelectRow
    <3>3. Goes(r, "metrics", place)
      BY <3>1, <3>2, StaysInHandler
    <3>4. QED
      BY <3>2, <3>3, FilesFrame
  <2>5. QED
    BY <1>1, <2>1, <2>2, <2>3, <2>4, LoadKeepsFiles, IngestKeepsFiles, ClosingKeepsFiles,
       LearningKeepsFiles, TruncatingKeepsFiles, WritingKeepsFiles DEF Step
<1>2. CASE Heartbeat \/ UNCHANGED storeVars
  <2>1. UNCHANGED <<runVars, disk, kept, stale>>
    BY <1>2 DEF Heartbeat, TickReads, TickWrites, storeVars, runVars
  <2>2. QED
    BY <2>1 DEF runVars, FilesInv, FileTypes, RunInv, RightEntries, KnowsKept, Entries
<1>3. CASE ProcessDies
  <2>1. \A r \in Runs : at'[r] = "out" /\ phase'[r] \in {"new", "done"}
    BY <1>3 DEF ProcessDies
  <2>2. \A r \in Runs : RunInv(r)'
    BY <2>1 DEF RunInv, RightEntries, KnowsKept
  <2>3. FilesInv'
    BY <1>3 DEF ProcessDies, FilesInv, FileTypes, Nothing
  <2>4. QED
    BY <2>2, <2>3
<1>4. QED
  BY <1>1, <1>2, <1>3, StoreCases

(* The process dies at most MaxCrashes times.                               *)
LEMMA CrashesStep ==
  ASSUME StoresTypeOK, [StoresNext]_storeVars
  PROVE  crashes' \in 0 .. MaxCrashes
<1>1. crashes \in 0 .. MaxCrashes /\ MaxCrashes \in Nat
  BY StoresAssumption DEF StoresAssumption, StoresTypeOK
<1>2. CASE ProcessDies
  BY <1>1, <1>2 DEF ProcessDies
<1>3. CASE Heartbeat \/ UNCHANGED storeVars
  BY <1>1, <1>3 DEF Heartbeat, TickReads, TickWrites, storeVars
<1>4. ASSUME NEW r \in Runs, Step(r)
      PROVE  UNCHANGED crashes
  BY <1>4 DEF Step, Begin, Load, Ingest, CloseIngestion, LearnFromCve, LearnFromScan,
              LearningOver, SaveTruncates, SaveWrites, ReadPrevious, SelectRow,
              CommitMetrics, MetricsFail, ScanAdvisories
<1>5. QED
  BY <1>1, <1>2, <1>3, <1>4, StoreCases

(* The stores and the runs as they start.                                   *)
LEMMA StoresStart ==
  ASSUME StoresInit
  PROVE  StoresInv
<1>1. StoresTypeOK
  <2>1. Cardinality(Runs) \in Nat /\ MaxCrashes \in Nat
    BY StoresAssumption, FS_CardinalityType DEF StoresAssumption
  <2>2. row \in [count : 0 .. Cardinality(Runs), last : Runs \cup {NoRun},
                 previous : Runs \cup {NoRun}]
    BY <2>1 DEF StoresInit
  <2>3. cursor \in Nat /\ crashes \in 0 .. MaxCrashes
    BY <2>1 DEF StoresInit
  <2>4. QED
    BY <2>2, <2>3, StoreNames DEF StoresInit, StoresTypeOK, Places, Nothing
<1>2. PlaceInv
  BY DEF StoresInit, PlaceInv
<1>3. EntriesInv /\ FreshInv
  BY DEF StoresInit, EntriesInv, FreshInv, RightEntries, KnowsKept, Files
<1>4. MemoryInv
  <2>1. Cardinality({}) = 0
    BY FS_EmptySet
  <2>2. seen \in [Runs -> [previous : recorded \cup {NoRun}, exists : BOOLEAN]]
    BY DEF StoresInit, Unseen
  <2>3. QED
    BY <2>1, <2>2, StoresAssumption DEF StoresAssumption, StoresInit, MemoryInv, MemoryIsHonest
<1>5. CursorInv
  BY IdleTyped DEF StoresInit, CursorInv
<1>6. QED
  BY <1>1, <1>2, <1>3, <1>4, <1>5 DEF StoresInv

(* The inductive invariant of what runs leave for each other.               *)
THEOREM StoresInvariant == StoresSpec => []StoresInv
<1>1. StoresInit => StoresInv
  BY StoresStart
<1>2. StoresInv /\ [StoresNext]_storeVars => StoresInv'
  <2> SUFFICES ASSUME StoresInv, [StoresNext]_storeVars
               PROVE  StoresInv'
    OBVIOUS
  <2>1. StoresTypeOK /\ PlaceInv /\ MemoryInv /\ CursorInv
    BY DEF StoresInv
  <2>2. FilesInv /\ \A s \in Runs : RunInv(s)
    BY FilesParts DEF StoresInv
  <2>3. FilesInv' /\ \A s \in Runs : RunInv(s)'
    BY <2>1, <2>2, FilesStep
  <2>4. EntriesInv' /\ FreshInv'
    BY <2>3, FilesPartsNext
  <2>5. /\ PlaceInv' /\ phase' \in [Runs -> {Phases[i] : i \in DOMAIN Phases}]
        /\ at' \in [Runs -> Places]
    BY <2>1, PlaceStep
  <2>6. MemoryInv' /\ row' \in [count : 0 .. Cardinality(Runs), last : Runs \cup {NoRun},
                                previous : Runs \cup {NoRun}]
    BY <2>1, MemoryStep
  <2>7. CursorInv' /\ cursor' \in Nat
    BY <2>1, CursorStep
  <2>8. crashes' \in 0 .. MaxCrashes
    BY <2>1, CrashesStep
  <2>9. StoresTypeOK'
    BY <2>3, <2>5, <2>6, <2>7, <2>8, StoreNames DEF FilesInv, FileTypes, StoresTypeOK
  <2>10. QED
    BY <2>4, <2>5, <2>6, <2>7, <2>9 DEF StoresInv
<1>3. QED
  BY <1>1, <1>2, PTL DEF StoresSpec

(* Type correctness of runs, objects, files and rows (StoresTypeOK).        *)
THEOREM StoresTypeCorrect == StoresSpec => []StoresTypeOK
<1>1. StoresInv => StoresTypeOK
  BY DEF StoresInv
<1>2. QED
  BY <1>1, StoresInvariant, PTL

(* The memory of a target counts the runs that were committed and compares  *)
(* two different ones, however many finish at once (MemoryIsHonest).        *)
THEOREM MemoryHonest == StoresSpec => []MemoryIsHonest
<1>1. StoresInv => MemoryIsHonest
  BY DEF StoresInv, MemoryInv
<1>2. QED
  BY <1>1, StoresInvariant, PTL

(* What was saved changes only when a run writes a file whole.              *)
LEMMA KeptCases ==
  ASSUME [StoresNext]_storeVars
  PROVE  UNCHANGED kept \/ \E r \in Runs : SaveWrites(r)
<1>1. ASSUME NEW r \in Runs, Step(r)
      PROVE  UNCHANGED kept \/ SaveWrites(r)
  BY <1>1 DEF Step, Begin, Load, Ingest, CloseIngestion, LearnFromCve, LearnFromScan,
              LearningOver, SaveTruncates, ReadPrevious, SelectRow, CommitMetrics,
              MetricsFail, ScanAdvisories
<1>2. CASE Heartbeat \/ ProcessDies \/ UNCHANGED storeVars
  BY <1>2 DEF Heartbeat, TickReads, TickWrites, ProcessDies, storeVars
<1>3. QED
  BY <1>1, <1>2, StoreCases

(* Nothing that the cache or the patterns once held is lost but by a run    *)
(* whose view of the file is stale (LossNeedsStaleView).                    *)
THEOREM LossExplained == StoresSpec => LossNeedsStaleView
<1>1. ASSUME StoresInv, [StoresNext]_storeVars, NEW f \in {"cves", "patterns"},
             ~(kept[f] \subseteq kept'[f])
      PROVE  \E r \in Runs : at[r] = "write" /\ FileOf(phase[r]) = f /\ stale[r]
  <2>1. PICK r \in Runs : SaveWrites(r)
    BY <1>1, KeptCases
  <2>2. at[r] = "write" /\ phase[r] \in FileHandlers
    BY <1>1, <2>1 DEF SaveWrites, StoresInv, PlaceInv
  <2>3. kept' = [kept EXCEPT ![FileOf(phase[r])] = Entries(r)]
    BY <1>1, <2>1 DEF SaveWrites
  <2>4. kept \in [Files -> SUBSET Entry] /\ f \in Files
    BY <1>1 DEF StoresInv, StoresTypeOK, Files
  <2>5. FileOf(phase[r]) = f /\ kept'[f] = Entries(r)
    BY <1>1, <2>3, <2>4
  <2>6. phase[r] \in {"cve", "threat"}
    BY <2>2, <2>5 DEF FileHandlers, FileOf
  <2>7. ~stale[r] => kept[f] \subseteq Entries(r)
    BY <1>1, <2>2, <2>5, <2>6 DEF StoresInv, FreshInv, KnowsKept
  <2>8. QED
    BY <1>1, <2>2, <2>5, <2>7
<1>2. StoresInv /\ [StoresNext]_storeVars =>
        [\A f \in {"cves", "patterns"} :
           ~(kept[f] \subseteq kept'[f]) =>
             \E r \in Runs : at[r] = "write" /\ FileOf(phase[r]) = f /\ stale[r]]_storeVars
  BY <1>1
<1>3. QED
  BY <1>2, StoresInvariant, PTL DEF StoresSpec, LossNeedsStaleView

(* The advisory count falls only when a scan stores its own or a tick that *)
(* another store overtook writes (CountsForwardUnlessOvertaken).            *)
THEOREM CountsForward == StoresSpec => CountsForwardUnlessOvertaken
<1>1. ASSUME StoresInv, [StoresNext]_storeVars, cursor' < cursor
      PROVE  \/ \E r \in Runs : phase[r] = "scan" /\ phase'[r] = "threat"
             \/ \E t \in Ticks : beat[t].overtaken /\ beat'[t].at = "over"
  <2>1. CursorInv /\ cursor \in Nat
    BY <1>1 DEF StoresInv, StoresTypeOK
  <2>2. cursor' # cursor
    BY <1>1, <2>1
  <2>3. ASSUME NEW t \in Ticks, TickWrites(t)
        PROVE  beat[t].overtaken /\ beat'[t].at = "over"
    <3>1. PICK n \in {beat[t].base, beat[t].base + 1} :
            StoreCursor(n) /\ beat' = [Overtaking(n) EXCEPT ![t] = Idle("over")]
      BY <2>2, <2>3 DEF TickWrites
    <3>2. beat[t].base \in Nat /\ beat[t].overtaken \in BOOLEAN
      BY <2>1 DEF CursorInv
    <3>3. beat[t].base < cursor
      BY <1>1, <2>1, <3>1, <3>2 DEF StoreCursor
    <3>4. beat[t].base # cursor /\ beat[t].at = "asking"
      BY <2>1, <2>3, <3>2, <3>3 DEF TickWrites
    <3>5. beat[t].overtaken
      BY <2>1, <3>4 DEF CursorInv
    <3>6. beat'[t] = Idle("over")
      BY <3>1 DEF Overtaking
    <3>7. QED
      BY <3>5, <3>6 DEF Idle
  <2>4. ASSUME NEW r \in Runs, ScanAdvisories(r)
        PROVE  phase[r] = "scan" /\ phase'[r] = "threat"
    BY <1>1, <2>4 DEF ScanAdvisories, Enter, StoresInv, StoresTypeOK
  <2>5. UNCHANGED hearts \/ ProcessDies \/ (\E t \in Ticks : TickReads(t)) => UNCHANGED cursor
    BY DEF TickReads, ProcessDies, hearts
  <2>6. QED
    BY <1>1, <2>2, <2>3, <2>4, <2>5, RowCases DEF Heartbeat
<1>2. StoresInv /\ [StoresNext]_storeVars =>
        [cursor' < cursor =>
           \/ \E r \in Runs : phase[r] = "scan" /\ phase'[r] = "threat"
           \/ \E t \in Ticks : beat[t].overtaken /\ beat'[t].at = "over"]_storeVars
  BY <1>1
<1>3. QED
  BY <1>2, StoresInvariant, PTL DEF StoresSpec, CountsForwardUnlessOvertaken
=============================================================================
