----------------------------- MODULE Scheduler -----------------------------
(***************************************************************************)
(* Recurring pentests (scheduler.py): one loop on the event loop of the     *)
(* control plane reads the due schedules and starts their runs one by one,  *)
(* while endpoints in other threads create and delete schedules and the     *)
(* process stops, crashes and comes back with nothing but the database.     *)
(*                                                                         *)
(* Time is wall-clock time, in units of the smallest interval; it passes    *)
(* between any two steps.  What a started run does is PentestRun.           *)
(***************************************************************************)
EXTENDS Naturals, FiniteSets, Functions

CONSTANTS
  Ids,        \* schedule ids; each is used once, as a uuid is
  Intervals,  \* intervals a schedule may ask for
  MaxTime,    \* bound: the clock stops there
  MaxFaults,  \* bound: store calls that raise
  MaxStarts   \* bound: starts of the process

ASSUME SchedulerAssumption ==
  /\ Intervals \subseteq Nat \ {0}
  /\ MaxTime \in Nat /\ MaxFaults \in Nat /\ MaxStarts \in Nat

Time == 0 .. MaxTime
\* A row of pentest_schedules; enabled is always 1, nothing in src/ clears it.
Schedule == [interval : Intervals, next : Nat]
\* A slot of a schedule that was taken: next_run_at was moved on for it.
Slot == [id : Ids, interval : Intervals, at : Time, listed : BOOLEAN,
         fate : {"pending", "started", "missed"}]
\* The loop sleeps, picks the next schedule of a tick, prepares its request,
\* or waits for the thread that starts the run.
Up == {"sleeping", "picking", "preparing", "waiting"}

VARIABLES
  clock,
  rows,    \* the schedules in the store
  created, \* ids ever given out
  pc,      \* where the loop is; "stopped": cancelled, the process not yet gone
  due,     \* the due schedules as the tick read them
  slots,   \* the slots taken so far and what became of each
  faults, starts

vars == <<clock, rows, created, pc, due, slots, faults, starts>>
bounds == <<faults, starts>>

Init ==
  /\ clock = 0 /\ rows = <<>> /\ created = {} /\ pc = "down" /\ due = {}
  /\ slots = {} /\ faults = 0 /\ starts = 0

Exists(id) == id \in DOMAIN rows
Pending == {s \in slots : s.fate = "pending"}
Settle(fate) == slots' = {[s EXCEPT !.fate = IF @ = "pending" THEN fate ELSE @] : s \in slots}

-----------------------------------------------------------------------------
(* The endpoints, in threads of their own                                   *)

CreateSchedule(id, interval) ==
  /\ pc \in Up /\ id \notin created
  /\ created' = created \cup {id}
  /\ rows' = [x \in DOMAIN rows \cup {id} |->
                IF x = id THEN [interval |-> interval, next |-> clock + interval]
                          ELSE rows[x]]
  /\ UNCHANGED <<clock, pc, due, slots, bounds>>

DeleteSchedule(id) ==
  /\ pc \in Up /\ Exists(id)
  /\ rows' = Restrict(rows, DOMAIN rows \ {id})
  /\ UNCHANGED <<clock, created, pc, due, slots, bounds>>

-----------------------------------------------------------------------------
(* The loop *)

DueNow == {id \in DOMAIN rows : rows[id].next <= clock}

Tick ==
  /\ pc = "sleeping" /\ pc' = "picking"
  /\ due' = {[id |-> id, interval |-> rows[id].interval, next |-> rows[id].next] :
               id \in DueNow}
  /\ UNCHANGED <<clock, rows, created, slots, bounds>>

(* Mutant: without the try in _loop the exception ends the loop's task.     *)
TickKillsLoop ==
  /\ pc \in {"sleeping", "picking"} /\ faults < MaxFaults
  /\ faults' = faults + 1
  /\ pc' = "ended" /\ due' = {}
  /\ UNCHANGED <<clock, rows, created, slots, starts>>

(* The query, or the update of one schedule, raises: _loop logs it, and the *)
(* rest of the tick is given up.                                           *)
TickFails ==
  /\ pc \in {"sleeping", "picking"} /\ faults < MaxFaults
  /\ pc = "picking" => due # {}
  /\ faults' = faults + 1
  /\ pc' = "sleeping" /\ due' = {}
  /\ UNCHANGED <<clock, rows, created, slots, starts>>

TickEnds ==
  /\ pc = "picking" /\ due = {} /\ pc' = "sleeping"
  /\ UNCHANGED <<clock, rows, created, due, slots, bounds>>

(* The slots of a schedule, taken in the order of next_run_at.  Its row,    *)
(* when it is still there, moves on before anything else happens.           *)
Take(s, next) ==
  /\ pc = "picking" /\ pc' = "preparing"
  /\ s \in due /\ \A t \in due : s.next <= t.next
  /\ rows' = IF Exists(s.id) THEN [rows EXCEPT ![s.id].next = next] ELSE rows
  /\ slots' = slots \cup {[id |-> s.id, interval |-> s.interval, at |-> clock,
                           listed |-> Exists(s.id), fate |-> "pending"]}
  /\ UNCHANGED <<clock, created, bounds>>

(* Mutants: the next slot counts from the one taken; the list is kept.      *)
TakeCatchingUp(s) == Take(s, s.next + s.interval) /\ due' = due \ {s}
TakeKeeping(s) == Take(s, clock + s.interval) /\ UNCHANGED due

TakeSlot(s) == Take(s, clock + s.interval) /\ due' = due \ {s}

(* The scope file is gone or no longer valid: the slot is lost.             *)
RefuseScope ==
  /\ pc = "preparing" /\ pc' = "picking"
  /\ Settle("missed")
  /\ UNCHANGED <<clock, rows, created, due, bounds>>

HandOver ==
  /\ pc = "preparing" /\ pc' = "waiting"
  /\ UNCHANGED <<clock, rows, created, due, slots, bounds>>

(* The pool's thread starts the run, or create_and_start raises.            *)
ThreadRuns(fate) ==
  /\ pc \in {"waiting", "stopped"} /\ Pending # {}
  /\ fate \in {"started", "missed"} /\ Settle(fate)
  /\ UNCHANGED <<clock, rows, created, pc, due, bounds>>

Resume ==
  /\ pc = "waiting" /\ Pending = {} /\ pc' = "picking"
  /\ UNCHANGED <<clock, rows, created, due, slots, bounds>>

-----------------------------------------------------------------------------
(* The process *)

Start ==
  /\ pc = "down" /\ starts < MaxStarts
  /\ starts' = starts + 1 /\ pc' = "sleeping"
  /\ UNCHANGED <<clock, rows, created, due, slots, faults>>

(* stop cancels the loop where it awaits.  A start that no thread of the    *)
(* pool has taken up is cancelled with it; one that runs, runs on.          *)
Stop(fate) ==
  /\ pc \in {"sleeping", "waiting"} /\ pc' = "stopped"
  /\ due' = {}
  /\ fate \in {"pending", "missed"} /\ Settle(fate)
  /\ UNCHANGED <<clock, rows, created, bounds>>

(* The interpreter joins the pool's threads before it exits.                *)
Exit ==
  /\ pc = "stopped" /\ Pending = {} /\ pc' = "down"
  /\ UNCHANGED <<clock, rows, created, due, slots, bounds>>

Crash ==
  /\ pc # "down" /\ pc' = "down" /\ due' = {}
  /\ Settle("missed")
  /\ UNCHANGED <<clock, rows, created, bounds>>

TimePasses ==
  /\ clock < MaxTime /\ clock' = clock + 1
  /\ UNCHANGED <<rows, created, pc, due, slots, bounds>>

Over == pc = "down" /\ starts = MaxStarts /\ UNCHANGED vars

-----------------------------------------------------------------------------
Endpoint == \E id \in Ids :
  DeleteSchedule(id) \/ \E interval \in Intervals : CreateSchedule(id, interval)
Loop == Tick \/ TickEnds \/ (\E s \in due : TakeSlot(s)) \/ RefuseScope \/ HandOver \/ Resume
Thread == \E fate \in {"started", "missed"} : ThreadRuns(fate)
Process == Start \/ (\E fate \in {"pending", "missed"} : Stop(fate)) \/ Exit \/ Crash

Next == Endpoint \/ Loop \/ TickFails \/ Thread \/ Process \/ TimePasses \/ Over

Spec == Init /\ [][Next]_vars

(* While the process is up its event loop and its pool run; asyncio.sleep   *)
(* ends.  Nothing makes time pass, a process start, stop or crash.          *)
FairSpec == Spec /\ WF_vars(Loop) /\ WF_vars(Thread)

-----------------------------------------------------------------------------
TypeOK ==
  /\ clock \in Time /\ created \subseteq Ids
  /\ DOMAIN rows \subseteq created /\ \A id \in DOMAIN rows : rows[id] \in Schedule
  /\ pc \in Up \cup {"stopped", "down"}
  /\ due \subseteq [id : Ids, interval : Intervals, next : Nat]
  /\ slots \subseteq Slot /\ faults \in 0 .. MaxFaults /\ starts \in 0 .. MaxStarts

(* Two runs of a schedule are an interval apart, over late ticks, failed    *)
(* ticks and restarts: a backlog is not worked off in a burst, and a slot   *)
(* that was taken is never taken again.                                    *)
SlotsAreSpaced ==
  \A s, t \in slots :
    s # t /\ s.id = t.id => s.at + s.interval <= t.at \/ t.at + t.interval <= s.at

(* A deleted schedule runs once more at the most: when the current tick had *)
(* read it before.                                                         *)
DeletedRunsOnce ==
  \A id \in created : ~Exists(id) =>
    Cardinality({s \in slots : s.id = id /\ ~s.listed})
      + Cardinality({s \in due : s.id = id}) <= 1

(* A schedule that is due is served, deleted, or the process goes away,     *)
(* however many ticks failed.                                              *)
DueIsServed ==
  \A id \in Ids : (id \in DueNow) ~> (id \notin DueNow \/ pc \in {"stopped", "down"})

-----------------------------------------------------------------------------
(* The inductive invariant behind SlotsAreSpaced and DeletedRunsOnce        *)
(* (AcrossRunsProofs).                                                      *)

KnownInv == \A s \in slots \cup due : s.id \in created

DueInv ==
  /\ \A s \in due : s.next <= clock
  /\ \A s, t \in due : s.id = t.id => s = t

\* A slot lies behind the time its schedule waits for, in the row and in the
\* list of the tick.
AheadInv ==
  \A s \in slots :
    /\ s.at <= clock
    /\ Exists(s.id) => s.at + s.interval <= rows[s.id].next
    /\ \A t \in due : s.id = t.id => s.at + s.interval <= t.next

\* A slot taken from a row that was gone is the last one of its schedule.
UnlistedInv ==
  \A s \in slots : ~s.listed =>
    /\ ~Exists(s.id)
    /\ \A t \in due : t.id # s.id
    /\ \A t \in slots : t.id = s.id /\ ~t.listed => t = s

(* Spaced slots, and what keeps the next one spaced.                        *)
SchedInv ==
  TypeOK /\ KnownInv /\ DueInv /\ AheadInv /\ UnlistedInv /\ SlotsAreSpaced
=============================================================================
