----------------------------- MODULE EventStream -----------------------------
(***************************************************************************)
(* The live events of one run: threads publish to the in-memory bus        *)
(* (event_bus.py) while the server's event loop serves SSE streams          *)
(* (control/api.py).  Neither the log nor the list of subscribers is        *)
(* locked.  publish walks the list itself, by index, and not a copy; the    *)
(* streams take turns, because they all live on one event loop.            *)
(***************************************************************************)
EXTENDS Naturals, Sequences, SequencesExt, FiniteSets

CONSTANTS
  Driver,     \* the run's own thread, which publishes run_completed last
  Workers,    \* threads the run joins before it does so
  Latecomers, \* threads it does not wait for: the patch agent's, abandoned ones
  Streams,    \* requests for the run's event stream
  Quota       \* bound: how many events each thread publishes

Publishers == {Driver} \cup Workers \cup Latecomers

ASSUME StreamAssumption ==
  /\ IsFiniteSet(Publishers) /\ IsFiniteSet(Streams)
  /\ Driver \notin Workers \cup Latecomers /\ Workers \cap Latecomers = {}
  /\ Quota \in [Publishers -> Nat \ {0}]

PCs   == {"requested", "replaying", "subscribed", "open", "closing", "closed", "gone",
          "leaked"}
Steps == {"idle", "logged", "putting", "dead"}
Event == UNION {[by : {p}, nr : 1 .. Quota[p]] : p \in Publishers}
Completed == [by |-> Driver, nr |-> Quota[Driver]]   \* run_completed, scan_completed

VARIABLES
  log,       \* _event_log[run_id]
  subs,      \* _subscribers[run_id]
  listed,    \* that list exists: defaultdict made it for a first subscriber
  queue,     \* per stream: its SimpleQueue
  pc,        \* per stream: where its endpoint or generator is
  replay,    \* per stream: position in the log of the replay
  shown,     \* per stream: events sent to the client
  step,      \* per publisher: where publish is
  next,      \* per publisher: position in the list of the iteration
  done,      \* per publisher: events it published
  missed     \* history: events an iteration passed a stream by with

publishing == <<step, next, done>>
vars == <<log, subs, listed, queue, pc, replay, shown, step, next, done,
          missed>>

Init ==
  /\ log = << >> /\ subs = << >> /\ listed = FALSE
  /\ queue = [s \in Streams |-> << >>] /\ shown = [s \in Streams |-> << >>]
  /\ pc = [s \in Streams |-> "requested"] /\ replay = [s \in Streams |-> 1]
  /\ step = [p \in Publishers |-> "idle"] /\ next = [p \in Publishers |-> 1]
  /\ done = [p \in Publishers |-> 0]
  /\ missed = {}

\* What publish has in hand.
InHand(p) == [by |-> p, nr |-> done[p] + 1]
Busy == {p \in Publishers : step[p] \in {"logged", "putting"}}
Received(s) == shown[s] \o queue[s]

-----------------------------------------------------------------------------
(* EventBus.publish *)

Returned(p) ==
  /\ step' = [step EXCEPT ![p] = "idle"]
  /\ done' = [done EXCEPT ![p] = @ + 1]
  /\ next' = [next EXCEPT ![p] = 1]

(* The run's thread joins its workers before its last event.                *)
Log(p) ==
  /\ step[p] = "idle" /\ done[p] < Quota[p]
  /\ InHand(p) = Completed
       => \A w \in Workers : step[w] = "idle" /\ done[w] = Quota[w]
  /\ log' = Append(log, InHand(p))
  /\ step' = [step EXCEPT ![p] = "logged"]
  /\ UNCHANGED <<subs, listed, queue, pc, replay, shown, next, done, missed>>

(* get(run_id, []): before the first subscriber there is no list to watch.  *)
Look(p) ==
  /\ step[p] = "logged"
  /\ IF listed THEN step' = [step EXCEPT ![p] = "putting"] /\ UNCHANGED <<next, done>>
               ELSE Returned(p)
  /\ UNCHANGED <<log, subs, listed, queue, pc, replay, shown, missed>>

Put(p) ==
  /\ step[p] = "putting" /\ next[p] <= Len(subs)
  /\ queue' = [queue EXCEPT ![subs[next[p]]] = Append(@, InHand(p))]
  /\ next' = [next EXCEPT ![p] = @ + 1]
  /\ UNCHANGED <<log, subs, listed, pc, replay, shown, step, done, missed>>

EndOfList(p) ==
  /\ step[p] = "putting" /\ next[p] > Len(subs)
  /\ Returned(p)
  /\ UNCHANGED <<log, subs, listed, queue, pc, replay, shown, missed>>

(* An exception the scan does not catch, or _build_response fails: the      *)
(* thread ends and its run is never announced.                             *)
Dies(p) ==
  /\ p = Driver /\ step[p] = "idle" /\ done[p] = Quota[p] - 1
  /\ step' = [step EXCEPT ![p] = "dead"]
  /\ UNCHANGED <<log, subs, listed, queue, pc, replay, shown, next, done, missed>>

-----------------------------------------------------------------------------
(* stream_pentest_events, stream_scan_events: one turn of the event loop    *)
(* each, except that other threads run between the steps of a replay.       *)

LoopFree == \A s \in Streams : pc[s] # "replaying"

(* Mutant: a stream that is already listed registers again.                 *)
SubscribeTwice(s) ==
  /\ pc[s] = "requested" /\ LoopFree
  /\ subs' = subs \o <<s, s>> /\ listed' = TRUE
  /\ pc' = [pc EXCEPT ![s] = "replaying"]
  /\ UNCHANGED <<log, queue, replay, shown, publishing, missed>>

Subscribe(s) ==
  /\ pc[s] = "requested" /\ LoopFree
  /\ subs' = Append(subs, s) /\ listed' = TRUE
  /\ pc' = [pc EXCEPT ![s] = "replaying"]
  /\ UNCHANGED <<log, queue, replay, shown, publishing, missed>>

(* Mutant: the replay stops at the first event that has come live.          *)
ReplayUntilLive(s) ==
  /\ pc[s] = "replaying" /\ replay[s] <= Len(log)
  /\ IF \E i \in 1 .. Len(queue[s]) : i >= replay[s] /\ queue[s][i] = log[replay[s]]
       THEN replay' = [replay EXCEPT ![s] = Len(log) + 1] /\ UNCHANGED queue
       ELSE /\ queue' = [queue EXCEPT ![s] = Append(@, log[replay[s]])]
            /\ replay' = [replay EXCEPT ![s] = @ + 1]
  /\ UNCHANGED <<log, subs, listed, pc, shown, publishing, missed>>

Replay(s) ==
  /\ pc[s] = "replaying" /\ replay[s] <= Len(log)
  /\ queue' = [queue EXCEPT ![s] = Append(@, log[replay[s]])]
  /\ replay' = [replay EXCEPT ![s] = @ + 1]
  /\ UNCHANGED <<log, subs, listed, pc, shown, publishing, missed>>

Subscribed(s) ==
  /\ pc[s] = "replaying" /\ replay[s] > Len(log)
  /\ pc' = [pc EXCEPT ![s] = "subscribed"]
  /\ replay' = [replay EXCEPT ![s] = 1]
  /\ UNCHANGED <<log, subs, listed, queue, shown, publishing, missed>>

(* A client that goes before its generator has started leaves the queue     *)
(* registered: the finally clause was never entered.                        *)
LeaveUnstarted(s) ==
  /\ pc[s] = "subscribed" /\ LoopFree
  /\ pc' = [pc EXCEPT ![s] = "leaked"]
  /\ UNCHANGED <<log, subs, listed, queue, replay, shown, publishing, missed>>

(* Mutant: the generator waits for None, which send_done would put.         *)
ReadOn(s) ==
  /\ pc[s] \in {"subscribed", "open"} /\ LoopFree /\ queue[s] # << >>
  /\ shown' = [shown EXCEPT ![s] = Append(@, Head(queue[s]))]
  /\ queue' = [queue EXCEPT ![s] = Tail(@)]
  /\ pc' = [pc EXCEPT ![s] = "open"]
  /\ UNCHANGED <<log, subs, listed, replay, publishing, missed>>

(* The generator sends the next event, and leaves its loop after            *)
(* run_completed.                                                          *)
Read(s) ==
  /\ pc[s] \in {"subscribed", "open"} /\ LoopFree /\ queue[s] # << >>
  /\ shown' = [shown EXCEPT ![s] = Append(@, Head(queue[s]))]
  /\ queue' = [queue EXCEPT ![s] = Tail(@)]
  /\ pc' = [pc EXCEPT ![s] = IF Head(queue[s]) = Completed THEN "closing" ELSE "open"]
  /\ UNCHANGED <<log, subs, listed, replay, publishing, missed>>

Disconnect(s) ==
  /\ pc[s] = "open" /\ LoopFree
  /\ pc' = [pc EXCEPT ![s] = "gone"]
  /\ UNCHANGED <<log, subs, listed, queue, replay, shown, publishing, missed>>

\* list.remove moves later streams down, one of them past an iteration's index.
PassedBy(s) ==
  {e \in Streams \X Event :
     \E p \in Publishers :
       /\ step[p] = "putting" /\ next[p] \in 1 .. Len(subs)
       /\ e = <<subs[next[p]], InHand(p)>>
       /\ \E i \in 1 .. next[p] - 1 : subs[i] = s}

(* The finally clause: unsubscribe.  Queue and generator are dropped, and   *)
(* what is on record about the stream with them.                            *)
Unsubscribe(s) ==
  /\ pc[s] \in {"closing", "gone"} /\ LoopFree
  /\ subs' = RemoveFirst(subs, s)
  /\ missed' = {e \in missed \cup PassedBy(s) : e[1] # s}
  /\ pc' = [pc EXCEPT ![s] = "closed"]
  /\ queue' = [queue EXCEPT ![s] = << >>] /\ shown' = [shown EXCEPT ![s] = << >>]
  /\ UNCHANGED <<log, listed, replay, publishing>>

-----------------------------------------------------------------------------
Publish(p) == Log(p) \/ Look(p) \/ Put(p) \/ EndOfList(p)
Serve(s) == Subscribe(s) \/ Replay(s) \/ Subscribed(s) \/ Read(s) \/ Unsubscribe(s)

Stopped ==
  /\ \A p \in Publishers : step[p] \in {"idle", "dead"}
  /\ \A s \in Streams :
       \/ pc[s] \in {"closed", "leaked"}
       \/ pc[s] \in {"subscribed", "open"} /\ queue[s] = << >>
  /\ UNCHANGED vars

Next ==
  \/ \E p \in Publishers : Publish(p) \/ Dies(p)
  \/ \E s \in Streams : Serve(s) \/ LeaveUnstarted(s) \/ Disconnect(s)
  \/ Stopped

Spec == Init /\ [][Next]_vars

(* Threads and the event loop keep running; nobody has to disconnect.       *)
Fairness ==
  /\ \A p \in Publishers : WF_vars(Publish(p))
  /\ \A s \in Streams : WF_vars(Serve(s))

FairSpec == Spec /\ Fairness

-----------------------------------------------------------------------------
TypeOK ==
  /\ log \in Seq(Event) /\ subs \in Seq(Streams) /\ listed \in BOOLEAN
  /\ queue \in [Streams -> Seq(Event)] /\ shown \in [Streams -> Seq(Event)]
  /\ pc \in [Streams -> PCs]
  /\ replay \in [Streams -> Nat \ {0}]
  /\ step \in [Publishers -> Steps]
  /\ next \in [Publishers -> Nat \ {0}] /\ done \in [Publishers -> Nat]
  /\ \A p \in Publishers : done[p] <= Quota[p]
  /\ missed \subseteq Streams \X Event
  /\ IsInjective(subs)

Delivered(e, s) == Contains(Received(s), e)
Given(e, s) == Delivered(e, s) \/ <<s, e>> \in missed
Published == {log[i] : i \in 1 .. Len(log)} \ {InHand(p) : p \in Busy}

(* event_bus.py:65: "Replay history after registering so nothing published  *)
(* between subscribe and replay is lost."  A registered stream has been     *)
(* given every published event, unless another stream left while the event *)
(* was handed out.                                                         *)
NothingElseIsLost ==
  \A s \in Streams : pc[s] \in {"subscribed", "open"}
    => \A e \in Published : Given(e, s)

(* Once a run is complete, every stream ends that has not been passed by    *)
(* with that news, however late it subscribed.                             *)
StreamsEnd ==
  \A s \in Streams :
    Contains(log, Completed) /\ pc[s] = "open"
      ~> \/ pc[s] = "closed"
         \/ <<s, Completed>> \in missed

(* tests/test_event_bus.py: "SimpleQueue must deliver every event."  When   *)
(* one of two streams closes while publish walks the list, the other one   *)
(* is passed by.                                                           *)
EveryEventDelivered ==
  \A s \in Streams : pc[s] \in {"subscribed", "open"}
    => \A e \in Published : Delivered(e, s)

-----------------------------------------------------------------------------
(* The inductive invariant behind NothingElseIsLost (EventStreamProofs)     *)

\* The list is what the streams made of it, and exists once one has come.
ListInv ==
  /\ \A s \in Streams : Contains(subs, s) <=> pc[s] \notin {"requested", "closed"}
  /\ \A s \in Streams : pc[s] # "requested" => listed

\* An event is logged before it is handed out, from the head of the list on.
PublishInv ==
  \A p \in Publishers :
    /\ p \in Busy => done[p] < Quota[p] /\ Contains(log, InHand(p))
    /\ step[p] # "putting" => next[p] = 1

\* A replay has queued what lies before it in the log.
Replayed(s) == {log[i] : i \in {j \in 1 .. Len(log) : j < replay[s]}}
ReplayInv ==
  \A s \in Streams :
    /\ IF pc[s] = "replaying" THEN replay[s] <= Len(log) + 1 ELSE replay[s] = 1
    /\ \A e \in Replayed(s) : Delivered(e, s)

\* So has an iteration for the streams it has behind it, or passed them by.
Behind(p) == {subs[j] : j \in {k \in 1 .. Len(subs) : k < next[p]}}
WalkInv ==
  \A p \in Publishers : step[p] = "putting" =>
    \A s \in Behind(p) : pc[s] \in {"subscribed", "open"}
      => \A e \in {InHand(p)} : Given(e, s)

StreamInv ==
  /\ TypeOK /\ ListInv /\ PublishInv /\ ReplayInv /\ WalkInv /\ NothingElseIsLost
=============================================================================
