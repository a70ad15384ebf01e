------------------------- MODULE EventStreamProofs -------------------------
(***************************************************************************)
(* Proofs about EventStream: for any threads and streams, and whatever     *)
(* each thread publishes, the inductive invariant StreamInv holds, and with *)
(* it that a stream loses an event only to the departure of another stream. *)
(***************************************************************************)
EXTENDS EventStream, SequenceTheorems, TLAPS

-----------------------------------------------------------------------------
(* Queues, the log and the list of subscribers as sequences                 *)

(* What a sequence contains after an append.                                *)
LEMMA AppendContains ==
  ASSUME NEW S, NEW q \in Seq(S), NEW e \in S
  PROVE  /\ Append(q, e) \in Seq(S) /\ Len(Append(q, e)) = Len(q) + 1
         /\ \A i \in 1 .. Len(q) : Append(q, e)[i] = q[i]
         /\ Append(q, e)[Len(q) + 1] = e
         /\ \A f : Contains(Append(q, e), f) <=> Contains(q, f) \/ f = e
<1>1. /\ Append(q, e) \in Seq(S) /\ Len(Append(q, e)) = Len(q) + 1 /\ Len(q) \in Nat
      /\ \A i \in 1 .. Len(q) : Append(q, e)[i] = q[i]
      /\ Append(q, e)[Len(q) + 1] = e
  BY AppendProperties, LenProperties
<1>2. QED
  BY <1>1 DEF Contains

(* What it contains when its head is taken.                                 *)
LEMMA TakeContains ==
  ASSUME NEW S, NEW q \in Seq(S), q # << >>
  PROVE  /\ Head(q) \in S /\ Tail(q) \in Seq(S)
         /\ \A f : Contains(q, f) => f = Head(q) \/ Contains(Tail(q), f)
<1>1. /\ Len(q) \in Nat \ {0} /\ Head(q) = q[1] /\ Head(q) \in S /\ Tail(q) \in Seq(S)
      /\ Len(Tail(q)) = Len(q) - 1 /\ \A i \in 1 .. Len(Tail(q)) : Tail(q)[i] = q[i + 1]
  BY HeadTailProperties, LenProperties, EmptySeq
<1>2. ASSUME NEW i \in 1 .. Len(q), i # 1
      PROVE  i - 1 \in 1 .. Len(Tail(q)) /\ Tail(q)[i - 1] = q[i]
  BY <1>1, <1>2
<1>3. QED
  BY <1>1, <1>2 DEF Contains

(* What two sequences contain together.                                     *)
LEMMA ConcatContains ==
  ASSUME NEW S, NEW q \in Seq(S), NEW r \in Seq(S), NEW f
  PROVE  Contains(q \o r, f) <=> Contains(q, f) \/ Contains(r, f)
<1>1. /\ Len(q \o r) = Len(q) + Len(r) /\ Len(q) \in Nat /\ Len(r) \in Nat
      /\ \A i \in 1 .. Len(q) + Len(r) :
           (q \o r)[i] = IF i <= Len(q) THEN q[i] ELSE r[i - Len(q)]
  BY ConcatProperties, LenProperties
<1>2. ASSUME NEW i \in 1 .. Len(r)
      PROVE  i + Len(q) \in 1 .. Len(q \o r) /\ (q \o r)[i + Len(q)] = r[i]
  BY <1>1
<1>3. ASSUME NEW i \in 1 .. Len(q)
      PROVE  i \in 1 .. Len(q \o r) /\ (q \o r)[i] = q[i]
  BY <1>1
<1>4. ASSUME NEW i \in 1 .. Len(q \o r)
      PROVE  \/ i \in 1 .. Len(q) /\ (q \o r)[i] = q[i]
             \/ i - Len(q) \in 1 .. Len(r) /\ (q \o r)[i] = r[i - Len(q)]
  BY <1>1
<1>5. QED
  BY <1>2, <1>3, <1>4 DEF Contains

(* list.remove of an element that occurs once: what follows moves down.     *)
LEMMA RemoveMovesDown ==
  ASSUME NEW S, NEW t \in Seq(S), IsInjective(t), NEW i \in 1 .. Len(t)
  PROVE  /\ RemoveFirst(t, t[i]) \in Seq(S) /\ Len(RemoveFirst(t, t[i])) = Len(t) - 1
         /\ \A j \in 1 .. Len(t) - 1 :
              RemoveFirst(t, t[i])[j] = IF j < i THEN t[j] ELSE t[j + 1]
<1>1. Len(t) \in Nat /\ DOMAIN t = 1 .. Len(t) /\ t \in [1 .. Len(t) -> S]
  BY LenProperties
<1>2. {j \in 1 .. Len(t) : t[j] = t[i]} = {i}
  BY <1>1 DEF IsInjective
<1>3. Min({i}) = i
  BY <1>1 DEF Min
<1>4. SelectInSeq(t, LAMBDA v : v = t[i]) = i
  BY <1>2, <1>3 DEF SelectInSeq
<1>5. RemoveFirst(t, t[i]) = SubSeq(t, 1, i - 1) \o SubSeq(t, i + 1, Len(t))
  BY <1>4 DEF RemoveFirst, RemoveAt
<1> DEFINE a == SubSeq(t, 1, i - 1)
           z == SubSeq(t, i + 1, Len(t))
<1>6. a \in Seq(S) /\ Len(a) = i - 1 /\ \A j \in 1 .. i - 1 : a[j] = t[j]
  <2>1. \A j \in 1 .. i - 1 : t[j] \in S
    BY <1>1
  <2>2. QED
    BY <1>1, <2>1, SubSeqProperties
<1>7. z \in Seq(S) /\ Len(z) = Len(t) - i /\ \A j \in 1 .. Len(t) - i : z[j] = t[i + j]
  <2>1. \A j \in i + 1 .. Len(t) : t[j] \in S
    BY <1>1
  <2>2. QED
    BY <1>1, <2>1, SubSeqProperties
<1>8. RemoveFirst(t, t[i]) = a \o z
  BY <1>5
<1> HIDE DEF a, z
<1>9. /\ a \o z \in Seq(S) /\ Len(a \o z) = Len(t) - 1
      /\ \A j \in 1 .. Len(t) - 1 : (a \o z)[j] = IF j < i THEN a[j] ELSE z[j - i + 1]
  <2>1. Len(a \o z) = Len(a) + Len(z) /\ a \o z \in Seq(S)
        /\ \A j \in 1 .. Len(a) + Len(z) :
             (a \o z)[j] = IF j <= Len(a) THEN a[j] ELSE z[j - Len(a)]
    BY <1>6, <1>7, ConcatProperties
  <2>2. QED
    BY <1>1, <1>6, <1>7, <2>1
<1>10. ASSUME NEW j \in 1 .. Len(t) - 1
       PROVE  (a \o z)[j] = IF j < i THEN t[j] ELSE t[j + 1]
  <2>1. CASE j < i
    BY <1>1, <1>6, <1>9, <2>1
  <2>2. CASE ~(j < i)
    <3>1. j - i + 1 \in 1 .. Len(t) - i /\ i + (j - i + 1) = j + 1
      BY <1>1, <2>2
    <3>2. QED
      BY <1>1, <1>7, <1>9, <2>2, <3>1
  <2>3. QED
    BY <1>1, <2>1, <2>2
<1>11. QED
  BY <1>8, <1>9, <1>10

-----------------------------------------------------------------------------
(* What each step does                                                      *)

(* What publish has in hand is an event.                                    *)
LEMMA HandIsEvent ==
  ASSUME TypeOK, NEW p \in Publishers, done[p] < Quota[p]
  PROVE  InHand(p) \in Event
<1>1. Quota[p] \in Nat /\ done[p] + 1 \in 1 .. Quota[p]
  BY StreamAssumption DEF StreamAssumption, TypeOK
<1>2. InHand(p) \in [by : {p}, nr : 1 .. Quota[p]]
  BY <1>1 DEF InHand
<1>3. QED
  BY <1>2 DEF Event

(* A stream has been delivered what its client was sent and what is queued. *)
LEMMA DeliveredParts ==
  ASSUME TypeOK, NEW s \in Streams, NEW e
  PROVE  Delivered(e, s) <=> Contains(shown[s], e) \/ Contains(queue[s], e)
<1>1. shown[s] \in Seq(Event) /\ queue[s] \in Seq(Event)
  BY DEF TypeOK
<1>2. QED
  BY <1>1, ConcatContains DEF Delivered, Received

LEMMA DeliveredPartsNext ==
  ASSUME TypeOK', NEW s \in Streams, NEW e
  PROVE  Delivered(e, s)' <=> Contains(shown'[s], e) \/ Contains(queue'[s], e)
<1>1. shown'[s] \in Seq(Event) /\ queue'[s] \in Seq(Event)
  BY DEF TypeOK
<1>2. QED
  BY <1>1, ConcatContains DEF Delivered, Received

(* One entry of a function changes.                                         *)
LEMMA OneChanges ==
  ASSUME NEW A, NEW B, NEW f \in [A -> B], NEW a \in A, NEW b \in B
  PROVE  /\ [f EXCEPT ![a] = b] \in [A -> B] /\ [f EXCEPT ![a] = b][a] = b
         /\ \A c \in A \ {a} : [f EXCEPT ![a] = b][c] = f[c]
OBVIOUS

LEMMA LogFacts ==
  ASSUME TypeOK, NEW p \in Publishers, Log(p)
  PROVE  /\ step[p] = "idle" /\ done[p] < Quota[p]
         /\ log' \in Seq(Event) /\ Len(log') = Len(log) + 1 /\ Len(log) \in Nat
         /\ \A i \in 1 .. Len(log) : log'[i] = log[i]
         /\ log'[Len(log) + 1] = InHand(p)
         /\ \A f : Contains(log', f) <=> Contains(log, f) \/ f = InHand(p)
         /\ step' \in [Publishers -> Steps]
         /\ step'[p] = "logged" /\ \A q \in Publishers \ {p} : step'[q] = step[q]
         /\ UNCHANGED <<subs, listed, queue, pc, replay, shown, next, done, missed>>
<1>1. step[p] = "idle" /\ done[p] < Quota[p] /\ log' = Append(log, InHand(p))
      /\ step' = [step EXCEPT ![p] = "logged"]
      /\ UNCHANGED <<subs, listed, queue, pc, replay, shown, next, done, missed>>
  BY DEF Log
<1>2. InHand(p) \in Event /\ log \in Seq(Event)
  BY <1>1, HandIsEvent DEF TypeOK
<1>3. Len(log) \in Nat
  BY <1>2, LenProperties
<1>4. /\ step' \in [Publishers -> Steps]
      /\ step'[p] = "logged" /\ \A q \in Publishers \ {p} : step'[q] = step[q]
  BY <1>1 DEF TypeOK, Steps
<1>5. QED
  BY <1>1, <1>2, <1>3, <1>4, AppendContains

(* publish looks for the list, comes to its end, or hands the event out.    *)
LEMMA WalkFacts ==
  ASSUME TypeOK, PublishInv, NEW p \in Publishers, Look(p) \/ EndOfList(p)
  PROVE  /\ step[p] \in {"logged", "putting"} /\ done[p] < Quota[p]
         /\ step' \in [Publishers -> Steps]
         /\ next' \in [Publishers -> Nat \ {0}] /\ done' \in [Publishers -> Nat]
         /\ \A q \in Publishers \ {p} : step'[q] = step[q] /\ next'[q] = next[q] /\ done'[q] = done[q]
         /\ \/ /\ step[p] = "logged" /\ step'[p] = "putting" /\ next'[p] = 1 /\ done' = done
            \/ /\ step'[p] = "idle" /\ next'[p] = 1 /\ done'[p] = done[p] + 1
               /\ \/ step[p] = "logged" /\ ~listed
                  \/ step[p] = "putting" /\ next[p] > Len(subs)
         /\ UNCHANGED <<log, subs, listed, queue, pc, replay, shown, missed>>
<1>1. step[p] \in {"logged", "putting"}
      /\ UNCHANGED <<log, subs, listed, queue, pc, replay, shown, missed>>
  BY DEF Look, EndOfList
<1>2. done[p] < Quota[p]
  BY <1>1 DEF PublishInv, Busy
<1>3. CASE Returned(p)
  <2>1. step' = [step EXCEPT ![p] = "idle"] /\ done' = [done EXCEPT ![p] = done[p] + 1]
        /\ next' = [next EXCEPT ![p] = 1]
    BY <1>3 DEF Returned
  <2>2. /\ step' \in [Publishers -> Steps]
        /\ next' \in [Publishers -> Nat \ {0}] /\ done' \in [Publishers -> Nat]
        /\ step'[p] = "idle" /\ next'[p] = 1 /\ done'[p] = done[p] + 1
        /\ \A q \in Publishers \ {p} : step'[q] = step[q] /\ next'[q] = next[q] /\ done'[q] = done[q]
    BY <2>1 DEF TypeOK, Steps
  <2>3. \/ step[p] = "logged" /\ ~listed
        \/ step[p] = "putting" /\ next[p] > Len(subs)
    <3>1. step'[p] # "putting"
      BY <2>2
    <3>2. QED
      BY <3>1, <2>2 DEF Look, EndOfList, TypeOK
  <2>4. QED
    BY <1>1, <1>2, <2>2, <2>3
<1>4. CASE ~Returned(p)
  <2>1. step[p] = "logged" /\ step' = [step EXCEPT ![p] = "putting"] /\ UNCHANGED <<next, done>>
    BY <1>4 DEF Look, EndOfList
  <2>2. /\ step' \in [Publishers -> Steps]
        /\ step'[p] = "putting" /\ \A q \in Publishers \ {p} : step'[q] = step[q]
    BY <2>1 DEF TypeOK, Steps
  <2>3. next[p] = 1
    BY <2>1 DEF PublishInv
  <2>4. QED
    BY <1>1, <1>2, <2>1, <2>2, <2>3 DEF TypeOK
<1>5. QED
  BY <1>3, <1>4

LEMMA PutFacts ==
  ASSUME TypeOK, PublishInv, NEW p \in Publishers, Put(p)
  PROVE  /\ step[p] = "putting" /\ next[p] \in 1 .. Len(subs) /\ subs[next[p]] \in Streams
         /\ queue' \in [Streams -> Seq(Event)]
         /\ \A f : Contains(queue'[subs[next[p]]], f)
                     <=> Contains(queue[subs[next[p]]], f) \/ f = InHand(p)
         /\ \A s \in Streams : s # subs[next[p]] => queue'[s] = queue[s]
         /\ next' \in [Publishers -> Nat \ {0}] /\ next'[p] = next[p] + 1
         /\ \A q \in Publishers \ {p} : next'[q] = next[q]
         /\ UNCHANGED <<log, subs, listed, pc, replay, shown, step, done, missed>>
<1> DEFINE s == subs[next[p]]
<1>1. /\ step[p] = "putting" /\ next[p] <= Len(subs)
      /\ queue' = [queue EXCEPT ![s] = Append(queue[s], InHand(p))]
      /\ next' = [next EXCEPT ![p] = next[p] + 1]
      /\ UNCHANGED <<log, subs, listed, pc, replay, shown, step, done, missed>>
  BY DEF Put
<1>2. next[p] \in 1 .. Len(subs) /\ s \in Streams
  <2>1. subs \in Seq(Streams) /\ next[p] \in Nat \ {0}
    BY DEF TypeOK
  <2>2. next[p] \in 1 .. Len(subs)
    BY <1>1, <2>1, LenProperties
  <2>3. QED
    BY <2>1, <2>2, ElementOfSeq
<1> HIDE DEF s
<1>3. InHand(p) \in Event
  BY <1>1, HandIsEvent DEF PublishInv, Busy
<1>4. /\ Append(queue[s], InHand(p)) \in Seq(Event)
      /\ \A f : Contains(Append(queue[s], InHand(p)), f) <=> Contains(queue[s], f) \/ f = InHand(p)
  <2>1. queue[s] \in Seq(Event)
    BY <1>2 DEF TypeOK
  <2>2. QED
    BY <1>3, <2>1, AppendContains
<1>5. /\ queue' \in [Streams -> Seq(Event)] /\ queue'[s] = Append(queue[s], InHand(p))
      /\ \A t \in Streams : t # s => queue'[t] = queue[t]
  BY <1>1, <1>2, <1>4 DEF TypeOK
<1>6. /\ next' \in [Publishers -> Nat \ {0}] /\ next'[p] = next[p] + 1
      /\ \A q \in Publishers \ {p} : next'[q] = next[q]
  BY <1>1 DEF TypeOK
<1>7. QED
  BY <1>1, <1>2, <1>4, <1>5, <1>6 DEF s

LEMMA DiesFacts ==
  ASSUME TypeOK, NEW p \in Publishers, Dies(p)
  PROVE  /\ step[p] = "idle"
         /\ step' \in [Publishers -> Steps]
         /\ step'[p] = "dead" /\ \A q \in Publishers \ {p} : step'[q] = step[q]
         /\ UNCHANGED <<log, subs, listed, queue, pc, replay, shown, next, done, missed>>
BY DEF Dies, TypeOK, Steps

LEMMA SubscribeFacts ==
  ASSUME TypeOK, NEW s \in Streams, Subscribe(s)
  PROVE  /\ pc[s] = "requested" /\ LoopFree
         /\ subs' \in Seq(Streams) /\ Len(subs') = Len(subs) + 1 /\ Len(subs) \in Nat
         /\ \A i \in 1 .. Len(subs) : subs'[i] = subs[i]
         /\ subs'[Len(subs) + 1] = s /\ listed'
         /\ \A t : Contains(subs', t) <=> Contains(subs, t) \/ t = s
         /\ pc' \in [Streams -> PCs] /\ pc'[s] = "replaying"
         /\ \A t \in Streams \ {s} : pc'[t] = pc[t]
         /\ UNCHANGED <<log, queue, replay, shown, publishing, missed>>
<1>1. pc[s] = "requested" /\ LoopFree /\ subs' = Append(subs, s) /\ listed' = TRUE
      /\ pc' = [pc EXCEPT ![s] = "replaying"]
      /\ UNCHANGED <<log, queue, replay, shown, publishing, missed>>
  BY DEF Subscribe
<1>2. subs \in Seq(Streams) /\ Len(subs) \in Nat
  BY LenProperties DEF TypeOK
<1>3. /\ pc' \in [Streams -> PCs] /\ pc'[s] = "replaying"
      /\ \A t \in Streams \ {s} : pc'[t] = pc[t]
  BY <1>1 DEF TypeOK, PCs
<1>4. QED
  BY <1>1, <1>2, <1>3, AppendContains

LEMMA ReplayFacts ==
  ASSUME TypeOK, NEW s \in Streams, Replay(s)
  PROVE  /\ pc[s] = "replaying" /\ replay[s] \in 1 .. Len(log) /\ Len(log) \in Nat
         /\ queue' \in [Streams -> Seq(Event)]
         /\ \A f : Contains(queue'[s], f) <=> Contains(queue[s], f) \/ f = log[replay[s]]
         /\ replay' \in [Streams -> Nat \ {0}] /\ replay'[s] = replay[s] + 1
         /\ \A t \in Streams \ {s} : queue'[t] = queue[t] /\ replay'[t] = replay[t]
         /\ UNCHANGED <<log, subs, listed, pc, shown, publishing, missed>>
<1>1. /\ pc[s] = "replaying" /\ replay[s] <= Len(log)
      /\ queue' = [queue EXCEPT ![s] = Append(queue[s], log[replay[s]])]
      /\ replay' = [replay EXCEPT ![s] = replay[s] + 1]
      /\ UNCHANGED <<log, subs, listed, pc, shown, publishing, missed>>
  BY DEF Replay
<1>2. log \in Seq(Event) /\ Len(log) \in Nat /\ replay[s] \in Nat \ {0} /\ queue[s] \in Seq(Event)
  BY LenProperties DEF TypeOK
<1>3. replay[s] \in 1 .. Len(log)
  BY <1>1, <1>2
<1>4. log[replay[s]] \in Event
  BY <1>2, <1>3, ElementOfSeq
<1>5. /\ Append(queue[s], log[replay[s]]) \in Seq(Event)
      /\ \A f : Contains(Append(queue[s], log[replay[s]]), f)
                  <=> Contains(queue[s], f) \/ f = log[replay[s]]
  BY <1>2, <1>4, AppendContains
<1>6. /\ queue' \in [Streams -> Seq(Event)] /\ queue'[s] = Append(queue[s], log[replay[s]])
      /\ \A t \in Streams \ {s} : queue'[t] = queue[t]
  BY <1>1, <1>5 DEF TypeOK
<1>7. /\ replay' \in [Streams -> Nat \ {0}] /\ replay'[s] = replay[s] + 1
      /\ \A t \in Streams \ {s} : replay'[t] = replay[t]
  BY <1>1, <1>2 DEF TypeOK
<1>8. QED
  BY <1>1, <1>2, <1>3, <1>5, <1>6, <1>7

LEMMA SubscribedFacts ==
  ASSUME TypeOK, NEW s \in Streams, Subscribed(s)
  PROVE  /\ pc[s] = "replaying" /\ replay[s] > Len(log)
         /\ pc' \in [Streams -> PCs] /\ pc'[s] = "subscribed"
         /\ replay' \in [Streams -> Nat \ {0}] /\ replay'[s] = 1
         /\ \A t \in Streams \ {s} : pc'[t] = pc[t] /\ replay'[t] = replay[t]
         /\ UNCHANGED <<log, subs, listed, queue, shown, publishing, missed>>
BY DEF Subscribed, TypeOK, PCs

(* A client leaves, before its generator has started or after.              *)
LEMMA LeaveFacts ==
  ASSUME TypeOK, NEW s \in Streams, LeaveUnstarted(s) \/ Disconnect(s)
  PROVE  /\ pc[s] \in {"subscribed", "open"}
         /\ pc' \in [Streams -> PCs] /\ pc'[s] \in {"leaked", "gone"}
         /\ \A t \in Streams \ {s} : pc'[t] = pc[t]
         /\ UNCHANGED <<log, subs, listed, queue, replay, shown, publishing, missed>>
BY DEF LeaveUnstarted, Disconnect, TypeOK, PCs

LEMMA ReadFacts ==
  ASSUME TypeOK, NEW s \in Streams, Read(s)
  PROVE  /\ pc[s] \in {"subscribed", "open"} /\ LoopFree
         /\ pc' \in [Streams -> PCs] /\ pc'[s] \in {"closing", "open"}
         /\ queue' \in [Streams -> Seq(Event)] /\ shown' \in [Streams -> Seq(Event)]
         /\ \A f : Contains(shown[s], f) \/ Contains(queue[s], f)
                     => Contains(shown'[s], f) \/ Contains(queue'[s], f)
         /\ \A t \in Streams \ {s} :
              pc'[t] = pc[t] /\ queue'[t] = queue[t] /\ shown'[t] = shown[t]
         /\ UNCHANGED <<log, subs, listed, replay, publishing, missed>>
<1>1. /\ pc[s] \in {"subscribed", "open"} /\ LoopFree /\ queue[s] # << >>
      /\ shown' = [shown EXCEPT ![s] = Append(shown[s], Head(queue[s]))]
      /\ queue' = [queue EXCEPT ![s] = Tail(queue[s])]
      /\ pc' = [pc EXCEPT ![s] = IF Head(queue[s]) = Completed THEN "closing" ELSE "open"]
      /\ UNCHANGED <<log, subs, listed, replay, publishing, missed>>
  BY DEF Read
<1>2. queue[s] \in Seq(Event) /\ shown[s] \in Seq(Event)
  BY DEF TypeOK
<1>3. /\ Head(queue[s]) \in Event /\ Tail(queue[s]) \in Seq(Event)
      /\ \A f : Contains(queue[s], f) => f = Head(queue[s]) \/ Contains(Tail(queue[s]), f)
  BY <1>1, <1>2, TakeContains
<1>4. /\ Append(shown[s], Head(queue[s])) \in Seq(Event)
      /\ \A f : Contains(Append(shown[s], Head(queue[s])), f)
                  <=> Contains(shown[s], f) \/ f = Head(queue[s])
  BY <1>2, <1>3, AppendContains
<1>5. /\ queue' \in [Streams -> Seq(Event)] /\ queue'[s] = Tail(queue[s])
      /\ \A t \in Streams \ {s} : queue'[t] = queue[t]
  BY <1>1, <1>3 DEF TypeOK
<1>6. /\ shown' \in [Streams -> Seq(Event)] /\ shown'[s] = Append(shown[s], Head(queue[s]))
      /\ \A t \in Streams \ {s} : shown'[t] = shown[t]
  BY <1>1, <1>4 DEF TypeOK
<1>7. /\ pc' \in [Streams -> PCs] /\ pc'[s] \in {"closing", "open"}
      /\ \A t \in Streams \ {s} : pc'[t] = pc[t]
  BY <1>1 DEF TypeOK, PCs
<1>8. QED
  BY <1>1, <1>3, <1>4, <1>5, <1>6, <1>7

LEMMA UnsubscribeFacts ==
  ASSUME TypeOK, ListInv, NEW s \in Streams, Unsubscribe(s)
  PROVE  /\ pc[s] \in {"closing", "gone"} /\ LoopFree
         /\ \E i \in 1 .. Len(subs) :
              /\ subs[i] = s /\ Len(subs') = Len(subs) - 1
              /\ \A j \in 1 .. Len(subs) - 1 : subs'[j] = IF j < i THEN subs[j] ELSE subs[j + 1]
         /\ subs' \in Seq(Streams) /\ Len(subs) \in Nat
         /\ missed' = {e \in missed \cup PassedBy(s) : e[1] # s}
         /\ pc' \in [Streams -> PCs] /\ pc'[s] = "closed"
         /\ queue' \in [Streams -> Seq(Event)] /\ shown' \in [Streams -> Seq(Event)]
         /\ queue'[s] = << >> /\ shown'[s] = << >>
         /\ \A t \in Streams \ {s} :
              pc'[t] = pc[t] /\ queue'[t] = queue[t] /\ shown'[t] = shown[t]
         /\ UNCHANGED <<log, listed, replay, publishing>>
<1>1. /\ pc[s] \in {"closing", "gone"} /\ LoopFree /\ subs' = RemoveFirst(subs, s)
      /\ missed' = {e \in missed \cup PassedBy(s) : e[1] # s}
      /\ pc' = [pc EXCEPT ![s] = "closed"]
      /\ queue' = [queue EXCEPT ![s] = << >>] /\ shown' = [shown EXCEPT ![s] = << >>]
      /\ UNCHANGED <<log, listed, replay, publishing>>
  BY DEF Unsubscribe
<1>2. PICK i \in 1 .. Len(subs) : subs[i] = s
  BY <1>1 DEF ListInv, Contains
<1>3. subs \in Seq(Streams) /\ IsInjective(subs) /\ Len(subs) \in Nat
  BY LenProperties DEF TypeOK
<1>4. /\ subs' \in Seq(Streams) /\ Len(subs') = Len(subs) - 1
      /\ \A j \in 1 .. Len(subs) - 1 : subs'[j] = IF j < i THEN subs[j] ELSE subs[j + 1]
  BY <1>1, <1>2, <1>3, RemoveMovesDown
<1>5. << >> \in Seq(Event)
  BY EmptySeq
<1>6. /\ pc' \in [Streams -> PCs] /\ pc'[s] = "closed"
      /\ queue' \in [Streams -> Seq(Event)] /\ shown' \in [Streams -> Seq(Event)]
      /\ queue'[s] = << >> /\ shown'[s] = << >>
      /\ \A t \in Streams \ {s} :
           pc'[t] = pc[t] /\ queue'[t] = queue[t] /\ shown'[t] = shown[t]
  BY <1>1, <1>5 DEF TypeOK, PCs
<1>7. QED
  BY <1>1, <1>2, <1>3, <1>4, <1>6

(* A step of a publisher, of a stream, or none.                             *)
LEMMA Moves ==
  ASSUME [Next]_vars
  PROVE  \/ \E p \in Publishers : Log(p) \/ Look(p) \/ EndOfList(p) \/ Put(p) \/ Dies(p)
         \/ \E s \in Streams : \/ Subscribe(s) \/ Replay(s) \/ Subscribed(s) \/ Read(s)
                               \/ Unsubscribe(s) \/ LeaveUnstarted(s) \/ Disconnect(s)
         \/ UNCHANGED vars
BY DEF Next, Publish, Serve, Stopped

-----------------------------------------------------------------------------
(* Types, the list of subscribers and what a publisher has in hand          *)

LEMMA TypeStep ==
  ASSUME TypeOK, ListInv, PublishInv, [Next]_vars
  PROVE  TypeOK'
<1>1. ASSUME NEW p \in Publishers, Log(p) \/ Dies(p)
      PROVE  TypeOK'
  BY <1>1, LogFacts, DiesFacts DEF TypeOK
<1>2. ASSUME NEW p \in Publishers, Look(p) \/ EndOfList(p)
      PROVE  TypeOK'
  <2>1. \A q \in Publishers : Quota[q] \in Nat /\ done[q] \in Nat
    BY StreamAssumption DEF StreamAssumption, TypeOK
  <2>2. ASSUME NEW q \in Publishers
        PROVE  done'[q] <= Quota[q]
    <3>1. \/ done'[q] = done[q]
          \/ done'[q] = done[q] + 1 /\ done[q] < Quota[q]
      BY <1>2, WalkFacts
    <3>2. done[q] <= Quota[q]
      BY DEF TypeOK
    <3>3. QED
      BY <2>1, <3>1, <3>2
  <2>3. QED
    BY <1>2, <2>2, WalkFacts DEF TypeOK
<1>3. ASSUME NEW p \in Publishers, Put(p)
      PROVE  TypeOK'
  BY <1>3, PutFacts DEF TypeOK
<1>4. ASSUME NEW s \in Streams, Subscribe(s)
      PROVE  TypeOK'
  <2>1. DOMAIN subs = 1 .. Len(subs) /\ DOMAIN subs' = 1 .. Len(subs')
    BY <1>4, SubscribeFacts, LenProperties DEF TypeOK
  <2>2. \A i \in 1 .. Len(subs) : subs[i] # s
    BY <1>4, SubscribeFacts DEF ListInv, Contains
  <2>3. IsInjective(subs')
    <3> SUFFICES ASSUME NEW a \in 1 .. Len(subs'), NEW b \in 1 .. Len(subs'), subs'[a] = subs'[b]
                 PROVE  a = b
      BY <2>1 DEF IsInjective
    <3>1. /\ Len(subs') = Len(subs) + 1 /\ Len(subs) \in Nat /\ subs'[Len(subs) + 1] = s
          /\ \A i \in 1 .. Len(subs) : subs'[i] = subs[i]
      BY <1>4, SubscribeFacts
    <3>2. \A i, j \in 1 .. Len(subs) : subs[i] = subs[j] => i = j
      BY <2>1 DEF TypeOK, IsInjective
    <3>3. QED
      BY <2>2, <3>1, <3>2
  <2>4. QED
    BY <1>4, <2>3, SubscribeFacts DEF TypeOK, publishing
<1>5. ASSUME NEW s \in Streams, Replay(s) \/ Subscribed(s) \/ LeaveUnstarted(s) \/ Disconnect(s)
      PROVE  TypeOK'
  BY <1>5, ReplayFacts, SubscribedFacts, LeaveFacts DEF TypeOK, publishing
<1>6. ASSUME NEW s \in Streams, Read(s)
      PROVE  TypeOK'
  BY <1>6, ReadFacts DEF TypeOK, publishing
<1>7. ASSUME NEW s \in Streams, Unsubscribe(s)
      PROVE  TypeOK'
  <2>1. DOMAIN subs = 1 .. Len(subs) /\ DOMAIN subs' = 1 .. Len(subs')
    BY <1>7, UnsubscribeFacts, LenProperties DEF TypeOK
  <2>2. IsInjective(subs')
    <3> SUFFICES ASSUME NEW a \in 1 .. Len(subs'), NEW b \in 1 .. Len(subs'), subs'[a] = subs'[b]
                 PROVE  a = b
      BY <2>1 DEF IsInjective
    <3>1. PICK i \in 1 .. Len(subs) :
            /\ Len(subs') = Len(subs) - 1
            /\ \A j \in 1 .. Len(subs) - 1 : subs'[j] = IF j < i THEN subs[j] ELSE subs[j + 1]
      BY <1>7, UnsubscribeFacts
    <3>2. /\ \A k, j \in 1 .. Len(subs) : subs[k] = subs[j] => k = j
          /\ Len(subs) \in Nat
      BY <1>7, <2>1, UnsubscribeFacts DEF TypeOK, IsInjective
    <3>3. QED
      BY <3>1, <3>2
  <2>3. missed' \subseteq Streams \X Event
    <3>1. PassedBy(s) \subseteq Streams \X Event
      BY DEF PassedBy
    <3>2. missed' \subseteq missed \cup PassedBy(s)
      BY <1>7, UnsubscribeFacts
    <3>3. QED
      BY <3>1, <3>2 DEF TypeOK
  <2>4. QED
    BY <1>7, <2>2, <2>3, UnsubscribeFacts DEF TypeOK, publishing
<1>8. CASE UNCHANGED vars
  BY <1>8 DEF vars, publishing, TypeOK
<1>9. QED
  BY <1>1, <1>2, <1>3, <1>4, <1>5, <1>6, <1>7, <1>8, Moves

LEMMA ListStep ==
  ASSUME TypeOK, ListInv, PublishInv, [Next]_vars
  PROVE  ListInv'
<1>1. ASSUME NEW p \in Publishers, Log(p) \/ Look(p) \/ EndOfList(p) \/ Put(p) \/ Dies(p)
      PROVE  ListInv'
  <2>1. UNCHANGED <<subs, listed, pc>>
    BY <1>1, LogFacts, WalkFacts, PutFacts, DiesFacts
  <2>2. QED
    BY <2>1 DEF ListInv
<1>2. ASSUME NEW s \in Streams, Subscribe(s)
      PROVE  ListInv'
  BY <1>2, SubscribeFacts DEF ListInv
<1>3. ASSUME NEW s \in Streams, \/ Replay(s) \/ Subscribed(s) \/ LeaveUnstarted(s)
                                \/ Disconnect(s) \/ Read(s)
      PROVE  ListInv'
  <2>1. UNCHANGED <<subs, listed>>
    BY <1>3, ReplayFacts, SubscribedFacts, LeaveFacts, ReadFacts
  <2>2. \A t \in Streams : \/ pc'[t] = pc[t]
                           \/ /\ pc[t] \notin {"requested", "closed"}
                              /\ pc'[t] \notin {"requested", "closed"}
    BY <1>3, ReplayFacts, SubscribedFacts, LeaveFacts, ReadFacts
  <2>3. QED
    BY <2>1, <2>2 DEF ListInv
<1>4. ASSUME NEW s \in Streams, Unsubscribe(s)
      PROVE  ListInv'
  <2>1. PICK i \in 1 .. Len(subs) :
          /\ subs[i] = s /\ Len(subs') = Len(subs) - 1
          /\ \A j \in 1 .. Len(subs) - 1 : subs'[j] = IF j < i THEN subs[j] ELSE subs[j + 1]
    BY <1>4, UnsubscribeFacts
  <2>2. Len(subs) \in Nat /\ DOMAIN subs = 1 .. Len(subs) /\ IsInjective(subs)
    BY LenProperties DEF TypeOK
  <2>3. ASSUME NEW t \in Streams \ {s}
        PROVE  Contains(subs', t) <=> Contains(subs, t)
    <3>1. ASSUME NEW j \in 1 .. Len(subs), subs[j] = t
          PROVE  Contains(subs', t)
      <4>1. CASE j < i
        BY <2>1, <2>2, <3>1, <4>1 DEF Contains
      <4>2. CASE ~(j < i)
        <5>1. j # i
          BY <2>1, <3>1
        <5>2. j - 1 \in 1 .. Len(subs) - 1 /\ ~(j - 1 < i) /\ (j - 1) + 1 = j
          BY <2>2, <4>2, <5>1
        <5>3. QED
          BY <2>1, <3>1, <5>2 DEF Contains
      <4>3. QED
        BY <4>1, <4>2
    <3>2. ASSUME NEW j \in 1 .. Len(subs'), subs'[j] = t
          PROVE  Contains(subs, t)
      BY <2>1, <2>2, <3>2 DEF Contains
    <3>3. QED
      BY <3>1, <3>2 DEF Contains
  <2>4. ~Contains(subs', s)
    BY <2>1, <2>2 DEF Contains, IsInjective
  <2>5. /\ pc[s] \in {"closing", "gone"} /\ pc'[s] = "closed" /\ listed' = listed
        /\ \A t \in Streams \ {s} : pc'[t] = pc[t]
    BY <1>4, UnsubscribeFacts
  <2>6. QED
    BY <2>3, <2>4, <2>5 DEF ListInv
<1>5. CASE UNCHANGED vars
  BY <1>5 DEF vars, ListInv
<1>6. QED
  BY <1>1, <1>2, <1>3, <1>4, <1>5, Moves

LEMMA PublishStep ==
  ASSUME TypeOK, ListInv, PublishInv, [Next]_vars
  PROVE  PublishInv'
<1>1. ASSUME NEW p \in Publishers, Log(p)
      PROVE  PublishInv'
  BY <1>1, LogFacts DEF PublishInv, Busy, InHand
<1>2. ASSUME NEW p \in Publishers, Look(p) \/ EndOfList(p)
      PROVE  PublishInv'
  BY <1>2, WalkFacts DEF PublishInv, Busy, InHand
<1>3. ASSUME NEW p \in Publishers, Put(p) \/ Dies(p)
      PROVE  PublishInv'
  BY <1>3, PutFacts, DiesFacts DEF PublishInv, Busy, InHand
<1>4. ASSUME NEW s \in Streams, \/ Subscribe(s) \/ Replay(s) \/ Subscribed(s) \/ Read(s)
                                \/ Unsubscribe(s) \/ LeaveUnstarted(s) \/ Disconnect(s)
      PROVE  PublishInv'
  <2>1. UNCHANGED <<log, step, next, done>>
    BY <1>4, SubscribeFacts, ReplayFacts, SubscribedFacts, LeaveFacts, ReadFacts,
       UnsubscribeFacts DEF publishing
  <2>2. QED
    BY <2>1 DEF PublishInv, Busy, InHand
<1>5. CASE UNCHANGED vars
  BY <1>5 DEF vars, publishing, PublishInv, Busy, InHand
<1>6. QED
  BY <1>1, <1>2, <1>3, <1>4, <1>5, Moves

-----------------------------------------------------------------------------
(* What the streams are given                                               *)

(* A stream that is not closed by the step keeps what it was delivered, and *)
(* what is on record about it.                                              *)
LEMMA DeliveredStays ==
  ASSUME TypeOK, TypeOK', ListInv, PublishInv, [Next]_vars,
         NEW t \in Streams, \A u \in Streams : Unsubscribe(u) => t # u, NEW e
  PROVE  /\ Delivered(e, t) => Delivered(e, t)'
         /\ e \in Event /\ Given(e, t) => Given(e, t)'
<1> DEFINE P == /\ \/ Contains(shown[t], e) \/ Contains(queue[t], e)
                   => Contains(shown'[t], e) \/ Contains(queue'[t], e)
                /\ <<t, e>> \in missed => <<t, e>> \in missed'
<1>1. ASSUME NEW p \in Publishers, Log(p) \/ Look(p) \/ EndOfList(p) \/ Dies(p)
      PROVE  P
  BY <1>1, LogFacts, WalkFacts, DiesFacts
<1>2. ASSUME NEW p \in Publishers, Put(p)
      PROVE  P
  BY <1>2, PutFacts
<1>3. ASSUME NEW s \in Streams, Subscribe(s) \/ Subscribed(s) \/ LeaveUnstarted(s) \/ Disconnect(s)
      PROVE  P
  BY <1>3, SubscribeFacts, SubscribedFacts, LeaveFacts
<1>4. ASSUME NEW s \in Streams, Replay(s)
      PROVE  P
  BY <1>4, ReplayFacts
<1>5. ASSUME NEW s \in Streams, Read(s)
      PROVE  P
  BY <1>5, ReadFacts
<1>6. ASSUME NEW s \in Streams, Unsubscribe(s)
      PROVE  P
  <2>1. t # s /\ queue'[t] = queue[t] /\ shown'[t] = shown[t]
        /\ missed' = {m \in missed \cup PassedBy(s) : m[1] # s}
    BY <1>6, UnsubscribeFacts
  <2>2. QED
    BY <2>1
<1>7. ASSUME UNCHANGED vars
      PROVE  P
  BY <1>7 DEF vars
<1>8. P
  BY <1>1, <1>2, <1>3, <1>4, <1>5, <1>6, <1>7, Moves
<1>9. QED
  BY <1>8, DeliveredParts, DeliveredPartsNext DEF Given

(* What is behind a replay stays behind it, and grows by what is queued.    *)
LEMMA ReplayStep ==
  ASSUME TypeOK, TypeOK', ListInv, PublishInv, ReplayInv, [Next]_vars
  PROVE  ReplayInv'
<1> SUFFICES ASSUME NEW t \in Streams
             PROVE  /\ IF pc'[t] = "replaying" THEN replay'[t] <= Len(log') + 1 ELSE replay'[t] = 1
                    /\ \A e \in Replayed(t)' : Delivered(e, t)'
  BY DEF ReplayInv
<1> DEFINE P == /\ IF pc'[t] = "replaying" THEN replay'[t] <= Len(log') + 1 ELSE replay'[t] = 1
                /\ \A e \in Replayed(t)' : e \in Replayed(t) \/ Delivered(e, t)'
<1>1. /\ Len(log) \in Nat /\ replay[t] \in Nat \ {0} /\ Len(log') \in Nat
      /\ IF pc[t] = "replaying" THEN replay[t] <= Len(log) + 1 ELSE replay[t] = 1
  BY LenProperties DEF TypeOK, ReplayInv
<1>2. ASSUME UNCHANGED <<log, replay>>, (pc'[t] = "replaying") = (pc[t] = "replaying")
      PROVE  P
  BY <1>1, <1>2 DEF Replayed
<1>3. ASSUME NEW p \in Publishers, Log(p)
      PROVE  P
  <2>1. /\ Len(log') = Len(log) + 1 /\ \A i \in 1 .. Len(log) : log'[i] = log[i]
        /\ UNCHANGED <<pc, replay>>
    BY <1>3, LogFacts
  <2>2. Replayed(t)' \subseteq Replayed(t)
    BY <1>1, <2>1 DEF Replayed
  <2>3. QED
    BY <1>1, <2>1, <2>2
<1>4. ASSUME NEW p \in Publishers, Look(p) \/ EndOfList(p) \/ Put(p) \/ Dies(p)
      PROVE  P
  <2>1. UNCHANGED <<log, replay, pc>>
    BY <1>4, WalkFacts, PutFacts, DiesFacts
  <2>2. QED
    BY <1>2, <2>1
<1>5. ASSUME NEW s \in Streams, Subscribe(s)
      PROVE  P
  <2>1. /\ UNCHANGED <<log, replay>>
        /\ s # t => pc'[t] = pc[t]
        /\ s = t => pc[t] # "replaying"
    BY <1>5, SubscribeFacts
  <2>2. CASE s = t
    BY <1>1, <2>1, <2>2 DEF Replayed
  <2>3. QED
    BY <1>2, <2>1, <2>2
<1>6. ASSUME NEW s \in Streams, Replay(s)
      PROVE  P
  <2>1. UNCHANGED <<log, pc>> /\ (s # t => replay'[t] = replay[t])
    BY <1>6, ReplayFacts
  <2>2. CASE s # t
    BY <1>1, <2>1, <2>2 DEF Replayed
  <2>3. CASE s = t
    <3> Replay(t)
      BY <1>6, <2>3
    <3>1. replay[t] \in 1 .. Len(log) /\ replay'[t] = replay[t] + 1
      BY ReplayFacts
    <3>2. \A e \in Replayed(t)' : e \in Replayed(t) \/ e = log[replay[t]]
      BY <1>1, <2>1, <3>1 DEF Replayed
    <3>3. ASSUME NEW e, e = log[replay[t]]
          PROVE  Delivered(e, t)'
      <4>1. Contains(queue'[t], e)
        BY <3>3, ReplayFacts
      <4>2. QED
        BY <4>1, DeliveredPartsNext
    <3>4. \A e \in Replayed(t)' : e \in Replayed(t) \/ Delivered(e, t)'
      BY <3>2, <3>3
    <3>5. pc'[t] = "replaying" /\ replay'[t] <= Len(log') + 1
      <4>1. pc[t] = "replaying"
        BY ReplayFacts
      <4>2. QED
        BY <1>1, <2>1, <3>1, <4>1
    <3>6. QED
      BY <3>4, <3>5
  <2>4. QED
    BY <2>2, <2>3
<1>7. ASSUME NEW s \in Streams, Subscribed(s)
      PROVE  P
  <2>1. /\ s # t => pc'[t] = pc[t] /\ replay'[t] = replay[t]
        /\ s = t => pc'[t] = "subscribed" /\ replay'[t] = 1
        /\ log' = log
    BY <1>7, SubscribedFacts
  <2>2. QED
    BY <1>1, <2>1 DEF Replayed
<1>8. ASSUME NEW s \in Streams, LeaveUnstarted(s) \/ Disconnect(s) \/ Read(s) \/ Unsubscribe(s)
      PROVE  P
  <2>1. /\ UNCHANGED <<log, replay>>
        /\ (pc'[t] = "replaying") = (pc[t] = "replaying")
    BY <1>8, LeaveFacts, ReadFacts, UnsubscribeFacts
  <2>2. QED
    BY <1>2, <2>1
<1>9. ASSUME UNCHANGED vars
      PROVE  P
  BY <1>2, <1>9 DEF vars
<1>10. P
  BY <1>3, <1>4, <1>5, <1>6, <1>7, <1>8, <1>9, Moves
<1>11. CASE \A u \in Streams : Unsubscribe(u) => t # u
  BY <1>10, <1>11, DeliveredStays DEF ReplayInv
<1>12. CASE Unsubscribe(t)
  <2>1. replay'[t] = 1
    BY <1>1, <1>12, UnsubscribeFacts
  <2>2. QED
    BY <1>10, <2>1 DEF Replayed
<1>13. QED
  BY <1>11, <1>12

(* An iteration that moves on has given the event to the stream before it;  *)
(* one that a departing stream moves past another has that on record; and a *)
(* stream that ends its replay was given what is being handed out.          *)
LEMMA WalkStep ==
  ASSUME TypeOK, TypeOK', ListInv, PublishInv, ReplayInv, WalkInv, [Next]_vars
  PROVE  WalkInv'
<1> SUFFICES ASSUME NEW p \in Publishers, step'[p] = "putting", NEW t \in Behind(p)',
                    pc'[t] \in {"subscribed", "open"}, NEW e, e = InHand(p)'
             PROVE  Given(e, t)'
  BY DEF WalkInv
<1>1. t \in Streams /\ Len(subs) \in Nat /\ next[p] \in Nat \ {0}
  BY ElementOfSeq, LenProperties DEF Behind, TypeOK
<1>2. \A u \in Streams : Unsubscribe(u) => t # u
  BY UnsubscribeFacts
<1>3. ASSUME step[p] = "putting", done'[p] = done[p]
      PROVE  e = InHand(p) /\ e \in Event /\ Contains(log, e)
  BY <1>3, HandIsEvent DEF PublishInv, Busy, InHand
<1>4. ASSUME step[p] = "putting", done'[p] = done[p], t \in Behind(p),
             pc[t] \in {"subscribed", "open"}
      PROVE  Given(e, t)'
  BY <1>1, <1>2, <1>3, <1>4, DeliveredStays DEF WalkInv
<1>5. ASSUME NEW q \in Publishers, Log(q) \/ Dies(q)
      PROVE  Given(e, t)'
  <2>1. q # p /\ step[p] = "putting" /\ UNCHANGED <<subs, pc, next, done>>
    BY <1>5, LogFacts, DiesFacts
  <2>2. QED
    BY <1>4, <2>1 DEF Behind
<1>6. ASSUME NEW q \in Publishers, Look(q) \/ EndOfList(q)
      PROVE  Given(e, t)'
  <2>1. CASE q = p
    <3>1. next'[p] = 1
      BY <1>6, <2>1, WalkFacts
    <3>2. Behind(p)' = {}
      BY <3>1 DEF Behind
    <3>3. QED
      BY <3>2
  <2>2. CASE q # p
    <3>1. /\ step[p] = "putting" /\ done'[p] = done[p] /\ next'[p] = next[p]
          /\ UNCHANGED <<subs, pc>>
      BY <1>6, <2>2, WalkFacts
    <3>2. QED
      BY <1>4, <3>1 DEF Behind
  <2>3. QED
    BY <2>1, <2>2
<1>7. ASSUME NEW q \in Publishers, Put(q)
      PROVE  Given(e, t)'
  <2>1. step[p] = "putting" /\ UNCHANGED <<subs, pc, step, done>>
    BY <1>7, PutFacts
  <2>2. CASE t \in Behind(p)
    BY <1>4, <2>1, <2>2
  <2>3. CASE t \notin Behind(p)
    <3>1. q = p
      <4>1. q # p => next'[p] = next[p]
        BY <1>7, PutFacts
      <4>2. QED
        BY <2>1, <2>3, <4>1 DEF Behind
    <3>2. next'[p] = next[p] + 1
      BY <1>7, <3>1, PutFacts
    <3>3. t = subs[next[p]]
      BY <1>1, <2>1, <2>3, <3>2 DEF Behind
    <3>4. Contains(queue'[t], e)
      BY <1>3, <1>7, <2>1, <3>1, <3>3, PutFacts
    <3>5. QED
      BY <1>1, <3>4, DeliveredPartsNext DEF Given
  <2>4. QED
    BY <2>2, <2>3
<1>8. ASSUME NEW s \in Streams, Subscribe(s)
      PROVE  Given(e, t)'
  <2>1. /\ step[p] = "putting" /\ UNCHANGED <<step, next, done>>
        /\ t # s /\ pc'[t] = pc[t]
    BY <1>1, <1>8, SubscribeFacts DEF publishing
  <2>2. t \in Behind(p)
    <3>1. /\ Len(subs') = Len(subs) + 1 /\ subs'[Len(subs) + 1] = s
          /\ \A i \in 1 .. Len(subs) : subs'[i] = subs[i]
      BY <1>8, SubscribeFacts
    <3>2. QED
      BY <1>1, <2>1, <3>1 DEF Behind
  <2>3. QED
    BY <1>4, <2>1, <2>2
<1>9. ASSUME NEW s \in Streams, Subscribed(s)
      PROVE  Given(e, t)'
  <2>1. /\ step[p] = "putting" /\ UNCHANGED <<subs, step, next, done, log>>
        /\ t # s => pc'[t] = pc[t]
    BY <1>1, <1>9, SubscribedFacts DEF publishing
  <2>2. CASE t # s
    BY <1>4, <2>1, <2>2 DEF Behind
  <2>3. CASE t = s
    <3>1. replay[t] > Len(log) /\ pc[t] = "replaying"
      BY <1>9, <2>3, SubscribedFacts
    <3>2. e \in Event /\ Contains(log, e)
      BY <1>3, <2>1
    <3>3. e \in Replayed(t)
      <4>1. PICK i \in 1 .. Len(log) : log[i] = e
        BY <3>2 DEF Contains
      <4>2. Len(log) \in Nat /\ replay[t] \in Nat
        BY <1>1, LenProperties DEF TypeOK
      <4>3. i < replay[t]
        BY <3>1, <4>1, <4>2
      <4>4. QED
        BY <4>1, <4>3 DEF Replayed
    <3>4. Delivered(e, t)
      BY <1>1, <3>3 DEF ReplayInv
    <3>5. QED
      BY <1>1, <1>2, <3>4, DeliveredStays DEF Given
  <2>4. QED
    BY <2>2, <2>3
<1>10. ASSUME NEW s \in Streams, Replay(s) \/ LeaveUnstarted(s) \/ Disconnect(s) \/ Read(s)
       PROVE  Given(e, t)'
  <2>1. /\ step[p] = "putting" /\ UNCHANGED <<subs, step, next, done>>
        /\ pc[t] \in {"subscribed", "open"}
    BY <1>1, <1>10, ReplayFacts, LeaveFacts, ReadFacts DEF publishing
  <2>2. QED
    BY <1>4, <2>1 DEF Behind
<1>11. ASSUME NEW s \in Streams, Unsubscribe(s)
       PROVE  Given(e, t)'
  <2>1. /\ step[p] = "putting" /\ UNCHANGED <<step, next, done>>
        /\ t # s /\ pc'[t] = pc[t]
        /\ missed' = {m \in missed \cup PassedBy(s) : m[1] # s}
    BY <1>1, <1>2, <1>11, UnsubscribeFacts DEF publishing
  <2>2. PICK i \in 1 .. Len(subs) :
          /\ subs[i] = s /\ Len(subs') = Len(subs) - 1
          /\ \A j \in 1 .. Len(subs) - 1 : subs'[j] = IF j < i THEN subs[j] ELSE subs[j + 1]
    BY <1>11, UnsubscribeFacts
  <2>3. PICK j \in 1 .. Len(subs) - 1 : j < next[p] /\ t = subs'[j]
    BY <2>1, <2>2 DEF Behind
  <2>4. CASE t \in Behind(p)
    BY <1>4, <2>1, <2>4
  <2>5. CASE t \notin Behind(p)
    <3>1. ~(j < i)
      BY <1>1, <2>2, <2>3, <2>5 DEF Behind
    <3>2. t = subs[j + 1] /\ j + 1 \in 1 .. Len(subs)
      BY <1>1, <2>2, <2>3, <3>1
    <3>3. j + 1 = next[p]
      BY <1>1, <2>3, <2>5, <3>2 DEF Behind
    <3>4. i \in 1 .. next[p] - 1 /\ next[p] \in 1 .. Len(subs) /\ t = subs[next[p]]
      BY <1>1, <3>1, <3>2, <3>3
    <3>5. e = InHand(p) /\ <<t, e>> \in Streams \X Event
      BY <1>1, <1>3, <2>1
    <3>6. <<t, e>> \in PassedBy(s)
      BY <2>1, <2>2, <3>4, <3>5 DEF PassedBy
    <3>7. <<t, e>> \in missed'
      BY <2>1, <3>6
    <3>8. QED
      BY <3>7 DEF Given
  <2>6. QED
    BY <2>4, <2>5
<1>12. ASSUME UNCHANGED vars
       PROVE  Given(e, t)'
  <2>1. UNCHANGED <<subs, pc, step, next, done>>
    BY <1>12 DEF vars
  <2>2. QED
    BY <1>4, <2>1 DEF Behind
<1>13. QED
  BY <1>5, <1>6, <1>7, <1>8, <1>9, <1>10, <1>11, <1>12, Moves

(* Every published event has been given to the streams that watch, or they  *)
(* were passed by with it: when an iteration ends it has all of them behind *)
(* it, and when a replay ends it has all of the log behind it.              *)
LEMMA LostStep ==
  ASSUME TypeOK, TypeOK', ListInv, PublishInv, ReplayInv, WalkInv, NothingElseIsLost,
         [Next]_vars
  PROVE  NothingElseIsLost'
<1> SUFFICES ASSUME NEW t \in Streams, pc'[t] \in {"subscribed", "open"},
                    NEW e \in Published'
             PROVE  Given(e, t)'
  BY DEF NothingElseIsLost
<1>1. \A u \in Streams : Unsubscribe(u) => t # u
  BY UnsubscribeFacts
<1>2. e \in Event /\ Contains(log', e) /\ \A q \in Busy' : e # InHand(q)'
  BY ElementOfSeq DEF Published, Contains, TypeOK
<1>3. ASSUME pc[t] \in {"subscribed", "open"}, e \in Published
      PROVE  Given(e, t)'
  BY <1>1, <1>2, <1>3, DeliveredStays DEF NothingElseIsLost
<1>4. ASSUME log' = log, Busy' = Busy, \A q \in Busy : done'[q] = done[q]
      PROVE  e \in Published
  BY <1>2, <1>4 DEF Published, Contains, InHand
<1>5. ASSUME NEW p \in Publishers, Log(p)
      PROVE  Given(e, t)'
  <2>1. Busy' = Busy \cup {p} /\ UNCHANGED <<pc, done>>
    BY <1>5, LogFacts DEF Busy
  <2>2. e # InHand(p) /\ \A q \in Busy : e # InHand(q)
    BY <1>2, <2>1 DEF InHand
  <2>3. Contains(log, e)
    BY <1>2, <1>5, <2>2, LogFacts
  <2>4. e \in Published
    BY <2>2, <2>3 DEF Published, Contains
  <2>5. QED
    BY <1>3, <2>1, <2>4
<1>6. ASSUME NEW p \in Publishers, Look(p) \/ EndOfList(p)
      PROVE  Given(e, t)'
  <2>1. /\ UNCHANGED <<log, subs, listed, pc>>
        /\ \A q \in Publishers \ {p} : step'[q] = step[q] /\ done'[q] = done[q]
    BY <1>6, WalkFacts
  <2>2. CASE step[p] = "logged" /\ step'[p] = "putting" /\ done' = done
    <3>1. Busy' = Busy
      BY <2>1, <2>2 DEF Busy
    <3>2. QED
      BY <1>3, <1>4, <2>1, <2>2, <3>1
  <2>3. CASE step[p] = "logged" /\ ~listed
    BY <2>1, <2>3 DEF ListInv
  <2>4. CASE step[p] = "putting" /\ next[p] > Len(subs)
    <3>1. CASE e = InHand(p)
      <4>1. PICK j \in 1 .. Len(subs) : subs[j] = t
        BY <2>1 DEF ListInv, Contains
      <4>2. Len(subs) \in Nat /\ next[p] \in Nat
        BY LenProperties DEF TypeOK
      <4>3. t \in Behind(p)
        BY <2>4, <4>1, <4>2 DEF Behind
      <4>4. Given(e, t)
        BY <2>1, <2>4, <3>1, <4>3 DEF WalkInv
      <4>5. QED
        BY <1>1, <1>2, <4>4, DeliveredStays
    <3>2. CASE e # InHand(p)
      <4>1. \A q \in Busy \ {p} : q \in Busy' /\ InHand(q)' = InHand(q)
        BY <2>1 DEF Busy, InHand
      <4>2. e \in Published
        BY <1>2, <2>1, <3>2, <4>1 DEF Published, Contains
      <4>3. QED
        BY <1>3, <2>1, <4>2
    <3>3. QED
      BY <3>1, <3>2
  <2>5. QED
    BY <1>6, <2>2, <2>3, <2>4, WalkFacts
<1>7. ASSUME NEW p \in Publishers, Put(p) \/ Dies(p)
      PROVE  Given(e, t)'
  <2>1. UNCHANGED <<log, pc, done>> /\ Busy' = Busy
    BY <1>7, PutFacts, DiesFacts DEF Busy
  <2>2. QED
    BY <1>3, <1>4, <2>1
<1>8. ASSUME NEW s \in Streams, \/ Subscribe(s) \/ Replay(s) \/ Subscribed(s) \/ Read(s)
                                \/ Unsubscribe(s) \/ LeaveUnstarted(s) \/ Disconnect(s)
      PROVE  Given(e, t)'
  <2>1. UNCHANGED <<log, step, done>>
    BY <1>8, SubscribeFacts, ReplayFacts, SubscribedFacts, LeaveFacts, ReadFacts,
       UnsubscribeFacts DEF publishing
  <2>2. Busy' = Busy
    BY <2>1 DEF Busy
  <2>3. CASE pc[t] \in {"subscribed", "open"}
    BY <1>3, <1>4, <2>1, <2>2, <2>3
  <2>4. CASE pc[t] \notin {"subscribed", "open"}
    <3>1. Subscribed(t)
      BY <1>8, <2>4, SubscribeFacts, ReplayFacts, SubscribedFacts, LeaveFacts, ReadFacts,
         UnsubscribeFacts
    <3>2. replay[t] > Len(log)
      BY <3>1, SubscribedFacts
    <3>3. PICK i \in 1 .. Len(log) : log[i] = e
      BY <1>2, <2>1 DEF Contains
    <3>4. Len(log) \in Nat /\ replay[t] \in Nat
      BY LenProperties DEF TypeOK
    <3>5. i < replay[t]
      BY <3>2, <3>3, <3>4
    <3>6. Delivered(e, t)
      BY <3>3, <3>5 DEF ReplayInv, Replayed
    <3>7. QED
      BY <1>1, <1>2, <3>6, DeliveredStays DEF Given
  <2>5. QED
    BY <2>3, <2>4
<1>9. ASSUME UNCHANGED vars
      PROVE  Given(e, t)'
  <2>1. UNCHANGED <<log, pc, step, done>>
    BY <1>9 DEF vars
  <2>2. Busy' = Busy
    BY <2>1 DEF Busy
  <2>3. QED
    BY <1>3, <1>4, <2>1, <2>2
<1>10. QED
  BY <1>5, <1>6, <1>7, <1>8, <1>9, Moves

-----------------------------------------------------------------------------
(* The theorems                                                             *)

LEMMA InitStream == Init => StreamInv
<1> SUFFICES ASSUME Init PROVE StreamInv
  OBVIOUS
<1>1. << >> \in Seq(Event) /\ << >> \in Seq(Streams) /\ Len(<< >>) = 0
      /\ \A s \in Seq(Streams) : DOMAIN s = 1 .. Len(s)
  BY EmptySeq, LenProperties
<1>2. subs = << >> /\ log = << >>
  BY DEF Init
<1>3. IsInjective(subs)
  BY <1>1, <1>2 DEF IsInjective
<1>4. \A p \in Publishers : Quota[p] \in Nat
  BY StreamAssumption DEF StreamAssumption
<1>5. TypeOK
  <2>1. /\ log \in Seq(Event) /\ subs \in Seq(Streams) /\ listed \in BOOLEAN
        /\ queue \in [Streams -> Seq(Event)] /\ shown \in [Streams -> Seq(Event)]
    BY <1>1 DEF Init
  <2>2. pc \in [Streams -> PCs] /\ replay \in [Streams -> Nat \ {0}] /\ missed = {}
    BY DEF Init, PCs
  <2>3. /\ step \in [Publishers -> Steps] /\ next \in [Publishers -> Nat \ {0}]
        /\ done \in [Publishers -> Nat] /\ \A p \in Publishers : done[p] = 0
    BY DEF Init, Steps
  <2>4. \A p \in Publishers : done[p] <= Quota[p]
    BY <1>4, <2>3
  <2>5. QED
    BY <1>3, <2>1, <2>2, <2>3, <2>4 DEF TypeOK
<1>6. ListInv /\ PublishInv /\ WalkInv /\ NothingElseIsLost
  BY <1>1, <1>2 DEF Init, ListInv, PublishInv, WalkInv, NothingElseIsLost, Contains, Busy
<1>7. ReplayInv
  BY <1>1, <1>2 DEF Init, ReplayInv, Replayed
<1>8. QED
  BY <1>5, <1>6, <1>7 DEF StreamInv

(* The inductive invariant: where each replay and each iteration of publish *)
(* has got to is what each stream has been given.                           *)
THEOREM StreamInvariant == Spec => []StreamInv
<1>1. Init => StreamInv
  BY InitStream
<1>2. StreamInv /\ [Next]_vars => StreamInv'
  <2> SUFFICES ASSUME StreamInv, [Next]_vars PROVE StreamInv'
    OBVIOUS
  <2>1. TypeOK'
    BY TypeStep DEF StreamInv
  <2>2. QED
    BY <2>1, ListStep, PublishStep, ReplayStep, WalkStep, LostStep DEF StreamInv
<1>3. QED
  BY <1>1, <1>2, PTL DEF Spec

(* Every variable keeps its type, and no stream is listed twice, whichever  *)
(* order it comes and goes in (event_bus.py:62-74).                         *)
THEOREM TypeCorrect == Spec => []TypeOK
<1>1. StreamInv => TypeOK
  BY DEF StreamInv
<1>2. QED
  BY <1>1, StreamInvariant, PTL

(* However many threads publish while however many streams come, read and   *)
(* go, a stream that watches has been given every published event, or was   *)
(* passed by with it when another stream left (event_bus.py:53-74).         *)
THEOREM OnlyDeparturesLose == Spec => []NothingElseIsLost
<1>1. StreamInv => NothingElseIsLost
  BY DEF StreamInv
<1>2. QED
  BY <1>1, StreamInvariant, PTL
============================================================================
