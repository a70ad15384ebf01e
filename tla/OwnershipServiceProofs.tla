---------------------- MODULE OwnershipServiceProofs ----------------------
(***************************************************************************)
(* Proofs about OwnershipService: for any targets, any finite number of    *)
(* threads, any limit and lifetime of challenges, the inductive invariant  *)
(* OwnershipInv holds, and with it what the service promises of a          *)
(* revocation, of a verified target and of the number of open challenges.  *)
(***************************************************************************)
EXTENDS OwnershipService, SequenceTheorems, FiniteSetTheorems, TLAPS

(* The identifiers are the positions of the table.                          *)
LEMMA Ids ==
  ASSUME challenges \in Seq(Challenge)
  PROVE  /\ Len(challenges) \in Nat /\ Id = 1 .. Len(challenges)
         /\ \A i \in Id : challenges[i] \in Challenge
BY LenProperties, ElementOfSeq DEF Id

(* Writing one record's status changes that status and nothing else.        *)
LEMMA StatusWrite ==
  ASSUME challenges \in Seq(Challenge), NEW i \in Id, NEW s \in OwnershipStatus,
         challenges' = [challenges EXCEPT ![i].status = s]
  PROVE  /\ challenges' \in Seq(Challenge) /\ Id' = Id
         /\ \A j \in Id : /\ challenges'[j].target = challenges[j].target
                          /\ challenges'[j].expires = challenges[j].expires
                          /\ challenges'[j].status = IF j = i THEN s ELSE challenges[j].status
<1> DEFINE r == [challenges[i] EXCEPT !.status = s]
<1>1. Id = 1 .. Len(challenges) /\ challenges[i] \in Challenge
  BY Ids
<1>2. /\ r \in Challenge /\ r.target = challenges[i].target
      /\ r.expires = challenges[i].expires /\ r.status = s
  BY <1>1 DEF Challenge
<1>3. challenges' = [challenges EXCEPT ![i] = r]
  OBVIOUS
<1> HIDE DEF r
<1>4. /\ challenges' \in Seq(Challenge) /\ Len(challenges') = Len(challenges)
      /\ \A j \in 1 .. Len(challenges) :
           challenges'[j] = IF j = i THEN r ELSE challenges[j]
  BY <1>1, <1>2, <1>3, ExceptSeq
<1>5. Id' = Id
  BY <1>1, <1>4, LenProperties DEF Id
<1>6. QED
  BY <1>1, <1>2, <1>4, <1>5

(* A new challenge is pending, and nobody else's record changes.            *)
LEMMA RecordAdded ==
  ASSUME challenges \in Seq(Challenge), NEW r \in Challenge,
         challenges' = Append(challenges, r)
  PROVE  /\ challenges' \in Seq(Challenge)
         /\ Id' = Id \cup {Len(challenges) + 1} /\ Len(challenges) + 1 \notin Id
         /\ challenges'[Len(challenges) + 1] = r
         /\ \A j \in Id : challenges'[j] = challenges[j]
<1>1. Len(challenges) \in Nat /\ Id = 1 .. Len(challenges)
  BY Ids
<1>2. challenges' \in Seq(Challenge) /\ Len(challenges') = Len(challenges) + 1
      /\ challenges'[Len(challenges) + 1] = r
      /\ \A j \in 1 .. Len(challenges) : challenges'[j] = challenges[j]
  BY <1>1
<1>3. Id' = 1 .. Len(challenges')
  BY <1>2, LenProperties DEF Id
<1>4. QED
  BY <1>1, <1>2, <1>3

(* Going on to another place changes a request's place and nothing else.    *)
LEMMA Going ==
  ASSUME TypeOK, NEW c \in Client, NEW q \in PCs, Goes(c, q)
  PROVE  /\ client' \in [Client -> Request] /\ client'[c].pc = q
         /\ client'[c].target = client[c].target /\ client'[c].id = client[c].id
         /\ client'[c].method = client[c].method
         /\ \A d \in Client \ {c} : client'[d] = client[d]
<1>1. client \in [Client -> Request] /\ client[c] \in Request
  BY DEF TypeOK
<1>2. client' = [client EXCEPT ![c] = [client[c] EXCEPT !.pc = q]]
  BY DEF Goes
<1>3. QED
  BY <1>1, <1>2 DEF Request

(* A request taken up is that of its thread and of no other.                *)
LEMMA TakingUp ==
  ASSUME TypeOK, NEW c \in Client, NEW r \in Request,
         client' = [client EXCEPT ![c] = r]
  PROVE  /\ client' \in [Client -> Request] /\ client'[c] = r
         /\ \A d \in Client \ {c} : client'[d] = client[d]
BY DEF TypeOK

(* A request that is answered leaves its thread idle.                       *)
LEMMA Answering ==
  ASSUME TypeOK, NEW c \in Client, Answers(c)
  PROVE  /\ client' \in [Client -> Request] /\ client'[c].pc = "idle"
         /\ \A d \in Client \ {c} : client'[d] = client[d]
BY DEF TypeOK, Request, Answers, Idle, PCs

-----------------------------------------------------------------------------
(* Type correctness *)

(* The service is empty when the control plane starts.                      *)
LEMMA InitType == Init => TypeOK
<1> SUFFICES ASSUME Init PROVE TypeOK
  OBVIOUS
<1>1. challenges \in Seq(Challenge) /\ placed \subseteq Id
  BY DEF Init
<1>2. client \in [Client -> Request] /\ \A c \in Client : client[c].pc = "idle"
  BY DEF Init, Idle, Request, PCs
<1>3. QED
  BY <1>1, <1>2, OwnershipAssumption DEF Init, TypeOK, OwnershipAssumption

(* What a start does to its thread and to the table.                        *)
LEMMA StartTypes ==
  ASSUME TypeOK, Starting
  PROVE  TypeOK'
<1>0. /\ Len(challenges) \in Nat /\ Id = 1 .. Len(challenges)
      /\ requests + 1 \in Nat /\ now \in Nat
  BY Ids, OwnershipAssumption DEF TypeOK, OwnershipAssumption
<1>1. ASSUME NEW c \in Client, NEW t \in Target, NEW m \in Method, BeginStart(c, t, m)
      PROVE  TypeOK'
  <2>1. /\ client' \in [Client -> Request] /\ client'[c].pc = "starting"
        /\ client'[c].target = t /\ client'[c].method = m
        /\ \A d \in Client \ {c} : client'[d] = client[d]
    <3> DEFINE r == [Idle EXCEPT !.pc = "starting", !.target = t,
                                 !.method = m, !.seen = Len(challenges)]
    <3>1. /\ r \in Request /\ r.pc = "starting" /\ r.target = t /\ r.method = m
      BY <1>0 DEF Idle, PCs, Request
    <3>2. client' = [client EXCEPT ![c] = r]
      BY <1>1 DEF BeginStart
    <3> HIDE DEF r
    <3>3. QED
      BY <3>1, <3>2, TakingUp
  <2>2. UNCHANGED <<challenges, verified, placed, now, revocations, history>>
        /\ requests' = requests + 1 /\ Id' = Id
    BY <1>1 DEF BeginStart, Id
  <2>3. QED
    BY <1>0, <2>1, <2>2 DEF TypeOK, history
<1>2. ASSUME NEW c \in Client, ReturnVerified(c) \/ CountActive(c) \/ WalkRaises(c)
      PROVE  TypeOK'
  <2>1. /\ UNCHANGED <<challenges, verified, placed, now, requests, revocations, history>>
        /\ client[c].pc = "starting"
        /\ Answers(c) \/ Goes(c, "adding")
    BY <1>2 DEF ReturnVerified, CountActive, WalkRaises
  <2>2. /\ client' \in [Client -> Request]
        /\ client'[c].pc \in {"idle", "adding"}
        /\ client'[c].pc # "idle" => /\ client'[c].target = client[c].target
                                     /\ client'[c].method = client[c].method
        /\ \A d \in Client \ {c} : client'[d] = client[d]
    BY <2>1, Answering, Going DEF PCs
  <2>3. QED
    BY <2>1, <2>2 DEF TypeOK, history, Id
<1>3. ASSUME NEW c \in Client, AddChallenge(c)
      PROVE  TypeOK'
  <2> DEFINE r == [target |-> client[c].target, method |-> client[c].method,
                   expires |-> now + Ttl, status |-> "pending"]
  <2>1. r \in Challenge
    BY <1>0, <1>3, OwnershipAssumption
       DEF AddChallenge, TypeOK, Challenge, OwnershipStatus, OwnershipAssumption
  <2>2. challenges' = Append(challenges, r)
        /\ UNCHANGED <<verified, placed, now, requests, revocations, history>>
        /\ Answers(c)
    BY <1>3 DEF AddChallenge
  <2> HIDE DEF r
  <2>3. challenges' \in Seq(Challenge) /\ Id \subseteq Id'
    BY <2>1, <2>2, RecordAdded DEF TypeOK
  <2>4. QED
    BY <2>2, <2>3, Answering DEF TypeOK, history
<1>4. QED
  BY <1>1, <1>2, <1>3 DEF Starting

(* The three ways a look-up ends: the record expires, the target is owned,  *)
(* or the proof is fetched.                                                 *)
LEMMA LookUpFacts ==
  ASSUME TypeOK, NEW c \in Client, NEW i \in Id, LookUp(c, i)
  PROVE  /\ client' \in [Client -> Request]
         /\ \A d \in Client \ {c} : client'[d] = client[d]
         /\ challenges' \in Seq(Challenge) /\ Id' = Id
         /\ challenges[i].target \in Target
         /\ \A j \in Id : /\ challenges'[j].target = challenges[j].target
                          /\ challenges'[j].expires = challenges[j].expires
         /\ UNCHANGED <<verified, placed, now, revocations, revoked, proved, undone, overruled>>
         /\ \/ /\ client'[c].pc = "idle" /\ claimed' = claimed /\ Expired(i)
               /\ lapsed' = IF challenges[i].status = "verified" THEN lapsed \cup {i} ELSE lapsed
               /\ \A j \in Id : challenges'[j].status =
                                  IF j = i THEN "expired" ELSE challenges[j].status
            \/ /\ client'[c].pc = "idle" /\ challenges[i].status = "verified"
               /\ claimed' = claimed \cup {challenges[i].target}
               /\ UNCHANGED <<challenges, lapsed>>
            \/ /\ client'[c].pc = "fetching" /\ client'[c].id = i
               /\ client'[c].target = challenges[i].target
               /\ ~Expired(i) /\ challenges[i].status # "verified"
               /\ UNCHANGED <<challenges, lapsed, claimed>>
<1>0. challenges[i].target \in Target /\ i \in Nat
  BY Ids DEF TypeOK, Challenge
<1>1. UNCHANGED <<verified, placed, now, revocations, revoked, proved, undone, overruled>>
  BY DEF LookUp
<1>2. CASE Expired(i)
  <2>1. /\ Answers(c) /\ UNCHANGED claimed
        /\ lapsed' = IF challenges[i].status = "verified" THEN lapsed \cup {i} ELSE lapsed
        /\ challenges' = [challenges EXCEPT ![i].status = "expired"]
    BY <1>2 DEF LookUp
  <2>2. "expired" \in OwnershipStatus /\ challenges \in Seq(Challenge)
    BY DEF TypeOK, OwnershipStatus
  <2>3. /\ challenges' \in Seq(Challenge) /\ Id' = Id
        /\ \A j \in Id : /\ challenges'[j].target = challenges[j].target
                         /\ challenges'[j].expires = challenges[j].expires
                         /\ challenges'[j].status =
                              IF j = i THEN "expired" ELSE challenges[j].status
    BY <2>1, <2>2, StatusWrite
  <2>4. QED
    BY <1>0, <1>1, <1>2, <2>1, <2>3, Answering
<1>3. CASE ~Expired(i) /\ challenges[i].status = "verified"
  <2>1. /\ Answers(c) /\ UNCHANGED <<challenges, lapsed>> /\ Id' = Id
        /\ claimed' = claimed \cup {challenges[i].target}
    BY <1>3 DEF LookUp, Id
  <2>2. QED
    BY <1>0, <1>1, <1>3, <2>1, Answering DEF TypeOK
<1>4. CASE ~Expired(i) /\ challenges[i].status # "verified"
  <2> DEFINE r == [Idle EXCEPT !.pc = "fetching", !.target = challenges[i].target,
                               !.id = i]
  <2>1. /\ UNCHANGED <<challenges, claimed, lapsed>> /\ Id' = Id
        /\ client' = [client EXCEPT ![c] = r]
    BY <1>4 DEF LookUp, Id
  <2>2. /\ r \in Request /\ r.pc = "fetching" /\ r.id = i
        /\ r.target = challenges[i].target
    BY <1>0 DEF Idle, PCs, Request
  <2> HIDE DEF r
  <2>3. QED
    BY <1>0, <1>1, <1>4, <2>1, <2>2, TakingUp DEF TypeOK
<1>5. QED
  BY <1>2, <1>3, <1>4

(* A proof is found for the challenge at hand.                              *)
LEMMA FoundFacts ==
  ASSUME TypeOK, NEW c \in Client, ProofFound(c)
  PROVE  /\ client' \in [Client -> Request] /\ client[c].pc = "fetching"
         /\ client'[c].pc = "found" /\ client'[c].id = client[c].id
         /\ client'[c].target = client[c].target
         /\ \A d \in Client \ {c} : client'[d] = client[d]
         /\ proved' = proved \cup {client[c].target} /\ Id' = Id
         /\ UNCHANGED <<challenges, verified, placed, now, requests, revocations,
                        revoked, claimed, undone, overruled, lapsed>>
<1>1. client \in [Client -> Request] /\ client[c] \in Request
  BY DEF TypeOK
<1>2. client' = [client EXCEPT ![c] = [client[c] EXCEPT !.pc = "found", !.met = FALSE]]
  BY DEF ProofFound
<1>3. client' \in [Client -> Request] /\ client'[c].pc = "found"
      /\ client'[c].id = client[c].id /\ client'[c].target = client[c].target
      /\ \A d \in Client \ {c} : client'[d] = client[d]
  BY <1>1, <1>2 DEF Request, PCs
<1>4. QED
  BY <1>3 DEF ProofFound, Id

(* No proof: the record fails, whoever verified it in the meantime.         *)
LEMMA MissingFacts ==
  ASSUME TypeOK, NEW c \in Client, ProofMissing(c)
  PROVE  /\ client' \in [Client -> Request] /\ client[c].pc = "fetching"
         /\ client[c].id \in Id /\ client[c].target \in Target /\ client'[c].pc = "idle"
         /\ \A d \in Client \ {c} : client'[d] = client[d]
         /\ challenges' \in Seq(Challenge) /\ Id' = Id
         /\ \A j \in Id : /\ challenges'[j].target = challenges[j].target
                          /\ challenges'[j].expires = challenges[j].expires
                          /\ challenges'[j].status =
                               IF j = client[c].id THEN "failed" ELSE challenges[j].status
         /\ lapsed' = lapsed \ {client[c].id}
         /\ overruled' = IF client[c].met /\ Proven(client[c].id)
                           THEN overruled \cup {client[c].target} ELSE overruled
         /\ UNCHANGED <<verified, placed, now, requests, revocations, revoked, proved,
                        claimed, undone>>
<1>1. /\ client[c].pc = "fetching" /\ client[c].id \in Id /\ client[c].target \in Target
      /\ challenges' = [challenges EXCEPT ![client[c].id].status = "failed"]
      /\ "failed" \in OwnershipStatus /\ challenges \in Seq(Challenge) /\ Answers(c)
  BY DEF ProofMissing, TypeOK, OwnershipStatus
<1>2. /\ challenges' \in Seq(Challenge) /\ Id' = Id
      /\ \A j \in Id : /\ challenges'[j].target = challenges[j].target
                       /\ challenges'[j].expires = challenges[j].expires
                       /\ challenges'[j].status =
                            IF j = client[c].id THEN "failed" ELSE challenges[j].status
  BY <1>1, StatusWrite
<1>3. QED
  BY <1>1, <1>2, Answering DEF ProofMissing

(* A note of what a request met changes nothing else of it.                 *)
LEMMA Noting ==
  ASSUME NEW r \in Request, NEW note \in BOOLEAN, NEW q,
         q = [r EXCEPT !.met = r.met \/ note]
  PROVE  /\ q \in Request /\ q.pc = r.pc /\ q.target = r.target /\ q.id = r.id
         /\ q.method = r.method /\ q.seen = r.seen /\ q.met = (r.met \/ note)
<1>1. (r.met \/ note) \in BOOLEAN
  BY DEF Request
<1>2. QED
  BY <1>1 DEF Request

(* The record is verified, and whoever meets this check takes note.         *)
LEMMA MarkFacts ==
  ASSUME TypeOK, NEW c \in Client, MarkVerified(c)
  PROVE  /\ client' \in [Client -> Request] /\ client[c].pc = "found"
         /\ client[c].id \in Id /\ client[c].target \in Target
         /\ client'[c].pc = "marked" /\ client'[c].id = client[c].id
         /\ client'[c].target = client[c].target /\ client'[c].met = client[c].met
         /\ \A d \in Client \ {c} :
              /\ client'[d].pc = client[d].pc /\ client'[d].target = client[d].target
              /\ client'[d].id = client[d].id /\ client'[d].method = client[d].method
              /\ client'[d].seen = client[d].seen
              /\ client'[d].met = (client[d].met \/ Meets(d, client[c].id))
         /\ challenges' \in Seq(Challenge) /\ Id' = Id
         /\ \A j \in Id : /\ challenges'[j].target = challenges[j].target
                          /\ challenges'[j].expires = challenges[j].expires
                          /\ challenges'[j].status =
                               IF j = client[c].id THEN "verified" ELSE challenges[j].status
         /\ undone' = IF client[c].met THEN undone \cup {client[c].target} ELSE undone
         /\ overruled' = overruled \ {client[c].target}
         /\ lapsed' = lapsed \ IdsOf(client[c].target)
         /\ UNCHANGED <<verified, placed, now, requests, revocations, revoked, proved, claimed>>
<1> DEFINE i == client[c].id
           r == [client[c] EXCEPT !.pc = "marked"]
<1>1. /\ client[c].pc = "found" /\ i \in Id /\ client[c].target \in Target
      /\ challenges' = [challenges EXCEPT ![i].status = "verified"]
      /\ "verified" \in OwnershipStatus /\ challenges \in Seq(Challenge)
  BY DEF MarkVerified, TypeOK, OwnershipStatus
<1>2. /\ challenges' \in Seq(Challenge) /\ Id' = Id
      /\ \A j \in Id : /\ challenges'[j].target = challenges[j].target
                       /\ challenges'[j].expires = challenges[j].expires
                       /\ challenges'[j].status = IF j = i THEN "verified" ELSE challenges[j].status
  BY <1>1, StatusWrite
<1>3. client[c] \in Request
  BY DEF TypeOK
<1>4. /\ r \in Request /\ r.pc = "marked" /\ r.id = client[c].id
      /\ r.target = client[c].target /\ r.met = client[c].met
  BY <1>3 DEF Request, PCs
<1>5. client' = [d \in Client |-> IF d = c THEN r ELSE [client[d] EXCEPT !.met = @ \/ Meets(d, i)]]
  BY DEF MarkVerified
<1>6. \A d \in Client : Meets(d, i) \in BOOLEAN
  BY DEF Meets
<1>d. ASSUME NEW d \in Client \ {c}
      PROVE  /\ client'[d] \in Request
             /\ client'[d].pc = client[d].pc /\ client'[d].target = client[d].target
             /\ client'[d].id = client[d].id /\ client'[d].method = client[d].method
             /\ client'[d].seen = client[d].seen
             /\ client'[d].met = (client[d].met \/ Meets(d, i))
  <2>1. client[d] \in Request
    BY DEF TypeOK
  <2>2. client'[d] = [client[d] EXCEPT !.met = client[d].met \/ Meets(d, i)]
    BY <1>5
  <2>3. QED
    BY <1>6, <2>1, <2>2, Noting
<1> HIDE DEF r
<1>7. client'[c] = r /\ client' \in [Client -> Request]
  <2>1. client'[c] = r /\ client' = [d \in Client |-> client'[d]]
    BY <1>5
  <2>2. QED
    BY <1>4, <1>d, <2>1
<1>8. /\ undone' = IF client[c].met THEN undone \cup {client[c].target} ELSE undone
      /\ overruled' = overruled \ {client[c].target}
      /\ lapsed' = lapsed \ IdsOf(client[c].target)
      /\ UNCHANGED <<verified, placed, now, requests, revocations, revoked, proved, claimed>>
  BY DEF MarkVerified, Undoes
<1>9. QED
  BY <1>1, <1>2, <1>4, <1>d, <1>7, <1>8

(* A revocation starts with the set.                                        *)
LEMMA RevokeFacts ==
  ASSUME TypeOK, NEW c \in Client, NEW t \in Target, Revoke(c, t)
  PROVE  /\ client' \in [Client -> Request]
         /\ client'[c].pc = "revoking" /\ client'[c].target = t /\ client'[c].id = 0
         /\ client'[c].seen \in Nat /\ client'[c].met = Writing(t)
         /\ \A d \in Client \ {c} : client'[d] = client[d]
         /\ UNCHANGED <<challenges, placed, now, requests, history>>
         /\ Id' = Id /\ verified' = verified \ {t}
<1> DEFINE r == [Idle EXCEPT !.pc = "revoking", !.target = t, !.seen = Len(challenges),
                             !.met = Writing(t)]
<1>0. Writing(t) \in BOOLEAN
  BY DEF Writing
<1>1. /\ r \in Request /\ r.pc = "revoking" /\ r.target = t /\ r.id = 0
      /\ r.seen \in Nat /\ r.met = Writing(t)
  BY <1>0, Ids DEF TypeOK, Idle, PCs, Request
<1>2. client' = [client EXCEPT ![c] = r] /\ Id' = Id
  BY DEF Revoke, Id
<1> HIDE DEF r
<1>3. QED
  BY <1>1, <1>2, TakingUp DEF Revoke

(* A step of the walk fails one record, if it is one of the target.         *)
LEMMA WalkFacts ==
  ASSUME TypeOK, NEW c \in Client, RevokeRecord(c)
  PROVE  /\ client' \in [Client -> Request] /\ client[c].pc = "revoking"
         /\ client[c].target \in Target /\ client[c].id + 1 \in Id
         /\ client'[c].pc = "revoking" /\ client'[c].target = client[c].target
         /\ client'[c].id = client[c].id + 1 /\ client'[c].seen = client[c].seen
         /\ client'[c].met = client[c].met /\ client'[c].id <= client'[c].seen
         /\ \A d \in Client \ {c} : client'[d] = client[d]
         /\ challenges' \in Seq(Challenge) /\ Id' = Id
         /\ \A j \in Id : /\ challenges'[j].target = challenges[j].target
                          /\ challenges'[j].expires = challenges[j].expires
                          /\ challenges'[j].status =
                               IF j = client[c].id + 1 /\ challenges[j].target = client[c].target
                                 THEN "failed" ELSE challenges[j].status
         /\ lapsed' = IF challenges[client[c].id + 1].target = client[c].target
                        THEN lapsed \ {client[c].id + 1} ELSE lapsed
         /\ overruled' = IF /\ challenges[client[c].id + 1].target = client[c].target
                            /\ client[c].met /\ Proven(client[c].id + 1)
                           THEN overruled \cup {client[c].target} ELSE overruled
         /\ UNCHANGED <<verified, placed, now, requests, revocations, revoked, proved,
                        claimed, undone>>
<1> DEFINE i == client[c].id + 1
           r == [client[c] EXCEPT !.id = i]
<1>1. /\ client[c].pc = "revoking" /\ client[c].target \in Target
      /\ client[c].seen = Len(challenges) /\ client[c].id < client[c].seen
      /\ challenges \in Seq(Challenge) /\ client[c] \in Request
  BY DEF RevokeRecord, Walking, TypeOK
<1>2. client[c].id \in Nat /\ client[c].seen \in Nat
  BY <1>1 DEF Request
<1>3. i \in Id /\ i \in Nat /\ i <= client[c].seen
  BY <1>1, <1>2, Ids
<1>4. /\ r \in Request /\ r.pc = "revoking" /\ r.target = client[c].target /\ r.id = i
      /\ r.seen = client[c].seen /\ r.met = client[c].met
  BY <1>1, <1>3 DEF Request
<1>5. client' = [client EXCEPT ![c] = r]
  BY DEF RevokeRecord
<1>6. CASE challenges[i].target = client[c].target
  <2>1. challenges' = [challenges EXCEPT ![i].status = "failed"] /\ "failed" \in OwnershipStatus
    BY <1>6 DEF RevokeRecord, OwnershipStatus
  <2>2. /\ challenges' \in Seq(Challenge) /\ Id' = Id
        /\ \A j \in Id : /\ challenges'[j].target = challenges[j].target
                         /\ challenges'[j].expires = challenges[j].expires
                         /\ challenges'[j].status = IF j = i THEN "failed" ELSE challenges[j].status
    BY <1>1, <1>3, <2>1, StatusWrite
  <2> HIDE DEF r
  <2>3. QED
    BY <1>1, <1>3, <1>4, <1>5, <1>6, <2>2, TakingUp DEF RevokeRecord
<1>7. CASE challenges[i].target # client[c].target
  <2>1. UNCHANGED <<challenges, overruled, lapsed>> /\ Id' = Id
    BY <1>7 DEF RevokeRecord, Id
  <2> HIDE DEF r
  <2>2. QED
    BY <1>1, <1>3, <1>4, <1>5, <1>7, <2>1, TakingUp DEF RevokeRecord
<1>8. QED
  BY <1>6, <1>7

(* The end of a revocation, noted by the checks that hold an older proof.   *)
LEMMA RevokedFacts ==
  ASSUME TypeOK, NEW c \in Client, RevokeEnds(c)
  PROVE  /\ client' \in [Client -> Request] /\ client[c].pc = "revoking"
         /\ client[c].target \in Target /\ client[c].id = Len(challenges)
         /\ client'[c].pc = "idle"
         /\ \A d \in Client \ {c} :
              /\ client'[d].pc = client[d].pc /\ client'[d].target = client[d].target
              /\ client'[d].id = client[d].id /\ client'[d].method = client[d].method
              /\ client'[d].seen = client[d].seen
              /\ client'[d].met = (client[d].met \/ HasProof(d, client[c].target))
         /\ Id' = Id /\ revoked' = revoked \cup {client[c].target}
         /\ proved' = proved \ {client[c].target}
         /\ claimed' = claimed \ {client[c].target}
         /\ undone' = IF client[c].met THEN undone \cup {client[c].target}
                                       ELSE undone \ {client[c].target}
         /\ UNCHANGED <<challenges, verified, placed, now, requests, revocations, overruled,
                        lapsed>>
<1> DEFINE t == client[c].target
<1>1. /\ client[c].pc = "revoking" /\ t \in Target /\ client[c].id = Len(challenges)
  BY DEF RevokeEnds, Walking, TypeOK
<1>2. client' = [d \in Client |-> IF d = c THEN Idle
                                 ELSE [client[d] EXCEPT !.met = @ \/ HasProof(d, t)]]
  BY DEF RevokeEnds
<1>3. ASSUME NEW d \in Client \ {c}
      PROVE  /\ client'[d] \in Request
             /\ client'[d].pc = client[d].pc /\ client'[d].target = client[d].target
             /\ client'[d].id = client[d].id /\ client'[d].method = client[d].method
             /\ client'[d].seen = client[d].seen
             /\ client'[d].met = (client[d].met \/ HasProof(d, t))
  <2>1. client[d] \in Request /\ HasProof(d, t) \in BOOLEAN
    BY DEF TypeOK, HasProof
  <2>2. client'[d] = [client[d] EXCEPT !.met = client[d].met \/ HasProof(d, t)]
    BY <1>2
  <2>3. QED
    BY <2>1, <2>2, Noting
<1>4. client'[c] = Idle /\ Idle \in Request /\ Idle.pc = "idle"
  BY <1>2 DEF Idle, Request, PCs
<1>5. client' \in [Client -> Request]
  <2>1. client' = [d \in Client |-> client'[d]]
    BY <1>2
  <2>2. QED
    BY <1>3, <1>4, <2>1
<1>6. QED
  BY <1>1, <1>3, <1>4, <1>5 DEF RevokeEnds, Id

(* What a look-up does to the types.                                        *)
LEMMA LookUpTypes ==
  ASSUME TypeOK, NEW c \in Client, NEW i \in Id, LookUp(c, i)
  PROVE  TypeOK'
<1>1. requests' \in Nat
  BY DEF LookUp, TypeOK
<1>2. lapsed' \subseteq Id /\ claimed' \subseteq Target
  BY LookUpFacts DEF TypeOK
<1>3. QED
  BY <1>1, <1>2, LookUpFacts DEF TypeOK

(* What a check does to its request, its record and the sets.               *)
LEMMA CheckTypes ==
  ASSUME TypeOK, Checking
  PROVE  TypeOK'
<1>1. ASSUME NEW c \in Client, CheckUnknown(c) \/ FileRaises(c)
      PROVE  TypeOK'
  <2>1. /\ Answers(c) /\ UNCHANGED <<challenges, verified, placed, now, revocations, history>>
        /\ requests' \in {requests, requests + 1}
    BY <1>1 DEF CheckUnknown, FileRaises
  <2>2. requests' \in Nat
    BY <2>1 DEF TypeOK
  <2>3. QED
    BY <2>1, <2>2, Answering DEF TypeOK, history, Id
<1>2. ASSUME NEW c \in Client, NEW i \in Id, LookUp(c, i)
      PROVE  TypeOK'
  BY <1>2, LookUpTypes
<1>3. ASSUME NEW c \in Client, ProofFound(c)
      PROVE  TypeOK'
  BY <1>3, FoundFacts DEF TypeOK
<1>4. ASSUME NEW c \in Client, ProofMissing(c)
      PROVE  TypeOK'
  <2>1. overruled' \subseteq Target /\ lapsed' \subseteq Id
    BY <1>4, MissingFacts DEF TypeOK
  <2>2. QED
    BY <1>4, <2>1, MissingFacts DEF TypeOK
<1>5. ASSUME NEW c \in Client, MarkVerified(c)
      PROVE  TypeOK'
  <2>1. undone' \subseteq Target /\ overruled' \subseteq Target /\ lapsed' \subseteq Id
    BY <1>5, MarkFacts DEF TypeOK
  <2>2. ASSUME NEW d \in Client
        PROVE  /\ client'[d].pc # "idle" => client'[d].target \in Target
               /\ client'[d].pc \in {"starting", "adding"} => client'[d].method \in Method
               /\ client'[d].pc \in {"fetching", "found", "marked"} => client'[d].id \in Id
               /\ client'[d].pc = "revoking" => client'[d].id <= client'[d].seen
    BY <1>5, MarkFacts DEF TypeOK
  <2>3. QED
    BY <1>5, <2>1, <2>2, MarkFacts DEF TypeOK
<1>6. ASSUME NEW c \in Client, AddVerified(c)
      PROVE  TypeOK'
  <2>1. undone' \subseteq Target /\ client[c].target \in Target
    BY <1>6 DEF AddVerified, Undoes, TypeOK
  <2>2. QED
    BY <1>6, <2>1, Answering DEF AddVerified, TypeOK, Id
<1>7. QED
  BY <1>1, <1>2, <1>3, <1>4, <1>5, <1>6 DEF Checking

(* What a revocation does to its request, the records and the sets.         *)
LEMMA RevokeTypes ==
  ASSUME TypeOK, Revoking
  PROVE  TypeOK'
<1>1. ASSUME NEW c \in Client, NEW t \in Target, Revoke(c, t)
      PROVE  TypeOK'
  <2>1. revocations' \in Nat
    BY <1>1 DEF Revoke, TypeOK
  <2>2. client'[c].id <= client'[c].seen
    BY <1>1, RevokeFacts
  <2>3. QED
    BY <1>1, <2>1, <2>2, RevokeFacts DEF TypeOK, history
<1>2. ASSUME NEW c \in Client, RevokeRecord(c)
      PROVE  TypeOK'
  <2>1. overruled' \subseteq Target /\ lapsed' \subseteq Id
    BY <1>2, WalkFacts DEF TypeOK
  <2>2. QED
    BY <1>2, <2>1, WalkFacts DEF TypeOK
<1>3. ASSUME NEW c \in Client, RevokeEnds(c)
      PROVE  TypeOK'
  <2>1. revoked' \cup proved' \cup claimed' \cup undone' \subseteq Target
    BY <1>3, RevokedFacts DEF TypeOK
  <2>2. ASSUME NEW d \in Client
        PROVE  /\ client'[d].pc # "idle" => client'[d].target \in Target
               /\ client'[d].pc \in {"starting", "adding"} => client'[d].method \in Method
               /\ client'[d].pc \in {"fetching", "found", "marked"} => client'[d].id \in Id
               /\ client'[d].pc = "revoking" => client'[d].id <= client'[d].seen
    BY <1>3, RevokedFacts DEF TypeOK
  <2>3. QED
    BY <1>3, <2>1, <2>2, RevokedFacts DEF TypeOK
<1>4. ASSUME NEW c \in Client, RevokeRaises(c)
      PROVE  TypeOK'
  BY <1>4, Answering DEF RevokeRaises, TypeOK, history, Id
<1>5. QED
  BY <1>1, <1>2, <1>3, <1>4 DEF Revoking

(* Type correctness is kept by every step.                                  *)
LEMMA TypeStep ==
  ASSUME TypeOK, [Next]_vars
  PROVE  TypeOK'
<1>1. CASE Starting \/ Checking \/ Revoking
  BY <1>1, StartTypes, CheckTypes, RevokeTypes
<1>2. ASSUME NEW i \in Id, PlaceProof(i)
      PROVE  TypeOK'
  BY <1>2 DEF PlaceProof, TypeOK, history, Id
<1>3. ASSUME NEW i \in placed, RemoveProof(i)
      PROVE  TypeOK'
  BY <1>3 DEF RemoveProof, TypeOK, history, Id
<1>4. CASE Tick
  BY <1>4, OwnershipAssumption DEF Tick, TypeOK, history, Id, OwnershipAssumption
<1>5. CASE UNCHANGED vars
  BY <1>5 DEF vars, TypeOK, history, Id
<1>6. QED
  BY <1>1, <1>2, <1>3, <1>4, <1>5 DEF Next

-----------------------------------------------------------------------------
(* What is said of targets, step by step *)

CheckInv == ChallengeInv /\ RevokingInv /\ QuietInv /\ RecordInv

(* Records that others of a target keep, and time that goes on.             *)
SameRecord(j) == /\ challenges'[j].target = challenges[j].target
                 /\ challenges'[j].expires = challenges[j].expires
                 /\ challenges'[j].status = challenges[j].status

(* The sets of targets and the notes about them.                            *)
sets == <<verified, revoked, proved, claimed, undone, overruled, lapsed>>

(* A step that says nothing of a target: requests come, go, count and add a *)
(* challenge, the owner moves the proof, time passes.                       *)
LEMMA FrameStep ==
  ASSUME TypeOK, TypeOK', CheckInv, UNCHANGED sets, now <= now', Id \subseteq Id',
         \A j \in Id : SameRecord(j),
         \A j \in Id' \ Id : challenges'[j].status = "pending",
         \A d \in Client : \/ client'[d] = client[d]
                           \/ client'[d].pc \in {"idle", "starting", "adding"}
  PROVE  CheckInv'
<1> USE DEF SameRecord
<1>0. UNCHANGED <<verified, revoked, proved, claimed, undone, overruled, lapsed>>
  BY DEF sets
<1>1. \A t : Writing(t)' => Writing(t)
  BY DEF Writing
<1>2. \A j \in Id : Proven(j)' = Proven(j)
  BY <1>0 DEF Proven
<1>3. \A t : /\ IdsOf(t) \subseteq IdsOf(t)'
             /\ \A j \in IdsOf(t)' : j \in IdsOf(t) \/ challenges'[j].status = "pending"
  BY DEF IdsOf
<1>4. ChallengeInv'
  <2>1. \A d \in Client : client'[d].pc \in {"fetching", "found", "marked"}
          => client'[d] = client[d] /\ client[d].id \in Id
    BY DEF TypeOK
  <2>2. \A j \in lapsed : j \in Id /\ challenges[j].expires \in Nat
    BY Ids DEF TypeOK, Challenge
  <2>3. now \in Nat /\ now' \in Nat
    BY OwnershipAssumption DEF TypeOK, OwnershipAssumption
  <2>4. \A j \in lapsed' : Expired(j)'
    BY <1>0, <2>2, <2>3 DEF CheckInv, ChallengeInv, Expired
  <2>5. QED
    BY <1>2, <2>1, <2>4 DEF CheckInv, ChallengeInv
<1>5. RevokingInv'
  <2>1. ASSUME NEW d \in Client, client'[d].pc = "revoking", ~client'[d].met,
               NEW t, t = client'[d].target
        PROVE  /\ t \notin verified' /\ ~Writing(t)'
               /\ \A j \in IdsOf(t)' : j <= client'[d].id => challenges'[j].status # "verified"
    <3>1. client'[d] = client[d]
      BY <2>1
    <3>2. /\ t \notin verified /\ ~Writing(t)
          /\ \A j \in IdsOf(t) : j <= client[d].id => challenges[j].status # "verified"
      BY <2>1, <3>1 DEF CheckInv, RevokingInv
    <3>3. \A j \in IdsOf(t)' : j <= client'[d].id => challenges'[j].status # "verified"
      BY <1>3, <3>1, <3>2 DEF IdsOf
    <3>4. QED
      BY <1>0, <1>1, <3>2, <3>3
  <2>2. QED
    BY <2>1 DEF RevokingInv
<1>6. QuietInv'
  <2>1. \A d \in Client : \A t : HasProof(d, t)' => HasProof(d, t) /\ client'[d] = client[d]
    BY DEF HasProof
  <2>2. QED
    BY <1>0, <1>3, <2>1 DEF CheckInv, QuietInv, IdsOf
<1>7. RecordInv'
  <2>1. \A t : Backed(t) => Backed(t)'
    BY <1>0, <1>2, <1>3 DEF Backed, IdsOf
  <2>2. QED
    BY <1>0, <1>1, <2>1 DEF CheckInv, RecordInv
<1>8. QED
  BY <1>4, <1>5, <1>6, <1>7 DEF CheckInv

(* A look-up lets a record expire, answers, or begins to fetch.             *)
LEMMA LookUpStep ==
  ASSUME TypeOK, CheckInv, NEW c \in Client, NEW i \in Id, LookUp(c, i)
  PROVE  CheckInv'
<1> DEFINE t == challenges[i].target
<1>f. /\ \A d \in Client \ {c} : client'[d] = client[d]
      /\ Id' = Id /\ t \in Target
      /\ \A j \in Id : /\ challenges'[j].target = challenges[j].target
                       /\ challenges'[j].expires = challenges[j].expires
      /\ UNCHANGED <<verified, now, revoked, proved, undone, overruled>>
  BY LookUpFacts
<1>i. \A u : IdsOf(u)' = IdsOf(u)
  BY <1>f DEF IdsOf
<1>e. \A j \in Id : Expired(j)' = Expired(j)
  BY <1>f DEF Expired
<1>c. ChallengeInv /\ RevokingInv /\ QuietInv /\ RecordInv /\ lapsed \subseteq Id
  BY DEF CheckInv, TypeOK
<1>1. CASE /\ client'[c].pc = "idle" /\ claimed' = claimed /\ Expired(i)
           /\ lapsed' = IF challenges[i].status = "verified" THEN lapsed \cup {i} ELSE lapsed
           /\ \A j \in Id : challenges'[j].status =
                              IF j = i THEN "expired" ELSE challenges[j].status
  <2>1. \A j \in Id : Proven(j)' = Proven(j)
    BY <1>1 DEF Proven
  <2>2. \A u : Writing(u)' => Writing(u)
    BY <1>1, <1>f DEF Writing
  <2>3. \A d \in Client : client'[d].pc # "idle" => client'[d] = client[d]
    BY <1>1, <1>f
  <2>4. ChallengeInv'
    <3>1. \A d \in Client : client[d].pc \in {"fetching", "found", "marked"}
                              => client[d].id \in Id
      BY DEF TypeOK
    <3>2. \A j \in lapsed' : Expired(j)'
      BY <1>1, <1>c, <1>e DEF ChallengeInv
    <3>3. QED
      BY <1>c, <1>f, <2>1, <2>3, <3>1, <3>2 DEF ChallengeInv
  <2>5. \A u : \A j \in IdsOf(u)' : j \in IdsOf(u) /\
                  (challenges'[j].status = "verified" => challenges[j].status = "verified")
    BY <1>1, <1>i DEF IdsOf
  <2>6. RevokingInv'
    BY <1>c, <1>f, <2>2, <2>3, <2>5 DEF RevokingInv
  <2>7. QuietInv'
    BY <1>1, <1>c, <1>f, <2>3, <2>5 DEF QuietInv, HasProof
  <2>8. RecordInv'
    <3>1. \A u : Backed(u) => Backed(u)'
      BY <1>f, <1>i, <2>1 DEF Backed, IdsOf
    <3>2. QED
      BY <1>c, <1>f, <2>2, <3>1 DEF RecordInv
  <2>9. QED
    BY <2>4, <2>6, <2>7, <2>8 DEF CheckInv
<1>2. CASE /\ client'[c].pc = "idle" /\ challenges[i].status = "verified"
           /\ claimed' = claimed \cup {t} /\ UNCHANGED <<challenges, lapsed>>
  <2>1. \A u : Writing(u)' => Writing(u)
    BY <1>2, <1>f DEF Writing
  <2>2. \A d \in Client : client'[d].pc # "idle" => client'[d] = client[d]
    BY <1>2, <1>f
  <2>3. ChallengeInv'
    BY <1>2, <1>c, <1>e, <1>f, <2>2 DEF ChallengeInv, Proven, TypeOK
  <2>4. RevokingInv'
    BY <1>2, <1>c, <1>f, <1>i, <2>1, <2>2 DEF RevokingInv
  <2>5. i \in IdsOf(t)
    BY DEF IdsOf
  <2>6. t \notin revoked \ (proved \cup undone)
    BY <1>2, <1>c, <2>5 DEF QuietInv
  <2>7. QuietInv'
    BY <1>2, <1>c, <1>f, <1>i, <2>2, <2>6 DEF QuietInv, HasProof
  <2>8. RecordInv'
    BY <1>2, <1>c, <1>f, <1>i, <2>1 DEF RecordInv, Backed, Proven
  <2>9. QED
    BY <2>3, <2>4, <2>7, <2>8 DEF CheckInv
<1>3. CASE /\ client'[c].pc = "fetching" /\ client'[c].id = i /\ client'[c].target = t
           /\ ~Expired(i) /\ challenges[i].status # "verified"
           /\ UNCHANGED <<challenges, lapsed, claimed>>
  <2>1. \A u : Writing(u)' => Writing(u)
    BY <1>3, <1>f DEF Writing
  <2>2. \A d \in Client : client'[d].pc # "fetching" => client'[d] = client[d]
    BY <1>3, <1>f
  <2>3. ~Proven(i)
    BY <1>3, <1>c DEF ChallengeInv, Proven
  <2>4. \A j : Proven(j)' = Proven(j)
    BY <1>3 DEF Proven
  <2>5. ChallengeInv'
    <3>1. \A j \in lapsed' : Expired(j)'
      BY <1>3, <1>c, <1>e DEF ChallengeInv
    <3>2. ASSUME NEW d \in Client, NEW j, j = client'[d].id
          PROVE  /\ client'[d].pc \in {"fetching", "found", "marked"}
                      => challenges'[j].target = client'[d].target
                 /\ client'[d].pc = "fetching" /\ ~client'[d].met => ~Proven(j)'
      <4>1. CASE d = c
        BY <1>3, <2>3, <2>4, <3>2, <4>1
      <4>2. CASE d # c
        BY <1>3, <1>c, <1>f, <2>4, <3>2, <4>2 DEF ChallengeInv
      <4>3. QED
        BY <4>1, <4>2
    <3>3. QED
      BY <3>1, <3>2 DEF ChallengeInv, Proven
  <2>6. RevokingInv'
    BY <1>3, <1>c, <1>f, <1>i, <2>1, <2>2 DEF RevokingInv
  <2>7. QuietInv'
    BY <1>3, <1>c, <1>f, <1>i, <2>2 DEF QuietInv, HasProof
  <2>8. RecordInv'
    BY <1>3, <1>c, <1>f, <1>i, <2>1, <2>4 DEF RecordInv, Backed
  <2>9. QED
    BY <2>5, <2>6, <2>7, <2>8 DEF CheckInv
<1>4. QED
  BY <1>1, <1>2, <1>3, LookUpFacts

(* A proof found: from here on the target may be owned again.               *)
LEMMA FoundStep ==
  ASSUME TypeOK, CheckInv, NEW c \in Client, ProofFound(c)
  PROVE  CheckInv'
<1>f. /\ client[c].pc = "fetching" /\ client'[c].pc = "found"
      /\ client'[c].id = client[c].id /\ client'[c].target = client[c].target
      /\ \A d \in Client \ {c} : client'[d] = client[d]
      /\ proved' = proved \cup {client[c].target} /\ Id' = Id
      /\ UNCHANGED <<challenges, verified, now, revoked, claimed, undone, overruled, lapsed>>
  BY FoundFacts
<1>c. ChallengeInv /\ RevokingInv /\ QuietInv /\ RecordInv
  BY DEF CheckInv
<1>i. \A u : IdsOf(u)' = IdsOf(u)
  BY <1>f DEF IdsOf
<1>w. \A u : Writing(u)' => Writing(u)
  BY <1>f DEF Writing
<1>1. ChallengeInv'
  <2>1. \A j \in lapsed' : Expired(j)'
    BY <1>c, <1>f DEF ChallengeInv, Expired
  <2>2. ASSUME NEW d \in Client, NEW j, j = client'[d].id
        PROVE  /\ client'[d].pc \in {"fetching", "found", "marked"}
                    => challenges'[j].target = client'[d].target
               /\ client'[d].pc = "fetching" /\ ~client'[d].met => ~Proven(j)'
    <3>1. CASE d = c
      BY <1>c, <1>f, <2>2, <3>1 DEF ChallengeInv
    <3>2. CASE d # c
      BY <1>c, <1>f, <2>2, <3>2 DEF ChallengeInv, Proven
    <3>3. QED
      BY <3>1, <3>2
  <2>3. QED
    BY <2>1, <2>2 DEF ChallengeInv, Proven
<1>2. RevokingInv'
  <2>1. \A d \in Client : client'[d].pc = "revoking" => client'[d] = client[d]
    BY <1>f
  <2>2. QED
    BY <1>c, <1>f, <1>i, <1>w, <2>1 DEF RevokingInv
<1>3. QuietInv'
  <2>1. ASSUME NEW u, u # client[c].target, NEW d \in Client, HasProof(d, u)'
        PROVE  HasProof(d, u) /\ client'[d] = client[d]
    BY <1>f, <2>1 DEF HasProof
  <2>2. QED
    BY <1>c, <1>f, <1>i, <2>1 DEF QuietInv
<1>4. RecordInv'
  BY <1>c, <1>f, <1>i, <1>w DEF RecordInv, Backed, Proven
<1>5. QED
  BY <1>1, <1>2, <1>3, <1>4 DEF CheckInv

(* A proof missing: it takes back only what another check verified while    *)
(* this one was fetching.                                                   *)
LEMMA MissingStep ==
  ASSUME TypeOK, CheckInv, NEW c \in Client, ProofMissing(c)
  PROVE  CheckInv'
<1> DEFINE i == client[c].id  t == client[c].target
<1>f. /\ client[c].pc = "fetching" /\ i \in Id /\ t \in Target /\ client'[c].pc = "idle"
      /\ \A d \in Client \ {c} : client'[d] = client[d]
      /\ Id' = Id
      /\ \A j \in Id : /\ challenges'[j].target = challenges[j].target
                       /\ challenges'[j].expires = challenges[j].expires
                       /\ challenges'[j].status = IF j = i THEN "failed" ELSE challenges[j].status
      /\ lapsed' = lapsed \ {i}
      /\ overruled' = IF client[c].met /\ Proven(i) THEN overruled \cup {t} ELSE overruled
      /\ UNCHANGED <<verified, now, revoked, proved, claimed, undone>>
  BY MissingFacts
<1>c. ChallengeInv /\ RevokingInv /\ QuietInv /\ RecordInv /\ lapsed \subseteq Id
  BY DEF CheckInv, TypeOK
<1> HIDE DEF i, t
<1>i. \A u : IdsOf(u)' = IdsOf(u)
  BY <1>f DEF IdsOf
<1>w. \A u : Writing(u)' => Writing(u)
  BY <1>f DEF Writing
<1>d. \A d \in Client : client'[d].pc # "idle" => client'[d] = client[d]
  BY <1>f
<1>v. \A j \in Id : /\ challenges'[j].status = "verified" => challenges[j].status = "verified"
                    /\ Proven(j)' => Proven(j)
                    /\ j # i /\ Proven(j) => Proven(j)'
  BY <1>f DEF Proven
<1>1. ChallengeInv'
  <2>1. \A d \in Client : client[d].pc \in {"fetching", "found", "marked"} => client[d].id \in Id
    BY DEF TypeOK
  <2>2. \A j \in lapsed' : Expired(j)'
    BY <1>c, <1>f DEF ChallengeInv, Expired
  <2>3. QED
    BY <1>c, <1>d, <1>f, <1>v, <2>1, <2>2 DEF ChallengeInv
<1>2. RevokingInv'
  BY <1>c, <1>d, <1>f, <1>i, <1>v, <1>w DEF RevokingInv, IdsOf
<1>3. QuietInv'
  BY <1>c, <1>d, <1>f, <1>i, <1>v DEF QuietInv, HasProof, IdsOf
<1>4. RecordInv'
  <2>1. challenges[i].target = t /\ (~client[c].met => ~Proven(i))
    BY <1>c, <1>f DEF ChallengeInv, i, t
  <2>2. ASSUME NEW u \in Target, Backed(u)
        PROVE  Backed(u)'
    <3>1. CASE u \in overruled
      BY <1>f, <3>1 DEF Backed
    <3>2. ASSUME NEW j \in IdsOf(u), Proven(j)
          PROVE  Backed(u)'
      <4>1. CASE j = i
        BY <1>f, <2>1, <3>2, <4>1 DEF Backed, IdsOf
      <4>2. CASE j # i
        BY <1>i, <1>v, <3>2, <4>2 DEF Backed, IdsOf
      <4>3. QED
        BY <4>1, <4>2
    <3>3. QED
      BY <2>2, <3>1, <3>2 DEF Backed
  <2>3. QED
    BY <1>c, <1>f, <1>w, <2>2 DEF RecordInv
<1>5. QED
  BY <1>1, <1>2, <1>3, <1>4 DEF CheckInv

(* A verdict written: whoever could mistake the record takes note.          *)
LEMMA MarkStep ==
  ASSUME TypeOK, CheckInv, NEW c \in Client, MarkVerified(c)
  PROVE  CheckInv'
<1> DEFINE i == client[c].id  t == client[c].target
<1>f. /\ client[c].pc = "found" /\ i \in Id /\ t \in Target
      /\ client'[c].pc = "marked" /\ client'[c].id = i /\ client'[c].target = t
      /\ client'[c].met = client[c].met
      /\ \A d \in Client \ {c} :
           /\ client'[d].pc = client[d].pc /\ client'[d].target = client[d].target
           /\ client'[d].id = client[d].id
           /\ client'[d].met = (client[d].met \/ Meets(d, i))
      /\ Id' = Id
      /\ \A j \in Id : /\ challenges'[j].target = challenges[j].target
                       /\ challenges'[j].expires = challenges[j].expires
                       /\ challenges'[j].status = IF j = i THEN "verified" ELSE challenges[j].status
      /\ undone' = IF client[c].met THEN undone \cup {t} ELSE undone
      /\ overruled' = overruled \ {t} /\ lapsed' = lapsed \ IdsOf(t)
      /\ UNCHANGED <<verified, now, revoked, proved, claimed>>
  BY MarkFacts
<1>c. ChallengeInv /\ RevokingInv /\ QuietInv /\ RecordInv /\ lapsed \subseteq Id
  BY DEF CheckInv, TypeOK
<1>t. challenges[i].target = t /\ \A d \in Client : client[d].met \in BOOLEAN
  BY <1>c, <1>f DEF ChallengeInv, TypeOK, Request
<1>h. HasProof(c, t)
  BY <1>f DEF HasProof
<1> HIDE DEF i, t
<1>i. \A u : IdsOf(u)' = IdsOf(u)
  BY <1>f DEF IdsOf
<1>w. \A u : u # t /\ Writing(u)' => Writing(u)
  BY <1>f DEF Writing
<1>1. ChallengeInv'
  <2>1. \A d \in Client : client[d].pc \in {"fetching", "found", "marked"} => client[d].id \in Id
    BY DEF TypeOK
  <2>2. \A j \in lapsed' : Expired(j)'
    BY <1>c, <1>f DEF ChallengeInv, Expired
  <2>3. ASSUME NEW d \in Client, NEW j, j = client'[d].id
        PROVE  /\ client'[d].pc \in {"fetching", "found", "marked"}
                    => challenges'[j].target = client'[d].target
               /\ client'[d].pc = "fetching" /\ ~client'[d].met => ~Proven(j)'
    <3>1. CASE d = c
      BY <1>f, <1>t, <2>3, <3>1
    <3>2. CASE d # c
      <4>1. client'[d].pc \in {"fetching", "found", "marked"}
              => challenges'[j].target = client'[d].target
        BY <1>c, <1>f, <2>1, <2>3, <3>2 DEF ChallengeInv
      <4>2. ASSUME client'[d].pc = "fetching", ~client'[d].met
            PROVE  ~Proven(j)'
        <5>1. ~client[d].met /\ ~Meets(d, i) /\ client[d].pc = "fetching"
              /\ client[d].id = j /\ j \in Id
          BY <1>f, <1>t, <2>1, <2>3, <3>2, <4>2
        <5>2. j # i /\ ~Proven(j)
          BY <1>c, <5>1 DEF ChallengeInv, Meets
        <5>3. QED
          BY <1>f, <5>1, <5>2 DEF Proven
      <4>3. QED
        BY <4>1, <4>2
    <3>3. QED
      BY <3>1, <3>2
  <2>4. QED
    BY <2>2, <2>3 DEF ChallengeInv, Proven
<1>2. RevokingInv'
  <2>1. ASSUME NEW d \in Client, client'[d].pc = "revoking", ~client'[d].met,
               NEW u, u = client'[d].target
        PROVE  /\ u \notin verified' /\ ~Writing(u)'
               /\ \A j \in IdsOf(u)' : j <= client'[d].id => challenges'[j].status # "verified"
    <3>1. d # c
      BY <1>f, <2>1
    <3>2. /\ client[d].pc = "revoking" /\ ~client[d].met /\ ~Meets(d, i)
          /\ client[d].target = u /\ client'[d].id = client[d].id
      BY <1>f, <2>1, <3>1
    <3>3. u # t
      BY <1>t, <3>2 DEF Meets
    <3>4. /\ u \notin verified /\ ~Writing(u)
          /\ \A j \in IdsOf(u) : j <= client[d].id => challenges[j].status # "verified"
      BY <1>c, <3>2 DEF RevokingInv
    <3>5. \A j \in IdsOf(u) : j \in Id /\ j # i
      BY <1>t, <3>3 DEF IdsOf
    <3>6. QED
      BY <1>f, <1>i, <1>w, <3>2, <3>3, <3>4, <3>5
  <2>2. QED
    BY <2>1 DEF RevokingInv
<1>3. QuietInv'
  <2>1. ASSUME NEW u \in revoked' \ (proved' \cup undone')
        PROVE  /\ u \notin verified' \cup claimed'
               /\ \A j \in IdsOf(u)' : challenges'[j].status # "verified"
               /\ \A d \in Client : HasProof(d, u)' => client'[d].met
    <3>1. u \in revoked \ (proved \cup undone)
      BY <1>f, <2>1
    <3>2. /\ u \notin verified \cup claimed
          /\ \A j \in IdsOf(u) : challenges[j].status # "verified"
          /\ \A d \in Client : HasProof(d, u) => client[d].met
      BY <1>c, <3>1 DEF QuietInv
    <3>3. u # t
      BY <1>f, <1>h, <2>1, <3>2
    <3>4. \A j \in IdsOf(u) : j \in Id /\ j # i
      BY <1>t, <3>3 DEF IdsOf
    <3>5. \A d \in Client : HasProof(d, u)' => client'[d].met
      <4>1. \A d \in Client : HasProof(d, u)' => d # c /\ HasProof(d, u)
        BY <1>f, <3>3 DEF HasProof
      <4>2. QED
        BY <1>f, <3>2, <4>1
    <3>6. QED
      BY <1>f, <1>i, <3>2, <3>4, <3>5
  <2>2. QED
    BY <2>1 DEF QuietInv
<1>4. RecordInv'
  <2>1. ASSUME NEW u \in Target, u = t
        PROVE  Backed(u)'
    <3>1. \E j \in IdsOf(u) : challenges'[j].status = "verified"
      BY <1>f, <1>t, <2>1 DEF IdsOf
    <3>2. QED
      BY <1>i, <3>1 DEF Backed, Proven
  <2>2. ASSUME NEW u \in Target, u # t, Backed(u)
        PROVE  Backed(u)'
    <3>1. CASE u \in overruled
      BY <1>f, <2>2, <3>1 DEF Backed
    <3>2. ASSUME NEW j \in IdsOf(u), Proven(j)
          PROVE  Backed(u)'
      <4>1. j \in Id /\ j # i /\ j \notin IdsOf(t)
        BY <1>t, <2>2 DEF IdsOf
      <4>2. QED
        BY <1>f, <1>i, <3>2, <4>1 DEF Backed, Proven
    <3>3. QED
      BY <2>2, <3>1, <3>2 DEF Backed
  <2>3. QED
    BY <1>c, <1>f, <1>w, <2>1, <2>2 DEF RecordInv
<1>5. QED
  BY <1>1, <1>2, <1>3, <1>4 DEF CheckInv

(* The target joins the set of those whose record is already there.         *)
LEMMA AddStep ==
  ASSUME TypeOK, CheckInv, NEW c \in Client, AddVerified(c)
  PROVE  CheckInv'
<1> DEFINE t == client[c].target
<1>f. /\ client[c].pc = "marked" /\ client'[c].pc = "idle" /\ t \in Target
      /\ \A d \in Client \ {c} : client'[d] = client[d]
      /\ verified' = verified \cup {t} /\ claimed' = claimed \cup {t} /\ Id' = Id
      /\ undone' = IF client[c].met THEN undone \cup {t} ELSE undone
      /\ UNCHANGED <<challenges, now, revoked, proved, overruled, lapsed>>
  BY Answering DEF AddVerified, Undoes, TypeOK, Id
<1>c. ChallengeInv /\ RevokingInv /\ QuietInv /\ RecordInv
  BY DEF CheckInv
<1>h. HasProof(c, t) /\ Writing(t)
  BY <1>f DEF HasProof, Writing
<1> HIDE DEF t
<1>i. \A u : IdsOf(u)' = IdsOf(u)
  BY <1>f DEF IdsOf
<1>w. \A u : Writing(u)' => Writing(u)
  BY <1>f DEF Writing
<1>d. \A d \in Client : client'[d].pc # "idle" => client'[d] = client[d]
  BY <1>f
<1>1. ChallengeInv'
  BY <1>c, <1>d, <1>f DEF ChallengeInv, Proven, Expired
<1>2. RevokingInv'
  BY <1>c, <1>d, <1>f, <1>h, <1>i, <1>w DEF RevokingInv
<1>3. QuietInv'
  <2>1. ASSUME NEW u \in revoked' \ (proved' \cup undone')
        PROVE  /\ u \notin verified' \cup claimed'
               /\ \A j \in IdsOf(u)' : challenges'[j].status # "verified"
               /\ \A d \in Client : HasProof(d, u)' => client'[d].met
    <3>1. u \in revoked \ (proved \cup undone)
      BY <1>f, <2>1
    <3>2. /\ u \notin verified \cup claimed
          /\ \A j \in IdsOf(u) : challenges[j].status # "verified"
          /\ \A d \in Client : HasProof(d, u) => client[d].met
      BY <1>c, <3>1 DEF QuietInv
    <3>3. u # t
      BY <1>f, <1>h, <2>1, <3>2
    <3>4. QED
      BY <1>d, <1>f, <1>i, <3>2, <3>3 DEF HasProof
  <2>2. QED
    BY <2>1 DEF QuietInv
<1>4. RecordInv'
  BY <1>c, <1>f, <1>h, <1>i, <1>w DEF RecordInv, Backed, Proven
<1>5. QED
  BY <1>1, <1>2, <1>3, <1>4 DEF CheckInv

(* A revocation begins: the target leaves the set.                          *)
LEMMA RevokeStep ==
  ASSUME TypeOK, CheckInv, NEW c \in Client, NEW t \in Target, Revoke(c, t)
  PROVE  CheckInv'
<1>f. /\ client'[c].pc = "revoking" /\ client'[c].target = t /\ client'[c].id = 0
      /\ client'[c].met = Writing(t)
      /\ \A d \in Client \ {c} : client'[d] = client[d]
      /\ Id' = Id /\ verified' = verified \ {t}
      /\ UNCHANGED <<challenges, now, revoked, proved, claimed, undone, overruled, lapsed>>
  BY RevokeFacts DEF history
<1>c. ChallengeInv /\ RevokingInv /\ QuietInv /\ RecordInv
  BY DEF CheckInv
<1>i. \A u : IdsOf(u)' = IdsOf(u)
  BY <1>f DEF IdsOf
<1>w. \A u : Writing(u)' => Writing(u)
  BY <1>f DEF Writing
<1>d. \A d \in Client : client'[d].pc # "revoking" => client'[d] = client[d]
  BY <1>f
<1>1. ChallengeInv'
  BY <1>c, <1>d, <1>f DEF ChallengeInv, Proven, Expired
<1>2. RevokingInv'
  <2>1. \A j \in Id : ~(j <= 0)
    BY Ids DEF TypeOK
  <2>2. ASSUME NEW d \in Client, client'[d].pc = "revoking", ~client'[d].met,
               NEW u, u = client'[d].target
        PROVE  /\ u \notin verified' /\ ~Writing(u)'
               /\ \A j \in IdsOf(u)' : j <= client'[d].id => challenges'[j].status # "verified"
    <3>1. CASE d = c
      BY <1>f, <1>i, <1>w, <2>1, <2>2, <3>1 DEF IdsOf
    <3>2. CASE d # c
      <4>1. client'[d] = client[d]
        BY <1>f, <3>2
      <4>2. /\ u \notin verified /\ ~Writing(u)
            /\ \A j \in IdsOf(u) : j <= client[d].id => challenges[j].status # "verified"
        BY <1>c, <2>2, <4>1 DEF RevokingInv
      <4>3. QED
        BY <1>f, <1>i, <1>w, <4>1, <4>2
    <3>3. QED
      BY <3>1, <3>2
  <2>3. QED
    BY <2>2 DEF RevokingInv
<1>3. QuietInv'
  BY <1>c, <1>d, <1>f, <1>i DEF QuietInv, HasProof
<1>4. RecordInv'
  BY <1>c, <1>f, <1>i, <1>w DEF RecordInv, Backed, Proven
<1>5. QED
  BY <1>1, <1>2, <1>3, <1>4 DEF CheckInv

(* The walk of a revocation: it takes back a proof only if a check was      *)
(* writing at the same time.                                                *)
LEMMA WalkStep ==
  ASSUME TypeOK, CheckInv, NEW c \in Client, RevokeRecord(c)
  PROVE  CheckInv'
<1> DEFINE i == client[c].id + 1  t == client[c].target
<1>f. /\ client[c].pc = "revoking" /\ i \in Id /\ t \in Target
      /\ client'[c].pc = "revoking" /\ client'[c].target = t /\ client'[c].id = i
      /\ client'[c].met = client[c].met
      /\ \A d \in Client \ {c} : client'[d] = client[d]
      /\ Id' = Id
      /\ \A j \in Id : /\ challenges'[j].target = challenges[j].target
                       /\ challenges'[j].expires = challenges[j].expires
                       /\ challenges'[j].status = IF j = i /\ challenges[j].target = t
                            THEN "failed" ELSE challenges[j].status
      /\ lapsed' = IF challenges[i].target = t THEN lapsed \ {i} ELSE lapsed
      /\ overruled' = IF challenges[i].target = t /\ client[c].met /\ Proven(i)
                        THEN overruled \cup {t} ELSE overruled
      /\ UNCHANGED <<verified, now, revoked, proved, claimed, undone>>
  BY WalkFacts
<1>n. client[c].id \in Nat /\ \A j \in Id : j \in Nat /\ (j <= i => j <= client[c].id \/ j = i)
  BY Ids DEF TypeOK, Request
<1>c. ChallengeInv /\ RevokingInv /\ QuietInv /\ RecordInv /\ lapsed \subseteq Id
  BY DEF CheckInv, TypeOK
<1>r. ~client[c].met => /\ t \notin verified /\ ~Writing(t)
                        /\ \A j \in IdsOf(t) : j <= client[c].id
                                                 => challenges[j].status # "verified"
  BY <1>c, <1>f DEF RevokingInv
<1> HIDE DEF i, t
<1>i. \A u : IdsOf(u)' = IdsOf(u)
  BY <1>f DEF IdsOf
<1>w. \A u : Writing(u)' => Writing(u)
  BY <1>f DEF Writing
<1>d. \A d \in Client : client'[d].pc # "revoking" => client'[d] = client[d]
  BY <1>f
<1>v. \A j \in Id : /\ challenges'[j].status = "verified" => challenges[j].status = "verified"
                    /\ Proven(j)' => Proven(j)
                    /\ (j # i \/ challenges[j].target # t) /\ Proven(j) => Proven(j)'
  BY <1>f DEF Proven
<1>1. ChallengeInv'
  <2>1. \A d \in Client : client[d].pc \in {"fetching", "found", "marked"} => client[d].id \in Id
    BY DEF TypeOK
  <2>2. \A j \in lapsed' : Expired(j)'
    BY <1>c, <1>f DEF ChallengeInv, Expired
  <2>3. QED
    BY <1>c, <1>d, <1>f, <1>v, <2>1, <2>2 DEF ChallengeInv
<1>2. RevokingInv'
  <2>1. ASSUME NEW d \in Client, client'[d].pc = "revoking", ~client'[d].met,
               NEW u, u = client'[d].target
        PROVE  /\ u \notin verified' /\ ~Writing(u)'
               /\ \A j \in IdsOf(u)' : j <= client'[d].id => challenges'[j].status # "verified"
    <3>1. CASE d = c
      <4>1. ASSUME NEW j \in IdsOf(t), j <= i
            PROVE  challenges'[j].status # "verified"
        <5>1. j \in Id /\ challenges[j].target = t
          BY DEF IdsOf
        <5>2. CASE j = i
          BY <1>f, <5>1, <5>2
        <5>3. CASE j # i
          BY <1>f, <1>n, <1>r, <2>1, <3>1, <4>1, <5>1, <5>3
        <5>4. QED
          BY <5>2, <5>3
      <4>2. u = t /\ ~client[c].met /\ client'[d].id = i
        BY <1>f, <2>1, <3>1
      <4>3. QED
        BY <1>f, <1>i, <1>r, <1>w, <4>1, <4>2
    <3>2. CASE d # c
      <4>1. client'[d] = client[d]
        BY <1>f, <3>2
      <4>2. /\ u \notin verified /\ ~Writing(u)
            /\ \A j \in IdsOf(u) : j <= client[d].id => challenges[j].status # "verified"
        BY <1>c, <2>1, <4>1 DEF RevokingInv
      <4>3. \A j \in IdsOf(u) : j \in Id
        BY DEF IdsOf
      <4>4. QED
        BY <1>f, <1>i, <1>v, <1>w, <4>1, <4>2, <4>3
    <3>3. QED
      BY <3>1, <3>2
  <2>2. QED
    BY <2>1 DEF RevokingInv
<1>3. QuietInv'
  BY <1>c, <1>d, <1>f, <1>i, <1>v DEF QuietInv, HasProof, IdsOf
<1>4. RecordInv'
  <2>1. ASSUME NEW u \in Target, Backed(u), u \in verified \/ Writing(u)
        PROVE  Backed(u)'
    <3>1. CASE u \in overruled
      BY <1>f, <3>1 DEF Backed
    <3>2. ASSUME NEW j \in IdsOf(u), Proven(j)
          PROVE  Backed(u)'
      <4>0. j \in Id /\ challenges[j].target = u
        BY DEF IdsOf
      <4>1. CASE j = i /\ u = t
        BY <1>f, <1>r, <2>1, <3>2, <4>0, <4>1 DEF Backed
      <4>2. CASE ~(j = i /\ u = t)
        BY <1>i, <1>v, <3>2, <4>0, <4>2 DEF Backed
      <4>3. QED
        BY <4>1, <4>2
    <3>3. QED
      BY <2>1, <3>1, <3>2 DEF Backed
  <2>2. QED
    BY <1>c, <1>f, <1>w, <2>1 DEF RecordInv
<1>5. QED
  BY <1>1, <1>2, <1>3, <1>4 DEF CheckInv

(* A revocation returns: nothing says any more that the target is owned, or *)
(* a check was writing while it ran.                                        *)
LEMMA EndsStep ==
  ASSUME TypeOK, CheckInv, NEW c \in Client, RevokeEnds(c)
  PROVE  CheckInv'
<1> DEFINE t == client[c].target
<1>f. /\ client[c].pc = "revoking" /\ t \in Target /\ client[c].id = Len(challenges)
      /\ client'[c].pc = "idle"
      /\ \A d \in Client \ {c} :
           /\ client'[d].pc = client[d].pc /\ client'[d].target = client[d].target
           /\ client'[d].id = client[d].id
           /\ client'[d].met = (client[d].met \/ HasProof(d, t))
      /\ Id' = Id /\ revoked' = revoked \cup {t}
      /\ proved' = proved \ {t} /\ claimed' = claimed \ {t}
      /\ undone' = IF client[c].met THEN undone \cup {t} ELSE undone \ {t}
      /\ UNCHANGED <<challenges, verified, now, overruled, lapsed>>
  BY RevokedFacts
<1>n. Len(challenges) \in Nat /\ Id = 1 .. Len(challenges)
  BY Ids DEF TypeOK
<1>c. ChallengeInv /\ RevokingInv /\ QuietInv /\ RecordInv
  BY DEF CheckInv
<1>r. ~client[c].met => /\ t \notin verified
                        /\ \A j \in IdsOf(t) : challenges[j].status # "verified"
  BY <1>c, <1>f, <1>n DEF RevokingInv, IdsOf
<1> HIDE DEF t
<1>i. \A u : IdsOf(u)' = IdsOf(u)
  BY <1>f DEF IdsOf
<1>w. \A u : Writing(u)' => Writing(u)
  BY <1>f DEF Writing
<1>b. \A d \in Client : client[d].met \in BOOLEAN
  BY DEF TypeOK, Request
<1>p. \A d \in Client : \A u : HasProof(d, u)' => d # c /\ HasProof(d, u)
  BY <1>f DEF HasProof
<1>1. ChallengeInv'
  <2>1. ASSUME NEW d \in Client, NEW j, j = client'[d].id
        PROVE  /\ client'[d].pc \in {"fetching", "found", "marked"}
                    => challenges'[j].target = client'[d].target
               /\ client'[d].pc = "fetching" /\ ~client'[d].met => ~Proven(j)'
    <3>1. CASE d = c
      BY <1>f, <2>1, <3>1
    <3>2. CASE d # c
      BY <1>b, <1>c, <1>f, <2>1, <3>2 DEF ChallengeInv, Proven
    <3>3. QED
      BY <3>1, <3>2
  <2>2. \A j \in lapsed' : Expired(j)'
    BY <1>c, <1>f DEF ChallengeInv, Expired
  <2>3. QED
    BY <2>1, <2>2 DEF ChallengeInv, Proven
<1>2. RevokingInv'
  <2>1. ASSUME NEW d \in Client, client'[d].pc = "revoking", ~client'[d].met,
               NEW u, u = client'[d].target
        PROVE  /\ u \notin verified' /\ ~Writing(u)'
               /\ \A j \in IdsOf(u)' : j <= client'[d].id => challenges'[j].status # "verified"
    <3>1. /\ client[d].pc = "revoking" /\ ~client[d].met
          /\ client[d].target = u /\ client'[d].id = client[d].id
      BY <1>b, <1>f, <2>1
    <3>2. /\ u \notin verified /\ ~Writing(u)
          /\ \A j \in IdsOf(u) : j <= client[d].id => challenges[j].status # "verified"
      BY <1>c, <3>1 DEF RevokingInv
    <3>3. QED
      BY <1>f, <1>i, <1>w, <3>1, <3>2
  <2>2. QED
    BY <2>1 DEF RevokingInv
<1>3. QuietInv'
  <2>1. ASSUME NEW u \in revoked' \ (proved' \cup undone')
        PROVE  /\ u \notin verified' \cup claimed'
               /\ \A j \in IdsOf(u)' : challenges'[j].status # "verified"
               /\ \A d \in Client : HasProof(d, u)' => client'[d].met
    <3>1. CASE u = t
      <4>1. ~client[c].met
        BY <1>f, <2>1, <3>1
      <4>2. t \notin verified /\ \A j \in IdsOf(t) : challenges[j].status # "verified"
        BY <1>r, <4>1
      <4>3. \A d \in Client : HasProof(d, u)' => client'[d].met
        BY <1>f, <1>p, <3>1
      <4>4. QED
        BY <1>f, <1>i, <3>1, <4>2, <4>3
    <3>2. CASE u # t
      <4>1. u \in revoked \ (proved \cup undone)
        BY <1>f, <2>1, <3>2
      <4>2. /\ u \notin verified \cup claimed
            /\ \A j \in IdsOf(u) : challenges[j].status # "verified"
            /\ \A d \in Client : HasProof(d, u) => client[d].met
        BY <1>c, <4>1 DEF QuietInv
      <4>3. QED
        BY <1>f, <1>i, <1>p, <4>2
    <3>3. QED
      BY <3>1, <3>2
  <2>2. QED
    BY <2>1 DEF QuietInv
<1>4. RecordInv'
  BY <1>c, <1>f, <1>i, <1>w DEF RecordInv, Backed, Proven
<1>5. QED
  BY <1>1, <1>2, <1>3, <1>4 DEF CheckInv

(* The steps that say nothing of a target, as FrameStep takes them.         *)
LEMMA OtherStep ==
  ASSUME TypeOK, TypeOK', CheckInv,
         \/ Starting \/ Tick \/ UNCHANGED vars
         \/ (\E i \in Id : PlaceProof(i)) \/ (\E i \in placed : RemoveProof(i))
         \/ \E c \in Client : CheckUnknown(c) \/ FileRaises(c) \/ RevokeRaises(c)
  PROVE  CheckInv'
<1>0. now \in Nat /\ challenges \in Seq(Challenge)
  BY OwnershipAssumption DEF TypeOK, OwnershipAssumption
<1>1. ASSUME NEW c \in Client, AddChallenge(c)
      PROVE  CheckInv'
  <2> DEFINE r == [target |-> client[c].target, method |-> client[c].method,
                   expires |-> now + Ttl, status |-> "pending"]
  <2>1. r \in Challenge /\ r.status = "pending"
    BY <1>0, <1>1, OwnershipAssumption
       DEF AddChallenge, TypeOK, Challenge, OwnershipStatus, OwnershipAssumption
  <2>2. challenges' = Append(challenges, r) /\ Answers(c)
        /\ UNCHANGED <<verified, placed, now, requests, revocations, history>>
    BY <1>1 DEF AddChallenge
  <2> HIDE DEF r
  <2>3. /\ Id' = Id \cup {Len(challenges) + 1}
        /\ challenges'[Len(challenges) + 1] = r
        /\ \A j \in Id : challenges'[j] = challenges[j]
    BY <1>0, <2>1, <2>2, RecordAdded
  <2>4. UNCHANGED sets /\ now <= now'
    BY <1>0, <2>2 DEF sets, history
  <2>5. /\ Id \subseteq Id' /\ \A j \in Id : SameRecord(j)
        /\ \A j \in Id' \ Id : challenges'[j].status = "pending"
    BY <2>1, <2>3 DEF SameRecord
  <2>6. \A d \in Client : client'[d] = client[d] \/ client'[d].pc = "idle"
    BY <2>2, Answering
  <2>7. QED
    BY <2>4, <2>5, <2>6, FrameStep
<1>2. ASSUME UNCHANGED <<challenges, verified, history>>, now <= now',
             \A d \in Client : \/ client'[d] = client[d]
                               \/ client'[d].pc \in {"idle", "starting", "adding"}
      PROVE  CheckInv'
  <2>1. /\ UNCHANGED sets /\ Id' = Id /\ \A j \in Id : SameRecord(j)
    BY <1>2 DEF sets, history, SameRecord, Id
  <2>2. QED
    BY <1>2, <2>1, FrameStep
<1>3. ASSUME NEW c \in Client,
             \/ ReturnVerified(c) \/ CountActive(c) \/ WalkRaises(c)
             \/ CheckUnknown(c) \/ FileRaises(c) \/ RevokeRaises(c)
      PROVE  CheckInv'
  <2>1. UNCHANGED <<challenges, verified, now, history>> /\ (Answers(c) \/ Goes(c, "adding"))
    BY <1>3 DEF ReturnVerified, CountActive, WalkRaises, CheckUnknown, FileRaises, RevokeRaises
  <2>2. \A d \in Client : client'[d] = client[d] \/ client'[d].pc \in {"idle", "adding"}
    BY <2>1, Answering, Going DEF PCs
  <2>3. QED
    BY <1>0, <1>2, <2>1, <2>2
<1>4. ASSUME NEW c \in Client, NEW t \in Target, NEW m \in Method, BeginStart(c, t, m)
      PROVE  CheckInv'
  <2>1. UNCHANGED <<challenges, verified, now, history>>
        /\ \A d \in Client : client'[d] = client[d] \/ client'[d].pc = "starting"
    BY <1>4 DEF BeginStart, TypeOK, Idle
  <2>2. QED
    BY <1>0, <1>2, <2>1
<1>5. CASE \/ (\E i \in Id : PlaceProof(i)) \/ (\E i \in placed : RemoveProof(i))
           \/ Tick \/ UNCHANGED vars
  <2>1. UNCHANGED <<challenges, verified, client, history>> /\ now' \in {now, now + 1}
    BY <1>5 DEF PlaceProof, RemoveProof, Tick, vars
  <2>2. QED
    BY <1>0, <1>2, <2>1
<1>6. QED
  BY <1>1, <1>3, <1>4, <1>5 DEF Starting

(* Every step keeps what is said of targets.                                *)
LEMMA CheckStep ==
  ASSUME TypeOK, ChallengeInv, RevokingInv, QuietInv, RecordInv, [Next]_vars
  PROVE  CheckInv'
<1>1. CheckInv /\ TypeOK'
  BY TypeStep DEF CheckInv
<1>2. QED
  BY <1>1, OtherStep, LookUpStep, FoundStep, MissingStep, MarkStep, AddStep, RevokeStep,
     WalkStep, EndsStep DEF Next, Checking, Revoking

-----------------------------------------------------------------------------
(* The number of open challenges *)

(* Only counting lets a request add.                                        *)
LEMMA AddingStep ==
  ASSUME TypeOK, [Next]_vars, NEW c \in Client, client'[c].pc = "adding"
  PROVE  \/ client[c].pc = "adding" /\ client'[c].target = client[c].target
         \/ CountActive(c)
<1> DEFINE P == \/ client[c].pc = "adding" /\ client'[c].target = client[c].target
                \/ CountActive(c)
<1>1. ASSUME NEW d \in Client, NEW t \in Target, NEW m \in Method, BeginStart(d, t, m)
      PROVE  P
  BY <1>1 DEF BeginStart, TypeOK, Idle
<1>2. ASSUME NEW d \in Client,
             \/ ReturnVerified(d) \/ WalkRaises(d) \/ AddChallenge(d) \/ CheckUnknown(d)
             \/ ProofMissing(d) \/ FileRaises(d) \/ AddVerified(d) \/ RevokeRaises(d)
      PROVE  P
  <2>1. Answers(d)
    BY <1>2 DEF ReturnVerified, WalkRaises, AddChallenge, CheckUnknown, ProofMissing,
       FileRaises, AddVerified, RevokeRaises
  <2>2. QED
    BY <2>1, Answering
<1>3. ASSUME NEW d \in Client, CountActive(d)
      PROVE  P
  BY <1>3, Answering, Going DEF CountActive, PCs
<1>4. ASSUME NEW d \in Client, ProofFound(d) \/ MarkVerified(d) \/ RevokeRecord(d)
                               \/ RevokeEnds(d)
      PROVE  P
  BY <1>4, FoundFacts, MarkFacts, WalkFacts, RevokedFacts
<1>5. ASSUME NEW d \in Client, NEW i \in Id, LookUp(d, i)
      PROVE  P
  BY <1>5, LookUpFacts
<1>6. ASSUME NEW d \in Client, NEW t \in Target, Revoke(d, t)
      PROVE  P
  BY <1>6, RevokeFacts
<1>7. CASE \/ (\E i \in Id : PlaceProof(i)) \/ (\E i \in placed : RemoveProof(i))
           \/ Tick \/ UNCHANGED vars
  BY <1>7 DEF PlaceProof, RemoveProof, Tick, vars
<1>8. P
  BY <1>1, <1>2, <1>3, <1>4, <1>5, <1>6, <1>7 DEF Next, Starting, Checking, Revoking
<1>9. QED
  BY <1>8

(* A record keeps its target and its time; none that was settled is pending *)
(* again, and only AddChallenge adds one.                                   *)
LEMMA RecordsStep ==
  ASSUME TypeOK, [Next]_vars
  PROVE  /\ Id \subseteq Id' /\ now \in Nat /\ now' \in Nat /\ now <= now'
         /\ Id' = Id \/ \E c \in Client : AddChallenge(c)
         /\ \A i \in Id :
              /\ challenges'[i].target = challenges[i].target
              /\ challenges'[i].expires = challenges[i].expires
              /\ challenges'[i].status = "pending" => challenges[i].status = "pending"
<1> DEFINE P == /\ Id \subseteq Id' /\ now <= now'
                /\ Id' = Id \/ \E c \in Client : AddChallenge(c)
                /\ \A i \in Id :
                     /\ challenges'[i].target = challenges[i].target
                     /\ challenges'[i].expires = challenges[i].expires
                     /\ challenges'[i].status = "pending" => challenges[i].status = "pending"
<1>0. now \in Nat /\ now' \in Nat /\ challenges \in Seq(Challenge)
  BY TypeStep, OwnershipAssumption DEF TypeOK, OwnershipAssumption
<1>1. ASSUME UNCHANGED challenges, now <= now'
      PROVE  P
  BY <1>1 DEF Id
<1>2. ASSUME NEW c \in Client, AddChallenge(c)
      PROVE  P
  <2> DEFINE r == [target |-> client[c].target, method |-> client[c].method,
                   expires |-> now + Ttl, status |-> "pending"]
  <2>1. r \in Challenge
    BY <1>0, <1>2, OwnershipAssumption
       DEF AddChallenge, TypeOK, Challenge, OwnershipStatus, OwnershipAssumption
  <2>2. challenges' = Append(challenges, r) /\ now <= now'
    BY <1>0, <1>2 DEF AddChallenge
  <2> HIDE DEF r
  <2>3. Id \subseteq Id' /\ \A j \in Id : challenges'[j] = challenges[j]
    BY <1>0, <2>1, <2>2, RecordAdded
  <2>4. QED
    BY <1>2, <2>2, <2>3
<1>3. ASSUME NEW c \in Client, NEW i \in Id, LookUp(c, i)
      PROVE  P
  BY <1>0, <1>3, LookUpFacts
<1>4. ASSUME NEW c \in Client, ProofMissing(c)
      PROVE  P
  BY <1>0, <1>4, MissingFacts
<1>5. ASSUME NEW c \in Client, MarkVerified(c)
      PROVE  P
  BY <1>0, <1>5, MarkFacts
<1>6. ASSUME NEW c \in Client, RevokeRecord(c)
      PROVE  P
  BY <1>0, <1>6, WalkFacts
<1>7. ASSUME ~(\E c \in Client : \/ AddChallenge(c) \/ (\E i \in Id : LookUp(c, i))
                               \/ ProofMissing(c) \/ MarkVerified(c) \/ RevokeRecord(c))
      PROVE  UNCHANGED challenges /\ now <= now'
  <2>1. challenges' = challenges /\ (now' = now \/ Tick)
    BY <1>7 DEF Next, Starting, Checking, Revoking, BeginStart, ReturnVerified,
       CountActive, WalkRaises, CheckUnknown, ProofFound, FileRaises, AddVerified, Revoke,
       RevokeEnds, RevokeRaises, PlaceProof, RemoveProof, Tick, vars
  <2>2. QED
    BY <1>0, <2>1 DEF Tick
<1>8. P
  BY <1>1, <1>2, <1>3, <1>4, <1>5, <1>6, <1>7
<1>9. QED
  BY <1>0, <1>8

(* Only finitely many challenges and threads are counted.                   *)
LEMMA FiniteTable ==
  ASSUME NEW s \in Seq(Challenge)
  PROVE  IsFiniteSet(DOMAIN s)
BY LenProperties, FS_Interval

(* A part of a finite set is finite and no larger.                          *)
LEMMA FinitePart ==
  ASSUME NEW S, IsFiniteSet(S), NEW T \in SUBSET S
  PROVE  /\ IsFiniteSet(T) /\ Cardinality(T) \in Nat /\ Cardinality(S) \in Nat
         /\ Cardinality(T) <= Cardinality(S)
BY FS_Subset, FS_CardinalityType

(* Counting, adding and all other steps keep within the limit.              *)
LEMMA CountStep ==
  ASSUME TypeOK, CountInv, [Next]_vars
  PROVE  CountInv'
<1>1. SUFFICES ASSUME NEW t \in Target
               PROVE  Cardinality(Active(t)') + Cardinality(Adding(t)')
                        <= MaxActive + Cardinality(Client) - 1
  BY DEF CountInv
<1> DEFINE A == Active(t)  D == Adding(t)  B == Active(t)'  E == Adding(t)'
<1>2. IsFiniteSet(Client) /\ Cardinality(Client) \in Nat \ {0} /\ MaxActive \in Nat
  BY OwnershipAssumption, FS_CardinalityType, FS_EmptySet DEF OwnershipAssumption
<1>3. /\ IsFiniteSet(A) /\ Cardinality(A) \in Nat
      /\ IsFiniteSet(D) /\ Cardinality(D) \in Nat
  BY <1>2, FiniteTable, FinitePart DEF TypeOK, Active, Adding, Id
<1>4. /\ IsFiniteSet(B) /\ Cardinality(B) \in Nat
      /\ IsFiniteSet(E) /\ Cardinality(E) \in Nat /\ Cardinality(E) <= Cardinality(Client)
  <2>1. challenges' \in Seq(Challenge)
    BY TypeStep DEF TypeOK
  <2>2. B \subseteq DOMAIN challenges' /\ E \subseteq Client
    BY DEF Active, Adding, Id
  <2>3. QED
    BY <1>2, <2>1, <2>2, FiniteTable, FinitePart
<1>5. Cardinality(A) + Cardinality(D) <= MaxActive + Cardinality(Client) - 1
  BY DEF CountInv
<1>6. B \cap Id \subseteq A
  <2>1. SUFFICES ASSUME NEW i \in Id, i \in B PROVE i \in A
    OBVIOUS
  <2>2. challenges'[i].target = t /\ challenges'[i].status = "pending" /\ ~Expired(i)'
    BY <2>1 DEF Active
  <2>3. challenges[i].target = t /\ challenges[i].status = "pending"
        /\ challenges'[i].expires = challenges[i].expires
    BY <2>2, RecordsStep
  <2>4. challenges[i].expires \in Nat
    BY Ids DEF TypeOK, Challenge
  <2>5. ~Expired(i)
    BY <2>2, <2>3, <2>4, RecordsStep DEF Expired
  <2>6. QED
    BY <2>3, <2>5 DEF Active
<1> HIDE DEF A, B, D, E
<1>7. ASSUME NEW c \in Client, AddChallenge(c)
      PROVE  Cardinality(B) + Cardinality(E) <= MaxActive + Cardinality(Client) - 1
  <2>1. /\ client[c].pc = "adding" /\ client'[c].pc = "idle"
        /\ \A d \in Client \ {c} : client'[d] = client[d]
    BY <1>7, Answering DEF AddChallenge
  <2>2. E = D \ {c}
    BY <2>1 DEF Adding, D, E
  <2> DEFINE n == Len(challenges) + 1
             r == [target |-> client[c].target, method |-> client[c].method,
                   expires |-> now + Ttl, status |-> "pending"]
  <2>3. r \in Challenge /\ r.target = client[c].target
    BY <1>7, <2>1, RecordsStep, OwnershipAssumption
       DEF TypeOK, Challenge, OwnershipStatus, OwnershipAssumption
  <2>4. challenges' = Append(challenges, r)
    BY <1>7 DEF AddChallenge
  <2> HIDE DEF r
  <2>5. Id' = Id \cup {n} /\ challenges'[n] = r
    BY <2>3, <2>4, RecordAdded DEF TypeOK
  <2>6. B \subseteq A \cup {n} /\ (client[c].target # t => B \subseteq A)
    BY <1>6, <2>3, <2>5 DEF Active, B
  <2>7. CASE client[c].target = t
    <3>1. c \in D
      BY <2>1, <2>7 DEF Adding, D
    <3>2. Cardinality(E) = Cardinality(D) - 1
      BY <1>3, <2>2, <3>1, FS_RemoveElement
    <3>3. /\ IsFiniteSet(A \cup {n})
          /\ Cardinality(A \cup {n}) \in {Cardinality(A), Cardinality(A) + 1}
      BY <1>3, FS_AddElement
    <3>4. Cardinality(B) <= Cardinality(A \cup {n})
      BY <2>6, <3>3, FinitePart
    <3>5. QED
      BY <1>2, <1>3, <1>4, <1>5, <3>2, <3>3, <3>4
  <2>8. CASE client[c].target # t
    <3>1. Cardinality(B) <= Cardinality(A) /\ Cardinality(E) <= Cardinality(D)
      BY <1>3, <2>2, <2>6, <2>8, FinitePart
    <3>2. QED
      BY <1>2, <1>3, <1>4, <1>5, <3>1
  <2>9. QED
    BY <2>7, <2>8
<1>8. ASSUME ~(\E c \in Client : AddChallenge(c))
      PROVE  Cardinality(B) + Cardinality(E) <= MaxActive + Cardinality(Client) - 1
  <2>1. B \subseteq A
    BY <1>6, <1>8, RecordsStep DEF Active, B
  <2>2. Cardinality(B) <= Cardinality(A)
    BY <1>3, <2>1, FinitePart
  <2>3. CASE E \subseteq D
    <3>1. Cardinality(E) <= Cardinality(D)
      BY <1>3, <2>3, FinitePart
    <3>2. QED
      BY <1>2, <1>3, <1>4, <1>5, <2>2, <3>1
  <2>4. ASSUME NEW c \in E, c \notin D
        PROVE  Cardinality(B) + Cardinality(E) <= MaxActive + Cardinality(Client) - 1
    <3>1. c \in Client /\ client'[c].pc = "adding" /\ client'[c].target = t
          /\ ~(client[c].pc = "adding" /\ client[c].target = t)
      BY <2>4 DEF Adding, D, E
    <3>2. CountActive(c)
      BY <3>1, AddingStep
    <3>3. Goes(c, "adding")
      BY <3>1, <3>2, Answering DEF CountActive
    <3>4. client[c].target = t
      BY <3>1, <3>3, Going DEF PCs
    <3>5. ~(Cardinality(A) >= MaxActive)
      BY <3>1, <3>2, <3>4, Answering DEF CountActive, A
    <3>6. QED
      BY <1>2, <1>3, <1>4, <2>2, <3>5
  <2>5. QED
    BY <2>3, <2>4
<1>9. QED
  BY <1>7, <1>8 DEF B, E

-----------------------------------------------------------------------------
(* The theorems *)

(* The invariant holds of the empty service.                                *)
LEMMA InitOwnershipInv == Init => OwnershipInv
<1> SUFFICES ASSUME Init PROVE OwnershipInv
  OBVIOUS
<1>1. Id = {} /\ \A c \in Client : client[c].pc = "idle"
  BY DEF Init, Id, Idle
<1>2. ChallengeInv /\ RevokingInv /\ QuietInv /\ RecordInv
  BY <1>1 DEF Init, ChallengeInv, RevokingInv, QuietInv, RecordInv, Writing
<1>3. CountInv
  <2>1. \A t \in Target : Active(t) = {} /\ Adding(t) = {}
    BY <1>1 DEF Active, Adding
  <2>2. Cardinality(Client) \in Nat \ {0} /\ MaxActive \in Nat
    BY OwnershipAssumption, FS_CardinalityType, FS_EmptySet DEF OwnershipAssumption
  <2>3. QED
    <3>1. Cardinality({}) = 0
      BY FS_EmptySet
    <3>2. 0 + 0 <= MaxActive + Cardinality(Client) - 1
      BY <2>2
    <3>3. QED
      BY <2>1, <3>1, <3>2 DEF CountInv
<1>4. QED
  BY <1>2, <1>3, InitType DEF OwnershipInv

(* The invariant holds in every reachable state of every instance.          *)
THEOREM OwnershipInvariant == Spec => []OwnershipInv
<1>1. OwnershipInv /\ [Next]_vars => OwnershipInv'
  BY TypeStep, CheckStep, CountStep DEF OwnershipInv, CheckInv
<1>2. QED
  BY <1>1, InitOwnershipInv, PTL DEF Spec

(* Type correctness of the table, the set and the requests in flight.       *)
THEOREM TypeCorrect == Spec => []TypeOK
<1>1. OwnershipInv => TypeOK
  BY DEF OwnershipInv
<1>2. QED
  BY <1>1, OwnershipInvariant, PTL

(* The limit of challenges, which start_verification checks before it adds, *)
(* is exceeded by at most one challenge per other thread.                   *)
THEOREM OpenChallengesAreBounded == Spec => []ActiveIsBounded
<1>1. OwnershipInv => ActiveIsBounded
  <2>1. SUFFICES ASSUME OwnershipInv, NEW t \in Target
                 PROVE  Cardinality(Active(t)) <= MaxActive + Cardinality(Client) - 1
    BY DEF ActiveIsBounded
  <2>2. IsFiniteSet(Client) /\ Cardinality(Client) \in Nat \ {0} /\ MaxActive \in Nat
    BY OwnershipAssumption, FS_CardinalityType, FS_EmptySet DEF OwnershipAssumption
  <2>3. Cardinality(Active(t)) \in Nat /\ Cardinality(Adding(t)) \in Nat
    BY <2>1, <2>2, FiniteTable, FinitePart DEF OwnershipInv, TypeOK, Active, Adding, Id
  <2>4. Cardinality(Active(t)) + Cardinality(Adding(t)) <= MaxActive + Cardinality(Client) - 1
    BY <2>1 DEF OwnershipInv, CountInv
  <2>5. QED
    BY <2>2, <2>3, <2>4
<1>2. QED
  BY <1>1, OwnershipInvariant, PTL

(* A revocation that returned stands until a check finds a proof, but for a *)
(* check that found its proof before it ended and wrote after it began.     *)
THEOREM RevocationStands == Spec => []RevocationHolds
<1>1. OwnershipInv => RevocationHolds
  BY DEF OwnershipInv, QuietInv, RevocationHolds
<1>2. QED
  BY <1>1, OwnershipInvariant, PTL

(* A verified target has a challenge that is verified, or was until it      *)
(* expired, but for a request that overlapped the check that proved it.     *)
THEOREM VerifiedIsBacked == Spec => []VerifiedHasRecord
<1>1. OwnershipInv => VerifiedHasRecord
  BY DEF OwnershipInv, TypeOK, RecordInv, Backed, VerifiedHasRecord
<1>2. QED
  BY <1>1, OwnershipInvariant, PTL
===========================================================================
