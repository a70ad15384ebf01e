------------------------- MODULE OwnershipService -------------------------
(***************************************************************************)
(* OwnershipVerificationService (verification.py) as the control plane     *)
(* shares it between its endpoints (control/api.py): they are plain        *)
(* functions, which the server runs on threads, and the service holds no   *)
(* lock.  A check fetches the proof from the target between reading its    *)
(* challenge and recording the outcome; meanwhile the clock goes on, the   *)
(* owner moves the proof and other requests come and go.                   *)
(***************************************************************************)
EXTENDS Naturals, Sequences, FiniteSets

CONSTANTS
  Target,          \* what somebody claims to own
  Client,          \* the threads that serve requests
  Method,          \* the methods asked for
  MaxActive,       \* MAX_CHALLENGES_PER_TARGET
  Ttl,             \* CHALLENGE_TTL_SECONDS in ticks of the clock
  MaxTime,         \* bound: ticks of the clock
  MaxRequests,     \* bound: requests that start or check a challenge
  MaxRevocations   \* bound: revocations

VerificationMethod == {"file", "dns", "http_endpoint", "api_endpoint"}
OwnershipStatus    == {"pending", "verified", "failed", "expired"}

ASSUME OwnershipAssumption ==
  /\ Method \subseteq VerificationMethod
  /\ {MaxActive, Ttl, MaxTime, MaxRequests, MaxRevocations} \subseteq Nat
  /\ IsFiniteSet(Client) /\ Client # {}

VARIABLES
  challenges,  \* _challenges, in the order they were added
  verified,    \* _verified_targets
  client,      \* thread -> its request: [pc, target, method, id, seen, met]
  placed,      \* challenges whose token can be read at their target now
  now,         \* time.time()
  requests,    \* requests begun
  revocations, \* revocations begun
  revoked,     \* ghost: targets that were revoked
  proved,      \* ghost: targets a check found proved since they were revoked
  claimed,     \* ghost: targets answered to be owned since they were revoked
  undone,      \* ghost: targets whose revocation a check overlapped and undid
  overruled,   \* ghost: targets whose proof a request overlapped and took back
  lapsed       \* ghost: verified challenges that expired, until the next proof

history == <<revoked, proved, claimed, undone, overruled, lapsed>>
vars == <<challenges, verified, client, placed, now, requests, revocations, history>>

Id       == DOMAIN challenges
\* seen: challenges there when its walk began.  met: ghost, what a request met
\* on its way: a fetch, that another check verified its challenge; a check with
\* its proof, that its target was revoked; a revocation, that a check of its
\* target was writing its outcome.
Idle     == [pc |-> "idle", target |-> "none", method |-> "none", id |-> 0,
             seen |-> 0, met |-> FALSE]
Challenge == [target : Target, method : Method, expires : Nat, status : OwnershipStatus]
PCs       == {"idle", "starting", "adding", "fetching", "found", "marked", "revoking"}
Request   == [pc : PCs, target : Target \cup {"none"}, method : Method \cup {"none"},
              id : Nat, seen : Nat, met : BOOLEAN]

\* is_expired
Expired(i) == now > challenges[i].expires

Init ==
  /\ challenges = << >> /\ verified = {} /\ placed = {}
  /\ client = [c \in Client |-> Idle]
  /\ now = 0 /\ requests = 0 /\ revocations = 0
  /\ revoked = {} /\ proved = {} /\ claimed = {}
  /\ undone = {} /\ overruled = {} /\ lapsed = {}

Goes(c, pc) == client' = [client EXCEPT ![c].pc = pc]
\* The request of c is answered; its thread takes the next one.
Answers(c) == client' = [client EXCEPT ![c] = Idle]

-----------------------------------------------------------------------------
(* start_verification *)

Active(t) == { i \in Id : /\ challenges[i].target = t
                          /\ challenges[i].status = "pending"
                          /\ ~Expired(i) }

BeginStart(c, t, m) ==
  /\ client[c].pc = "idle" /\ requests < MaxRequests
  /\ requests' = requests + 1
  /\ client' = [client EXCEPT ![c] = [Idle EXCEPT !.pc = "starting", !.target = t,
                                      !.method = m, !.seen = Len(challenges)]]
  /\ UNCHANGED <<challenges, verified, placed, now, revocations, history>>

\* A challenge that was verified is handed out again, expired or not.
ReturnVerified(c) ==
  LET t == client[c].target IN
  /\ client[c].pc = "starting" /\ t \in verified
  /\ \E i \in Id : challenges[i].target = t /\ challenges[i].status = "verified"
  /\ Answers(c)
  /\ UNCHANGED <<challenges, verified, placed, now, requests, revocations, history>>

\* Mutant: the limit is off by one.
CountUpTo(c) ==
  LET t == client[c].target IN
  /\ client[c].pc = "starting"
  /\ ~(t \in verified /\ \E i \in Id : /\ challenges[i].target = t
                                       /\ challenges[i].status = "verified")
  /\ IF Cardinality(Active(t)) > MaxActive
       THEN Answers(c)
       ELSE Goes(c, "adding")
  /\ UNCHANGED <<challenges, verified, placed, now, requests, revocations, history>>

CountActive(c) ==
  LET t == client[c].target IN
  /\ client[c].pc = "starting"
  /\ ~(t \in verified /\ \E i \in Id : /\ challenges[i].target = t
                                       /\ challenges[i].status = "verified")
  /\ IF Cardinality(Active(t)) >= MaxActive
       THEN Answers(c)                       \* ValueError
       ELSE Goes(c, "adding")
  /\ UNCHANGED <<challenges, verified, placed, now, requests, revocations, history>>

\* The dictionary grew while this thread walked through it.
WalkRaises(c) ==
  /\ client[c].pc = "starting" /\ client[c].seen < Len(challenges)
  /\ Answers(c)
  /\ UNCHANGED <<challenges, verified, placed, now, requests, revocations, history>>

AddChallenge(c) ==
  /\ client[c].pc = "adding"
  /\ challenges' = Append(challenges,
       [target |-> client[c].target, method |-> client[c].method,
        expires |-> now + Ttl, status |-> "pending"])
  /\ Answers(c)
  /\ UNCHANGED <<verified, placed, now, requests, revocations, history>>

-----------------------------------------------------------------------------
(* check_verification *)

IdsOf(t)  == { i \in Id : challenges[i].target = t }
Proven(i) == challenges[i].status = "verified" \/ i \in lapsed
Writing(t) == \E d \in Client : client[d].pc = "marked" /\ client[d].target = t

\* An unknown identifier is answered like an expired challenge.
CheckUnknown(c) ==
  /\ client[c].pc = "idle" /\ requests < MaxRequests
  /\ requests' = requests + 1
  /\ Answers(c)   \* unverifiable
  /\ UNCHANGED <<challenges, verified, placed, now, revocations, history>>

\* Mutant: a verified challenge is fetched again.
LookUpAgain(c, i) ==
  /\ client[c].pc = "idle" /\ requests < MaxRequests /\ ~Expired(i)
  /\ requests' = requests + 1
  /\ client' = [client EXCEPT ![c] = [Idle EXCEPT !.pc = "fetching",
                                      !.target = challenges[i].target, !.id = i]]
  /\ UNCHANGED <<challenges, verified, placed, now, revocations, history>>

\* The record, not the set of verified targets, decides; expiry comes first.
LookUp(c, i) ==
  LET t == challenges[i].target IN
  /\ client[c].pc = "idle" /\ requests < MaxRequests
  /\ requests' = requests + 1
  /\ CASE Expired(i) ->
            /\ challenges' = [challenges EXCEPT ![i].status = "expired"]
            /\ lapsed' = IF challenges[i].status = "verified" THEN lapsed \cup {i}
                                                               ELSE lapsed
            /\ Answers(c)   \* unverifiable
            /\ UNCHANGED claimed
       [] ~Expired(i) /\ challenges[i].status = "verified" ->
            /\ Answers(c)   \* owned
            /\ claimed' = claimed \cup {t}
            /\ UNCHANGED <<challenges, lapsed>>
       [] OTHER ->
            /\ client' = [client EXCEPT ![c] = [Idle EXCEPT !.pc = "fetching",
                                                !.target = t, !.id = i]]
            /\ UNCHANGED <<challenges, claimed, lapsed>>
  /\ UNCHANGED <<verified, placed, now, revocations, revoked, proved, undone, overruled>>

ProofFound(c) ==
  /\ client[c].pc = "fetching" /\ client[c].id \in placed
  /\ proved' = proved \cup {client[c].target}
  /\ client' = [client EXCEPT ![c].pc = "found", ![c].met = FALSE]
  /\ UNCHANGED <<challenges, verified, placed, now, requests, revocations,
                 revoked, claimed, undone, overruled, lapsed>>

\* Almost any trouble on the way to the target is no proof ...
ProofMissing(c) ==
  LET i == client[c].id  t == client[c].target IN
  /\ client[c].pc = "fetching"
  /\ challenges' = [challenges EXCEPT ![i].status = "failed"]
  /\ overruled' = IF client[c].met /\ Proven(i) THEN overruled \cup {t} ELSE overruled
  /\ lapsed' = lapsed \ {i}
  /\ Answers(c)   \* not_owned
  /\ UNCHANGED <<verified, placed, now, requests, revocations, revoked, proved,
                 claimed, undone>>

\* ... but a file that is not UTF-8 raises what the method does not catch.
FileRaises(c) ==
  /\ client[c].pc = "fetching" /\ challenges[client[c].id].method = "file"
  /\ Answers(c)   \* HTTP 500
  /\ UNCHANGED <<challenges, verified, placed, now, requests, revocations, history>>

\* Who meets the check that writes a verdict on challenge i.
Meets(d, i) ==
  \/ client[d].pc = "fetching" /\ client[d].id = i
  \/ client[d].pc = "revoking" /\ client[d].target = challenges[i].target

\* A check that writes although its target was revoked undoes the revocation.
Undoes(c) == undone' = IF client[c].met THEN undone \cup {client[c].target} ELSE undone

\* Mutant: the record gets the outcome for its status.
MarkOwned(c) ==
  /\ client[c].pc = "found"
  /\ challenges' = [challenges EXCEPT ![client[c].id].status = "owned"]
  /\ Goes(c, "marked")
  /\ UNCHANGED <<verified, placed, now, requests, revocations, history>>

\* The record is written first, then the set.
MarkVerified(c) ==
  LET i == client[c].id  t == client[c].target IN
  /\ client[c].pc = "found"
  /\ challenges' = [challenges EXCEPT ![i].status = "verified"]
  /\ client' = [d \in Client |->
       IF d = c THEN [client[d] EXCEPT !.pc = "marked"]
                ELSE [client[d] EXCEPT !.met = @ \/ Meets(d, i)]]
  /\ Undoes(c)
  /\ overruled' = overruled \ {t} /\ lapsed' = lapsed \ IdsOf(t)
  /\ UNCHANGED <<verified, placed, now, requests, revocations, revoked, proved, claimed>>

AddVerified(c) ==
  /\ client[c].pc = "marked"
  /\ verified' = verified \cup {client[c].target}
  /\ claimed' = claimed \cup {client[c].target}
  /\ Undoes(c)
  /\ Answers(c)   \* owned
  /\ UNCHANGED <<challenges, placed, now, requests, revocations, revoked, proved,
                 overruled, lapsed>>

-----------------------------------------------------------------------------
(* revoke_verification, which only the tests call: the set first, then the
   records, in a walk that other requests interleave with.  id: records done. *)

Revoke(c, t) ==
  /\ client[c].pc = "idle" /\ revocations < MaxRevocations
  /\ revocations' = revocations + 1
  /\ verified' = verified \ {t}
  /\ client' = [client EXCEPT ![c] = [Idle EXCEPT !.pc = "revoking", !.target = t,
                                      !.seen = Len(challenges), !.met = Writing(t)]]
  /\ UNCHANGED <<challenges, placed, now, requests, history>>

HasProof(d, t) == client[d].pc \in {"found", "marked"} /\ client[d].target = t
Walking(c) == client[c].pc = "revoking" /\ client[c].seen = Len(challenges)

\* Mutant: only the set of verified targets is cleared.
KeepRecord(c) ==
  /\ Walking(c) /\ client[c].id < client[c].seen
  /\ client' = [client EXCEPT ![c].id = @ + 1]
  /\ UNCHANGED <<challenges, verified, placed, now, requests, revocations, history>>

RevokeRecord(c) ==
  LET i == client[c].id + 1  t == client[c].target IN
  /\ Walking(c) /\ client[c].id < client[c].seen
  /\ IF challenges[i].target = t
       THEN /\ challenges' = [challenges EXCEPT ![i].status = "failed"]
            /\ overruled' = IF client[c].met /\ Proven(i) THEN overruled \cup {t}
                                                          ELSE overruled
            /\ lapsed' = lapsed \ {i}
       ELSE UNCHANGED <<challenges, overruled, lapsed>>
  /\ client' = [client EXCEPT ![c].id = i]
  /\ UNCHANGED <<verified, placed, now, requests, revocations, revoked, proved,
                 claimed, undone>>

RevokeEnds(c) ==
  LET t == client[c].target IN
  /\ Walking(c) /\ client[c].id = client[c].seen
  /\ revoked' = revoked \cup {t}
  /\ proved' = proved \ {t} /\ claimed' = claimed \ {t}
  /\ undone' = IF client[c].met THEN undone \cup {t} ELSE undone \ {t}
  /\ client' = [d \in Client |->
       IF d = c THEN Idle
                ELSE [client[d] EXCEPT !.met = @ \/ HasProof(d, t)]]
  /\ UNCHANGED <<challenges, verified, placed, now, requests, revocations, overruled,
                 lapsed>>

\* The walk raises at the record it reached when the table has grown: the
\* records after it keep their status, and the revocation promises nothing.
RevokeRaises(c) ==
  /\ client[c].pc = "revoking" /\ client[c].seen < Len(challenges)
  /\ Answers(c)
  /\ UNCHANGED <<challenges, verified, placed, now, requests, revocations, history>>

-----------------------------------------------------------------------------
(* The owner and the clock *)

\* A file and a page hold one token, a TXT record and an endpoint several.
Displaced(i) ==
  IF challenges[i].method \in {"file", "http_endpoint"}
    THEN { j \in placed : /\ challenges[j].target = challenges[i].target
                          /\ challenges[j].method = challenges[i].method }
    ELSE {}

PlaceProof(i) ==
  /\ i \notin placed
  /\ placed' = (placed \ Displaced(i)) \cup {i}
  /\ UNCHANGED <<challenges, verified, client, now, requests, revocations, history>>

RemoveProof(i) ==
  /\ placed' = placed \ {i}
  /\ UNCHANGED <<challenges, verified, client, now, requests, revocations, history>>

Tick ==
  /\ now < MaxTime
  /\ now' = now + 1
  /\ UNCHANGED <<challenges, verified, client, placed, requests, revocations, history>>

-----------------------------------------------------------------------------
Starting == \E c \in Client :
  \/ \E t \in Target, m \in Method : BeginStart(c, t, m)
  \/ ReturnVerified(c) \/ CountActive(c) \/ WalkRaises(c) \/ AddChallenge(c)
Checking == \E c \in Client :
  \/ CheckUnknown(c) \/ \E i \in Id : LookUp(c, i)
  \/ ProofFound(c) \/ ProofMissing(c) \/ FileRaises(c)
  \/ MarkVerified(c) \/ AddVerified(c)
Revoking == \E c \in Client : \/ \E t \in Target : Revoke(c, t)
                              \/ RevokeRecord(c) \/ RevokeEnds(c) \/ RevokeRaises(c)

Next == \/ Starting \/ Checking \/ Revoking
        \/ \E i \in Id : PlaceProof(i)
        \/ \E i \in placed : RemoveProof(i)
        \/ Tick

Spec == Init /\ [][Next]_vars

-----------------------------------------------------------------------------
(* Properties *)

\* Every variable keeps its type.
TypeOK ==
  /\ challenges \in Seq(Challenge)
  /\ verified \subseteq Target /\ placed \subseteq Id
  /\ client \in [Client -> Request]
  /\ \A c \in Client :
       /\ client[c].pc # "idle" => client[c].target \in Target
       /\ client[c].pc \in {"starting", "adding"} => client[c].method \in Method
       /\ client[c].pc \in {"fetching", "found", "marked"} => client[c].id \in Id
       /\ client[c].pc = "revoking" => client[c].id <= client[c].seen
  /\ now \in 0 .. MaxTime /\ requests \in Nat /\ revocations \in Nat
  /\ revoked \cup proved \cup claimed \cup undone \cup overruled \subseteq Target
  /\ lapsed \subseteq Id

\* A target has at most one active challenge more than the limit for every
\* other thread that counted before the first of them was added
\* (verification.py:178-205).
ActiveIsBounded ==
  \A t \in Target : Cardinality(Active(t)) <= MaxActive + Cardinality(Client) - 1

\* Once revoke_verification has returned, the target is neither in the set nor
\* answered to be owned until a check finds a proof, whatever overlaps the walk,
\* with one exception: a check that found its proof before the revocation ended
\* and wrote its outcome after it began undoes it (verification.py:238-243,
\* :267-272).
RevocationHolds ==
  \A t \in revoked \cap (verified \cup claimed) : t \in proved \cup undone

\* A verified target has a challenge that is verified, or was when it expired.
\* Only a request that overlapped the check that proved it takes that away: a
\* second check of the same challenge that found no proof, or a revocation
\* (verification.py:217-220, :240-243, :253, :270-272).
VerifiedHasRecord ==
  \A t \in verified : t \in overruled \/ \E i \in IdsOf(t) : Proven(i)

-----------------------------------------------------------------------------
(* The inductive invariant behind these properties (OwnershipServiceProofs) *)

Adding(t) == { c \in Client : client[c].pc = "adding" /\ client[c].target = t }

\* A check works on a challenge of its target, which nobody else has verified
\* while it fetches unless it met him; what lapsed is past its expiry.
ChallengeInv ==
  /\ \A c \in Client :
       /\ client[c].pc \in {"fetching", "found", "marked"}
            => challenges[client[c].id].target = client[c].target
       /\ client[c].pc = "fetching" /\ ~client[c].met => ~Proven(client[c].id)
  /\ \A i \in lapsed : Expired(i)

\* A revocation that met no check finds set and records as it left them.
RevokingInv ==
  \A c \in Client : client[c].pc = "revoking" /\ ~client[c].met =>
    LET t == client[c].target IN
    /\ t \notin verified /\ ~Writing(t)
    /\ \A i \in IdsOf(t) : i <= client[c].id => challenges[i].status # "verified"

\* From a revocation to the next proof nothing says that the target is owned.
QuietInv ==
  \A t \in revoked \ (proved \cup undone) :
    /\ t \notin verified \cup claimed
    /\ \A i \in IdsOf(t) : challenges[i].status # "verified"
    /\ \A c \in Client : HasProof(c, t) => client[c].met

\* What backs a verified target is there before the target is.
Backed(t) == t \in overruled \/ \E i \in IdsOf(t) : Proven(i)
RecordInv == \A t \in Target : t \in verified \/ Writing(t) => Backed(t)

\* The threads that counted and have not added yet share one last place.
CountInv ==
  \A t \in Target :
    Cardinality(Active(t)) + Cardinality(Adding(t)) <= MaxActive + Cardinality(Client) - 1

OwnershipInv ==
  /\ TypeOK /\ ChallengeInv /\ RevokingInv /\ QuietInv /\ RecordInv /\ CountInv
=============================================================================
