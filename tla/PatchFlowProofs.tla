-------------------------- MODULE PatchFlowProofs --------------------------
(***************************************************************************)
(* Proofs about PatchFlow: for any findings, branches, files and requests, *)
(* however many are served at once and whatever calls fail, the inductive  *)
(* invariant PatchInv holds, and with it what a created pull request and   *)
(* an idle clone can be relied on for.                                     *)
(***************************************************************************)
EXTENDS PatchFlow, TLAPS

(* A branch that is absent has no tree.                                     *)
LEMMA AbsentIsNoTree == Absent \notin Tree /\ Clean \in Tree
<1>1. File # {}
  BY PatchFlowAssumption DEF PatchFlowAssumption
<1>2. DOMAIN Absent = {} /\ \A t \in Tree : DOMAIN t = File
  BY DEF Absent, Tree
<1>3. QED
  BY <1>1, <1>2 DEF Tree, Clean

(* A request has one finding, one file and one branch.                      *)
LEMMA RequestsAsk ==
  ASSUME NEW r \in Request
  PROVE  /\ FindingOf[r] \in Finding /\ FileFor(r) \in File
         /\ BranchFor(r) \in Branch
BY PatchFlowAssumption DEF PatchFlowAssumption, FileFor, BranchFor

(* One branch gets another tree.                                            *)
LEMMA BranchWrite ==
  ASSUME NEW B, NEW m \in [B -> Tree \cup {Absent}], NEW b \in B,
         NEW t \in Tree \cup {Absent}
  PROVE  /\ [m EXCEPT ![b] = t] \in [B -> Tree \cup {Absent}]
         /\ [m EXCEPT ![b] = t][b] = t
         /\ \A a \in B \ {b} : [m EXCEPT ![b] = t][a] = m[a]
OBVIOUS

(* What checkout leaves of a tree is, file by file, that of the branch or   *)
(* what was there.                                                          *)
LEMMA CheckedOutTree ==
  ASSUME NEW b, local[b] \in Tree, NEW t \in Tree
  PROVE  /\ CheckedOut(b, t) \in Tree
         /\ \A x \in File : CheckedOut(b, t)[x] = IF Disagree(b, x) THEN local[b][x] ELSE t[x]
BY DEF CheckedOut, Tree

(* The next call of a request, and of no other.                             *)
LEMMA Goings ==
  ASSUME TypeOK, NEW r \in Request, NEW q \in PCs, Goes(r, q)
  PROVE  /\ pc' \in [Request -> PCs] /\ pc'[r] = q /\ failed' = failed
         /\ \A s \in Request \ {r} : pc'[s] = pc[s]
BY DEF TypeOK, Goes

(* A request that ends at a step, and no other.                             *)
LEMMA Failings ==
  ASSUME TypeOK, NEW r \in Request, NEW s \in Step, FailsAt(r, s)
  PROVE  /\ pc' \in [Request -> PCs] /\ pc'[r] = "done"
         /\ failed' \in [Request -> Step] /\ failed'[r] = s
         /\ \A q \in Request \ {r} : pc'[q] = pc[q] /\ failed'[q] = failed[q]
BY DEF TypeOK, FailsAt, PCs

(* A call that fails by itself ends its request.                            *)
LEMMA Faults ==
  ASSUME TypeOK, NEW r \in Request, NEW s \in Step, Fault(r, s)
  PROVE  FailsAt(r, s) /\ faults' \in Nat
BY DEF Fault, TypeOK

-----------------------------------------------------------------------------
(* What each call does                                                      *)

(* Calls outside the clone: the request's own proposal, GitHub, and what is *)
(* raised between the calls.                                                *)
LEMMA OutsideFacts ==
  ASSUME TypeOK, NEW r \in Request,
         \/ Receive(r) \/ Propose(r) \/ ProposalFails(r) \/ PatchReceipt(r)
         \/ CreatePullRequest(r) \/ NothingToMerge(r) \/ PullRequestFails(r) \/ Raises(r)
  PROVE  /\ UNCHANGED <<clone, remote, dropped, moved>> /\ faults' \in Nat
         /\ pc' \in [Request -> PCs] /\ failed' \in [Request -> Step]
         /\ content' \in [Request -> SUBSET Finding] /\ prs' \subseteq Branch
         /\ \A s \in Request \ {r} : /\ pc'[s] = pc[s] /\ failed'[s] = failed[s]
                                    /\ content'[s] = content[s]
         /\ pc[r] \in {"idle", "propose", "branch", "push", "post"}
         /\ pc'[r] \in {"propose", "branch", "done"}
         /\ failed'[r] # "commit" \/ failed' = failed
         /\ failed'[r] # failed[r] => pc'[r] = "done" /\ failed'[r] # "none"
         /\ pc'[r] = "done" /\ failed'[r] = "none" => pc[r] = "post"
         /\ pc'[r] = "branch" => FindingOf[r] \in content'[r]
<1>0. FindingOf[r] \in Finding /\ FileFor(r) \in File /\ BranchFor(r) \in Branch
  BY RequestsAsk
<1>1. CASE Receive(r)
  <2>1. pc[r] = "idle" /\ Goes(r, "propose") /\ "propose" \in PCs
        /\ UNCHANGED <<faults, clone, remote, prs, content, dropped, moved>>
    BY <1>1 DEF Receive, PCs, Smooth
  <2>2. QED
    BY <2>1, Goings DEF TypeOK
<1>2. CASE Propose(r)
  <2>1. pc[r] = "propose" /\ Goes(r, "branch") /\ "branch" \in PCs
        /\ UNCHANGED <<faults, clone, remote, prs, dropped, moved>>
        /\ content' = [content EXCEPT ![r] = work[FileFor(r)] \cup {FindingOf[r]}]
    BY <1>2 DEF Propose, PCs, Smooth
  <2>2. work[FileFor(r)] \cup {FindingOf[r]} \in SUBSET Finding
    BY <1>0 DEF TypeOK, Tree
  <2>3. content' \in [Request -> SUBSET Finding] /\ FindingOf[r] \in content'[r]
        /\ \A s \in Request \ {r} : content'[s] = content[s]
    BY <2>1, <2>2 DEF TypeOK
  <2>4. QED
    BY <2>1, <2>3, Goings DEF TypeOK
<1>3. CASE ProposalFails(r) \/ PatchReceipt(r) \/ NothingToMerge(r) \/ Raises(r)
  <2>1. PICK s \in Step \ {"none", "commit"} : FailsAt(r, s) /\ faults' \in Nat
    BY <1>3, Faults
       DEF ProposalFails, PatchReceipt, NothingToMerge, Raises, Step, Smooth, TypeOK
  <2>2. pc[r] \in {"propose", "branch", "push", "post"}
        /\ UNCHANGED <<clone, remote, prs, content, dropped, moved>>
    BY <1>3 DEF ProposalFails, PatchReceipt, NothingToMerge, Raises
  <2>3. QED
    BY <2>1, <2>2, Failings DEF TypeOK
<1>4. CASE CreatePullRequest(r) \/ PullRequestFails(r)
  <2>1. pc[r] = "post" /\ UNCHANGED <<clone, remote, content, dropped, moved>>
        /\ prs' \subseteq Branch
    BY <1>0, <1>4 DEF CreatePullRequest, PullRequestFails, TypeOK
  <2>2. CASE Goes(r, "done") /\ faults' \in Nat
    BY <2>1, <2>2, Goings DEF TypeOK, PCs
  <2>3. CASE FailsAt(r, "pr_create") /\ faults' \in Nat
    BY <2>1, <2>3, Failings DEF TypeOK, Step
  <2>4. QED
    BY <1>4, <2>2, <2>3, Faults DEF CreatePullRequest, PullRequestFails, Step, Smooth, TypeOK
<1>5. QED
  BY <1>1, <1>2, <1>3, <1>4

(* A request goes to its branch: who has not committed yet is moved unless   *)
(* the clone was there.                                                      *)
LEMMA MovesFacts ==
  ASSUME TypeOK, NEW r \in Request, Moves(r)
  PROVE  /\ moved \subseteq moved' /\ moved' \subseteq Request
         /\ \A s \in Request \ {r} :
              pc[s] \in {"write", "add", "commit"} /\ s \notin moved' => head = BranchFor(r)
BY DEF Moves, TypeOK

(* The branch of a request is created where the clone is.                    *)
LEMMA CreateFacts ==
  ASSUME TypeOK, NEW r \in Request, CreateFixBranch(r)
  PROVE  /\ pc[r] = "branch" /\ Goes(r, "write") /\ Moves(r) /\ faults' \in Nat
         /\ head' = BranchFor(r) /\ local[BranchFor(r)] = Absent
         /\ local' \in [Branch -> Tree \cup {Absent}]
         /\ local'[BranchFor(r)] = local[head] /\ local[head] \in Tree
         /\ \A b \in Branch : b # BranchFor(r) => local'[b] = local[b]
         /\ UNCHANGED <<index, work, remote, prs, content, dropped>>
<1>1. BranchFor(r) \in Branch /\ local[head] \in Tree
  BY RequestsAsk DEF TypeOK
<1>2. local' = [local EXCEPT ![BranchFor(r)] = local[head]]
  BY DEF CreateFixBranch
<1>3. QED
  BY <1>1, <1>2 DEF CreateFixBranch, Smooth, TypeOK

(* The branch is there, or was not created: both are left to checkout.       *)
LEMMA ExistsFacts ==
  ASSUME TypeOK, NEW r \in Request, BranchExists(r) \/ CreateFails(r)
  PROVE  /\ pc[r] = "branch" /\ Goes(r, "checkout") /\ faults' \in Nat
         /\ UNCHANGED <<clone, remote, prs, content, dropped, moved>>
BY DEF BranchExists, CreateFails, Smooth, TypeOK

(* A checkout is refused, or leaves the branch and what was staged or        *)
(* changed in the files on which it agrees.                                  *)
LEMMA CheckoutFacts ==
  ASSUME TypeOK, NEW r \in Request, Checkout(r)
  PROVE  /\ pc[r] = "checkout" /\ faults' \in Nat
         /\ UNCHANGED <<local, remote, prs, content, dropped>>
         /\ \/ FailsAt(r, "commit") /\ UNCHANGED <<clone, moved>>
            \/ /\ Goes(r, "write") /\ Moves(r) /\ head' = BranchFor(r)
               /\ local[BranchFor(r)] \in Tree /\ index' \in Tree /\ work' \in Tree
               /\ \A x \in File :
                    \/ /\ local[BranchFor(r)][x] # local[head][x]
                       /\ index'[x] = local[BranchFor(r)][x] /\ work'[x] = local[BranchFor(r)][x]
                    \/ /\ index'[x] = index[x] /\ work'[x] = work[x]
                       /\ \/ local[BranchFor(r)][x] = local[head][x]
                          \/ index[x] = local[BranchFor(r)][x]
<1> DEFINE b == BranchFor(r)
<1>1. pc[r] = "checkout" /\ faults' \in Nat
      /\ UNCHANGED <<local, remote, prs, content, dropped>>
  BY DEF Checkout, Smooth, TypeOK, clone
<1>2. CASE local[b] = Absent \/ Conflict(b)
  BY <1>1, <1>2 DEF Checkout
<1>3. CASE ~(local[b] = Absent \/ Conflict(b))
  <2>1. Goes(r, "write") /\ Moves(r) /\ head' = b /\ index' = CheckedOut(b, index)
        /\ work' = CheckedOut(b, work)
    BY <1>3 DEF Checkout
  <2>2. index \in Tree /\ work \in Tree /\ local[b] \in Tree
    BY <1>3, RequestsAsk DEF TypeOK
  <2>3. /\ index' \in Tree /\ work' \in Tree
        /\ \A x \in File : /\ index'[x] = IF Disagree(b, x) THEN local[b][x] ELSE index[x]
                           /\ work'[x] = IF Disagree(b, x) THEN local[b][x] ELSE work[x]
    BY <2>1, <2>2, CheckedOutTree
  <2>4. QED
    BY <1>1, <2>1, <2>2, <2>3 DEF Disagree
<1>4. QED
  BY <1>2, <1>3

(* A file is written whole: what is left out of it is noted.                 *)
LEMMA ApplyFacts ==
  ASSUME TypeOK, NEW r \in Request, ApplyPatches(r)
  PROVE  /\ pc[r] = "write" /\ Goes(r, "add") /\ faults' \in Nat
         /\ work' \in Tree /\ work'[FileFor(r)] = content[r]
         /\ \A x \in File \ {FileFor(r)} : work'[x] = work[x]
         /\ dropped \subseteq dropped' /\ dropped' \subseteq Finding
         /\ work[FileFor(r)] \ dropped' \subseteq content[r]
         /\ UNCHANGED <<head, local, index, remote, prs, content, moved>>
<1>1. FileFor(r) \in File /\ work \in Tree /\ content[r] \in SUBSET Finding
  BY RequestsAsk DEF TypeOK
<1>2. work' = [work EXCEPT ![FileFor(r)] = content[r]]
  BY DEF ApplyPatches
<1>3. /\ work' \in Tree /\ work'[FileFor(r)] = content[r]
      /\ \A x \in File \ {FileFor(r)} : work'[x] = work[x]
  BY <1>1, <1>2 DEF Tree
<1>4. dropped' = dropped \cup (work[FileFor(r)] \ content[r])
      /\ work[FileFor(r)] \in SUBSET Finding
  BY <1>1 DEF ApplyPatches, Tree
<1>5. QED
  BY <1>3, <1>4 DEF ApplyPatches, Smooth, TypeOK

(* The file of a request is staged as it is.                                 *)
LEMMA AddFacts ==
  ASSUME TypeOK, NEW r \in Request, Add(r)
  PROVE  /\ pc[r] = "add" /\ Goes(r, "commit") /\ faults' \in Nat
         /\ index' \in Tree /\ index'[FileFor(r)] = work[FileFor(r)]
         /\ \A x \in File \ {FileFor(r)} : index'[x] = index[x]
         /\ UNCHANGED <<head, local, work, remote, prs, content, dropped, moved>>
<1>1. FileFor(r) \in File /\ index \in Tree /\ work[FileFor(r)] \in SUBSET Finding
  BY RequestsAsk DEF TypeOK, Tree
<1>2. index' = [index EXCEPT ![FileFor(r)] = work[FileFor(r)]]
  BY DEF Add
<1>3. /\ index' \in Tree /\ index'[FileFor(r)] = work[FileFor(r)]
      /\ \A x \in File \ {FileFor(r)} : index'[x] = index[x]
  BY <1>1, <1>2 DEF Tree
<1>4. QED
  BY <1>3 DEF Add, Smooth, TypeOK

(* The end of a commit, whichever way it ends, and the failure of a call     *)
(* before it.                                                                *)
LEMMA CommitFacts ==
  ASSUME TypeOK, NEW r \in Request, Commit(r) \/ CloneCallFails(r)
  PROVE  /\ pc[r] \in {"checkout", "write", "add", "commit"} /\ faults' \in Nat
         /\ \/ pc[r] = "commit" /\ Goes(r, "push") /\ local'[head] = index
            \/ FailsAt(r, "commit")
         /\ local' \in [Branch -> Tree \cup {Absent}]
         /\ local'[head] \in {local[head], index}
         /\ \A b \in Branch : b # head => local'[b] = local[b]
         /\ UNCHANGED <<head, index, work, remote, prs, content, dropped, moved>>
<1>1. head \in Branch /\ index \in Tree \cup {Absent}
      /\ local \in [Branch -> Tree \cup {Absent}]
  BY DEF TypeOK
<1>2. local' = local \/ local' = [local EXCEPT ![head] = index]
  BY DEF Commit, CloneCallFails
<1>3. /\ local' \in [Branch -> Tree \cup {Absent}]
      /\ local'[head] \in {local[head], index}
      /\ \A b \in Branch : b # head => local'[b] = local[b]
  BY <1>1, <1>2, BranchWrite
<1>4. CASE Commit(r)
  <2>1. local'[head] = index
    BY <1>1, <1>4 DEF Commit
  <2>2. QED
    BY <1>3, <1>4, <2>1 DEF Commit, Smooth, TypeOK
<1>5. CASE CloneCallFails(r)
  BY <1>3, <1>5, Faults DEF CloneCallFails, Step
<1>6. QED
  BY <1>4, <1>5

(* A push takes the branch of the request, or nothing when it fails.         *)
LEMMA PushFacts ==
  ASSUME TypeOK, NEW r \in Request, Push(r) \/ PushFails(r)
  PROVE  /\ pc[r] = "push" /\ faults' \in Nat
         /\ \/ Goes(r, "post") /\ remote'[BranchFor(r)] = local[BranchFor(r)]
            \/ FailsAt(r, "push")
         /\ remote' \in [Branch -> Tree \cup {Absent}]
         /\ remote'[BranchFor(r)] \in {remote[BranchFor(r)], local[BranchFor(r)]}
         /\ \A b \in Branch \ {BranchFor(r)} : remote'[b] = remote[b]
         /\ UNCHANGED <<clone, prs, content, dropped, moved>>
<1>1. BranchFor(r) \in Branch /\ local[BranchFor(r)] \in Tree \cup {Absent}
      /\ remote \in [Branch -> Tree \cup {Absent}]
  BY RequestsAsk DEF TypeOK
<1>2. remote' = remote \/ remote' = [remote EXCEPT ![BranchFor(r)] = local[BranchFor(r)]]
  BY DEF Push, PushFails
<1>3. /\ remote' \in [Branch -> Tree \cup {Absent}]
      /\ remote'[BranchFor(r)] \in {remote[BranchFor(r)], local[BranchFor(r)]}
      /\ \A b \in Branch \ {BranchFor(r)} : remote'[b] = remote[b]
  BY <1>1, <1>2, BranchWrite
<1>4. CASE Push(r)
  <2>1. remote'[BranchFor(r)] = local[BranchFor(r)]
    BY <1>1, <1>4 DEF Push
  <2>2. QED
    BY <1>3, <1>4, <2>1 DEF Push, Smooth, TypeOK
<1>5. CASE PushFails(r)
  BY <1>3, <1>5, Faults DEF PushFails, Step
<1>6. QED
  BY <1>4, <1>5

(* The calls by what they touch.                                            *)
Outside(r) == \/ Receive(r) \/ Propose(r) \/ ProposalFails(r) \/ PatchReceipt(r)
              \/ CreatePullRequest(r) \/ NothingToMerge(r) \/ PullRequestFails(r) \/ Raises(r)
Looks(r)   == BranchExists(r) \/ CreateFails(r)
Commits(r) == Commit(r) \/ CloneCallFails(r)
Pushes(r)  == Push(r) \/ PushFails(r)
Call(r)    == \/ Outside(r) \/ Looks(r) \/ CreateFixBranch(r) \/ Checkout(r)
              \/ ApplyPatches(r) \/ Add(r) \/ Commits(r) \/ Pushes(r)

(* A step is a call of some request.                                        *)
LEMMA Calls ==
  ASSUME [Next]_vars
  PROVE  (\E r \in Request : Call(r)) \/ UNCHANGED vars
BY DEF Next, Serve, Call, Outside, Looks, Commits, Pushes

(* Where a call may lead.                                                   *)
LEMMA Places ==
  /\ "write" \in PCs /\ "checkout" \in PCs /\ "add" \in PCs /\ "commit" \in PCs
  /\ "push" \in PCs /\ "post" \in PCs /\ "commit" \in Step /\ "push" \in Step
BY DEF PCs, Step

(* A call changes its own request only, which was not over; what was noted  *)
(* stays noted.                                                             *)
LEMMA CallFacts ==
  ASSUME TypeOK, NEW r \in Request, Call(r)
  PROVE  /\ pc[r] # "done" /\ (failed'[r] # failed[r] => pc'[r] = "done")
         /\ \A s \in Request \ {r} : /\ pc'[s] = pc[s] /\ failed'[s] = failed[s]
                                    /\ content'[s] = content[s]
         /\ dropped \subseteq dropped' /\ moved \subseteq moved'
<1> USE Places
<1>1. CASE Outside(r)
  BY <1>1, OutsideFacts DEF Outside
<1>2. CASE Looks(r)
  BY <1>2, ExistsFacts, Goings DEF Looks
<1>3. CASE CreateFixBranch(r)
  BY <1>3, CreateFacts, MovesFacts, Goings
<1>4. CASE Checkout(r)
  BY <1>4, CheckoutFacts, MovesFacts, Goings, Failings
<1>5. CASE ApplyPatches(r) \/ Add(r)
  BY <1>5, ApplyFacts, AddFacts, Goings
<1>6. CASE Commits(r)
  BY <1>6, CommitFacts, Goings, Failings DEF Commits
<1>7. CASE Pushes(r)
  BY <1>7, PushFacts, Goings, Failings DEF Pushes
<1>8. QED
  BY <1>1, <1>2, <1>3, <1>4, <1>5, <1>6, <1>7 DEF Call

-----------------------------------------------------------------------------
(* Types, and when a request is over                                        *)

(* At first there is main, and nothing was staged or changed.               *)
LEMMA InitType == Init => TypeOK
<1> SUFFICES ASSUME Init PROVE TypeOK
  OBVIOUS
<1>1. main \in Branch
  BY PatchFlowAssumption DEF PatchFlowAssumption
<1>2. local \in [Branch -> Tree \cup {Absent}] /\ local[head] # Absent
      /\ remote \in [Branch -> Tree \cup {Absent}] /\ index \in Tree /\ work \in Tree
  BY <1>1, AbsentIsNoTree DEF Init
<1>3. QED
  BY <1>1, <1>2 DEF Init, TypeOK, PCs, Step

(* Type correctness is kept by every step.                                  *)
LEMMA TypeStep ==
  ASSUME TypeOK, [Next]_vars
  PROVE  TypeOK'
<1> USE Places
<1>1. ASSUME NEW r \in Request, Outside(r)
      PROVE  TypeOK'
  BY <1>1, OutsideFacts DEF Outside, TypeOK, clone
<1>2. ASSUME NEW r \in Request, CreateFixBranch(r)
      PROVE  TypeOK'
  <2>1. pc' \in [Request -> PCs] /\ failed' = failed /\ moved' \subseteq Request
    BY <1>2, CreateFacts, MovesFacts, Goings
  <2>2. local'[head'] # Absent /\ head' \in Branch
    BY <1>2, CreateFacts, AbsentIsNoTree, RequestsAsk
  <2>3. QED
    BY <1>2, <2>1, <2>2, CreateFacts DEF TypeOK
<1>3. ASSUME NEW r \in Request, Looks(r)
      PROVE  TypeOK'
  BY <1>3, ExistsFacts, Goings DEF Looks, TypeOK, clone
<1>4. ASSUME NEW r \in Request, Checkout(r)
      PROVE  TypeOK'
  <2>1. BranchFor(r) \in Branch
    BY RequestsAsk
  <2>2. CASE FailsAt(r, "commit") /\ UNCHANGED <<clone, moved>>
    BY <1>4, <2>2, CheckoutFacts, Failings DEF TypeOK, clone
  <2>3. CASE ~(FailsAt(r, "commit") /\ UNCHANGED <<clone, moved>>)
    <3>1. /\ Goes(r, "write") /\ Moves(r) /\ head' = BranchFor(r) /\ local' = local
          /\ local[BranchFor(r)] # Absent /\ index' \in Tree /\ work' \in Tree
      BY <1>4, <2>3, CheckoutFacts, AbsentIsNoTree
    <3>2. QED
      BY <1>4, <2>1, <3>1, CheckoutFacts, MovesFacts, Goings DEF TypeOK
  <2>4. QED
    BY <2>2, <2>3
<1>5. ASSUME NEW r \in Request, ApplyPatches(r)
      PROVE  TypeOK'
  BY <1>5, ApplyFacts, Goings DEF TypeOK
<1>6. ASSUME NEW r \in Request, Add(r)
      PROVE  TypeOK'
  BY <1>6, AddFacts, Goings DEF TypeOK
<1>7. ASSUME NEW r \in Request, Commits(r)
      PROVE  TypeOK'
  <2>1. local'[head'] # Absent
    BY <1>7, CommitFacts, AbsentIsNoTree DEF Commits, TypeOK
  <2>2. QED
    BY <1>7, <2>1, CommitFacts, Goings, Failings DEF Commits, TypeOK
<1>8. ASSUME NEW r \in Request, Pushes(r)
      PROVE  TypeOK'
  BY <1>8, PushFacts, Goings, Failings DEF Pushes, TypeOK, clone
<1>9. CASE UNCHANGED vars
  BY <1>9 DEF vars, clone, TypeOK
<1>10. QED
  BY <1>1, <1>2, <1>3, <1>4, <1>5, <1>6, <1>7, <1>8, <1>9, Calls DEF Call

(* A request that has its answer is over.                                   *)
LEMMA RequestStep ==
  ASSUME TypeOK, RequestInv, [Next]_vars
  PROVE  RequestInv'
<1>1. ASSUME NEW r \in Request, Call(r)
      PROVE  RequestInv'
  BY <1>1, CallFacts DEF RequestInv
<1>2. CASE UNCHANGED vars
  BY <1>2 DEF vars, RequestInv
<1>3. QED
  BY <1>1, <1>2, Calls

-----------------------------------------------------------------------------
(* What is lost on the way, and what is not                                 *)

(* Every call keeps, but for what a file written whole leaves out, what was *)
(* committed in the index and what was staged in the working tree.          *)
LEMMA GrowStep ==
  ASSUME TypeOK, GrowInv, [Next]_vars
  PROVE  GrowInv'
<1> SUFFICES ASSUME NEW x \in File
             PROVE  /\ local'[head'][x] \ dropped' \subseteq index'[x]
                    /\ index'[x] \ dropped' \subseteq work'[x]
  BY DEF GrowInv
<1> DEFINE P == /\ local'[head'][x] \ dropped' \subseteq index'[x]
                /\ index'[x] \ dropped' \subseteq work'[x]
<1>0. /\ local[head][x] \ dropped \subseteq index[x]
      /\ index[x] \ dropped \subseteq work[x]
  BY DEF GrowInv
<1>1. ASSUME NEW r \in Request, Outside(r) \/ Looks(r) \/ Pushes(r)
      PROVE  P
  BY <1>0, <1>1, OutsideFacts, ExistsFacts, PushFacts DEF Outside, Looks, Pushes, clone
<1>2. ASSUME NEW r \in Request, CreateFixBranch(r)
      PROVE  P
  BY <1>0, <1>2, CreateFacts
<1>3. ASSUME NEW r \in Request, Checkout(r)
      PROVE  P
  BY <1>0, <1>3, CheckoutFacts DEF clone
<1>4. ASSUME NEW r \in Request, ApplyPatches(r)
      PROVE  P
  BY <1>0, <1>4, ApplyFacts
<1>5. ASSUME NEW r \in Request, Add(r)
      PROVE  P
  BY <1>0, <1>5, AddFacts
<1>6. ASSUME NEW r \in Request, Commits(r)
      PROVE  P
  BY <1>0, <1>6, CommitFacts DEF Commits
<1>7. CASE UNCHANGED vars
  BY <1>0, <1>7 DEF vars, clone
<1>8. P
  BY <1>1, <1>2, <1>3, <1>4, <1>5, <1>6, <1>7, Calls DEF Call
<1>9. QED
  BY <1>8

(* What a call of one request leaves of another's patch: the clone stays on  *)
(* the branch of one that has not committed, or the call notes it.           *)
LEMMA HeldByOthers ==
  ASSUME TypeOK, GrowInv, NEW s \in Request, NEW r \in Request \ {s}, Call(s), Held(r),
         r \notin moved', FindingOf[r] \notin dropped'
  PROVE  Held(r)'
<1> USE Places
<1> DEFINE f == FindingOf[r]
           x == FileFor(r)
           b == BranchFor(r)
           W == pc[r] \in {"write", "add", "commit"}
<1>0. f \in Finding /\ x \in File /\ b \in Branch /\ BranchFor(s) \in Branch
  BY RequestsAsk
<1>1. /\ pc'[r] = pc[r] /\ failed'[r] = failed[r] /\ content'[r] = content[r]
      /\ f \notin dropped
  BY CallFacts
<1>2. /\ W => head' = head
      /\ W /\ f \in work[x] => f \in work'[x]
      /\ W /\ f \in index[x] => f \in index'[x]
  <2>1. f \in index[x] => f \in work[x]
    BY <1>0, <1>1 DEF GrowInv
  <2>2. CASE Outside(s) \/ Looks(s) \/ Pushes(s)
    BY <2>2, OutsideFacts, ExistsFacts, PushFacts DEF Outside, Looks, Pushes, clone
  <2>3. CASE CreateFixBranch(s)
    BY <2>3, CreateFacts, MovesFacts
  <2>4. CASE Checkout(s)
    <3>1. CASE FailsAt(s, "commit") /\ UNCHANGED <<clone, moved>>
      BY <3>1 DEF clone
    <3>2. CASE ~(FailsAt(s, "commit") /\ UNCHANGED <<clone, moved>>)
      <4>1. Moves(s) /\ head' = BranchFor(s)
        BY <2>4, <3>2, CheckoutFacts
      <4>2. W => head = BranchFor(s)
        BY <4>1, MovesFacts
      <4>3. head = BranchFor(s) => index'[x] = index[x] /\ work'[x] = work[x]
        BY <1>0, <2>4, <3>2, CheckoutFacts
      <4>4. QED
        BY <4>1, <4>2, <4>3
    <3>3. QED
      BY <3>1, <3>2
  <2>5. CASE ApplyPatches(s)
    BY <1>0, <2>5, ApplyFacts
  <2>6. CASE Add(s)
    BY <1>0, <2>1, <2>6, AddFacts
  <2>7. CASE Commits(s)
    BY <2>7, CommitFacts DEF Commits
  <2>8. QED
    BY <2>2, <2>3, <2>4, <2>5, <2>6, <2>7 DEF Call
<1>3. local[b] # Absent /\ f \in local[b][x] => local'[b] # Absent /\ f \in local'[b][x]
  <2>1. CASE Commits(s)
    <3>1. local[head][x] \ dropped \subseteq index[x] /\ index \in Tree /\ head \in Branch
      BY <1>0 DEF GrowInv, TypeOK
    <3>2. QED
      BY <1>0, <1>1, <2>1, <3>1, CommitFacts, AbsentIsNoTree DEF Commits
  <2>2. CASE ~Commits(s)
    BY <1>0, <2>2, OutsideFacts, ExistsFacts, CreateFacts, CheckoutFacts, ApplyFacts, AddFacts,
       PushFacts DEF Call, Outside, Looks, Pushes, clone
  <2>3. QED
    BY <2>1, <2>2
<1>4. f \in remote[b][x] /\ local[b] # Absent /\ f \in local[b][x] => f \in remote'[b][x]
  <2>1. CASE Pushes(s)
    BY <1>0, <2>1, PushFacts DEF Pushes
  <2>2. CASE ~Pushes(s)
    BY <2>2, OutsideFacts, ExistsFacts, CreateFacts, CheckoutFacts, ApplyFacts, AddFacts,
       CommitFacts DEF Call, Outside, Looks, Commits
  <2>3. QED
    BY <2>1, <2>2
<1>5. QED
  BY <1>1, <1>2, <1>3, <1>4 DEF Held, Created, BranchFor, FileFor

(* What a call does for the patch of its own request.                       *)
LEMMA HeldByOwn ==
  ASSUME TypeOK, NEW r \in Request, Call(r), Held(r)
  PROVE  Held(r)'
<1> USE Places
<1> DEFINE f == FindingOf[r]
           x == FileFor(r)
           b == BranchFor(r)
<1>0. f \in Finding /\ x \in File /\ b \in Branch
  BY RequestsAsk
<1>1. CASE Outside(r)
  <2>1. pc[r] # "post" => ~Created(r)'
    BY <1>1, OutsideFacts DEF Outside, Created
  <2>2. QED
    BY <1>1, <2>1, OutsideFacts DEF Outside, clone, Held, Created, BranchFor, FileFor
<1>2. CASE CreateFixBranch(r)
  BY <1>2, CreateFacts, Goings DEF Held, Created, BranchFor, FileFor
<1>3. CASE Looks(r)
  BY <1>3, ExistsFacts, Goings DEF Looks, Held, Created, BranchFor, FileFor
<1>4. CASE Checkout(r)
  BY <1>4, CheckoutFacts, Goings, Failings DEF Held, Created, BranchFor, FileFor
<1>5. CASE ApplyPatches(r)
  BY <1>5, ApplyFacts, Goings DEF Held, Created, BranchFor, FileFor
<1>6. CASE Add(r)
  BY <1>6, AddFacts, Goings DEF Held, Created, BranchFor, FileFor
<1>7. CASE Commits(r)
  <2>1. pc[r] # "commit" \/ local'[head] = index \/ failed'[r] = "commit"
    BY <1>7, CommitFacts, Failings DEF Commits
  <2>2. index # Absent
    BY AbsentIsNoTree DEF TypeOK
  <2>3. QED
    BY <1>7, <2>1, <2>2, CommitFacts, Goings, Failings
       DEF Commits, Held, Created, BranchFor, FileFor
<1>8. CASE Pushes(r)
  BY <1>8, PushFacts, Goings, Failings DEF Pushes, Held, Created, BranchFor, FileFor, clone
<1>9. QED
  BY <1>1, <1>2, <1>3, <1>4, <1>5, <1>6, <1>7, <1>8 DEF Call

(* Every call keeps every patch that no note is about.                      *)
LEMMA HoldStep ==
  ASSUME TypeOK, GrowInv, HoldInv, [Next]_vars
  PROVE  HoldInv'
<1> SUFFICES ASSUME NEW r \in Request, r \notin moved', FindingOf[r] \notin dropped'
             PROVE  Held(r)'
  BY DEF HoldInv
<1>1. ASSUME NEW s \in Request, Call(s)
      PROVE  Held(r)'
  <2>1. Held(r)
    BY <1>1, CallFacts DEF HoldInv
  <2>2. QED
    BY <1>1, <2>1, HeldByOthers, HeldByOwn
<1>2. CASE UNCHANGED vars
  BY <1>2 DEF vars, clone, HoldInv, Held, Created, BranchFor, FileFor
<1>3. QED
  BY <1>1, <1>2, Calls

-----------------------------------------------------------------------------
(* The clone between requests                                               *)

(* Who is at a step, or failed at the commit, is still so after a call of   *)
(* another; the caller only if it has just failed at the commit.            *)
LEMMA StillAt ==
  ASSUME TypeOK, RequestInv, NEW r \in Request, Call(r), NEW x \in File, NEW q \in {"add", "commit"}
  PROVE  /\ pc[r] # q \/ FileFor(r) # x => At(x, q) \subseteq At(x, q)'
         /\ FileFor(r) = x /\ (pc'[r] = q \/ failed'[r] = "commit") => At(x, q)' # {}
<1>1. failed[r] # "commit"
  BY CallFacts DEF RequestInv
<1>2. ASSUME NEW s \in At(x, q), pc[r] # q \/ FileFor(r) # x
      PROVE  s \in At(x, q)'
  <2>1. s \in Request /\ FileFor(s) = x /\ (pc[s] = q \/ failed[s] = "commit")
    BY DEF At
  <2>2. s # r
    BY <1>1, <1>2, <2>1
  <2>3. pc'[s] = pc[s] /\ failed'[s] = failed[s]
    BY <2>1, <2>2, CallFacts
  <2>4. QED
    BY <2>1, <2>3 DEF At, FileFor
<1>3. FileFor(r) = x /\ (pc'[r] = q \/ failed'[r] = "commit") => r \in At(x, q)'
  BY DEF At, FileFor
<1>4. QED
  BY <1>2, <1>3

(* A call leaves a file changed or staged only if a request for it is on    *)
(* its way or failed.                                                       *)
LEMMA CloneStep ==
  ASSUME TypeOK, RequestInv, CloneInv, [Next]_vars
  PROVE  CloneInv'
<1> USE Places
<1> SUFFICES ASSUME NEW x \in File
             PROVE  /\ work'[x] # index'[x] => At(x, "add")' # {}
                    /\ index'[x] # local'[head'][x] => At(x, "commit")' # {}
  BY DEF CloneInv
<1> DEFINE P == /\ work'[x] # index'[x] => At(x, "add")' # {}
                /\ index'[x] # local'[head'][x] => At(x, "commit")' # {}
<1>0. /\ work[x] # index[x] => At(x, "add") # {}
      /\ index[x] # local[head][x] => At(x, "commit") # {}
  BY DEF CloneInv
<1>1. ASSUME NEW r \in Request, Call(r), pc[r] \notin {"add", "commit"},
             work'[x] # index'[x] => work[x] # index[x],
             index'[x] # local'[head'][x] => index[x] # local[head][x]
      PROVE  P
  BY <1>0, <1>1, StillAt
<1>2. ASSUME NEW r \in Request, Outside(r) \/ Looks(r) \/ Pushes(r)
      PROVE  P
  <2>1. pc[r] \notin {"add", "commit"} /\ UNCHANGED <<head, local, index, work>>
    BY <1>2, OutsideFacts, ExistsFacts, PushFacts DEF Outside, Looks, Pushes, clone
  <2>2. QED
    BY <1>1, <1>2, <2>1 DEF Call
<1>3. ASSUME NEW r \in Request, CreateFixBranch(r)
      PROVE  P
  BY <1>1, <1>3, CreateFacts DEF Call
<1>4. ASSUME NEW r \in Request, Checkout(r)
      PROVE  P
  <2>1. /\ pc[r] = "checkout"
        /\ work'[x] # index'[x] => work[x] # index[x]
        /\ index'[x] # local'[head'][x] => index[x] # local[head][x]
    BY <1>4, CheckoutFacts DEF clone
  <2>2. QED
    BY <1>1, <1>4, <2>1 DEF Call
<1>5. ASSUME NEW r \in Request, ApplyPatches(r)
      PROVE  P
  <2>1. pc[r] = "write" /\ pc'[r] = "add" /\ UNCHANGED <<head, local, index>>
        /\ (FileFor(r) # x => work'[x] = work[x])
    BY <1>5, ApplyFacts, Goings
  <2>2. Call(r)
    BY <1>5 DEF Call
  <2>3. index'[x] # local'[head'][x] => At(x, "commit")' # {}
    BY <1>0, <2>1, <2>2, StillAt
  <2>4. work'[x] # index'[x] => At(x, "add")' # {}
    BY <1>0, <2>1, <2>2, StillAt
  <2>5. QED
    BY <2>3, <2>4
<1>6. ASSUME NEW r \in Request, Add(r)
      PROVE  P
  <2>1. pc[r] = "add" /\ pc'[r] = "commit" /\ UNCHANGED <<head, local, work>>
        /\ (FileFor(r) # x => index'[x] = index[x])
        /\ (FileFor(r) = x => index'[x] = work[x])
    BY <1>6, AddFacts, Goings
  <2>2. Call(r)
    BY <1>6 DEF Call
  <2>3. index'[x] # local'[head'][x] => At(x, "commit")' # {}
    BY <1>0, <2>1, <2>2, StillAt
  <2>4. work'[x] # index'[x] => At(x, "add")' # {}
    BY <1>0, <2>1, <2>2, StillAt
  <2>5. QED
    BY <2>3, <2>4
<1>7. ASSUME NEW r \in Request, Commits(r)
      PROVE  P
  <2>1. /\ UNCHANGED <<head, index, work>> /\ local'[head] \in {local[head], index}
        /\ \/ pc[r] = "commit" /\ local'[head] = index
           \/ failed'[r] = "commit"
    BY <1>7, CommitFacts, Failings DEF Commits
  <2>2. Call(r)
    BY <1>7 DEF Call
  <2>3. index'[x] # local'[head'][x] => At(x, "commit")' # {}
    BY <1>0, <2>1, <2>2, StillAt
  <2>4. work'[x] # index'[x] => At(x, "add")' # {}
    BY <1>0, <2>1, <2>2, StillAt
  <2>5. QED
    BY <2>3, <2>4
<1>8. CASE UNCHANGED vars
  BY <1>0, <1>8 DEF vars, clone, At, FileFor
<1>9. P
  BY <1>2, <1>3, <1>4, <1>5, <1>6, <1>7, <1>8, Calls DEF Call
<1>10. QED
  BY <1>9

-----------------------------------------------------------------------------
(* The theorems                                                             *)

(* The invariant holds of the clone as it was made.                         *)
LEMMA InitPatch == Init => PatchInv
<1> SUFFICES ASSUME Init PROVE PatchInv
  OBVIOUS
<1>1. local[main] = Clean /\ head = main /\ index = Clean /\ work = Clean
  BY PatchFlowAssumption DEF Init, PatchFlowAssumption
<1>2. \A r \in Request : pc[r] = "idle" /\ failed[r] = "none"
  BY DEF Init
<1>3. GrowInv /\ CloneInv
  BY <1>1 DEF GrowInv, CloneInv
<1>4. HoldInv /\ RequestInv
  BY <1>2 DEF HoldInv, Held, Created, RequestInv
<1>5. QED
  BY <1>3, <1>4, InitType DEF PatchInv

(* The inductive invariant: what each request has done so far is where the  *)
(* next git call will take it from, unless another request moved the clone  *)
(* under it or a file written whole left it out; and what is changed or     *)
(* staged in a file is owed to a request for that file.                     *)
THEOREM PatchInvariant == Spec => []PatchInv
<1>1. PatchInv /\ [Next]_vars => PatchInv'
  BY TypeStep, RequestStep, GrowStep, HoldStep, CloneStep DEF PatchInv
<1>2. QED
  BY <1>1, InitPatch, PTL DEF Spec

(* Every variable keeps its type and the clone is always on a branch that   *)
(* exists (pr_generator.py:295-306 creates or checks out before it writes). *)
THEOREM TypeCorrect == Spec => []TypeOK
<1>1. PatchInv => TypeOK
  BY DEF PatchInv
<1>2. QED
  BY <1>1, PatchInvariant, PTL

(* However many requests share the clone, for whatever findings and by      *)
(* whatever branches, and whichever call fails: a created pull request      *)
(* lacks the patch it was created for only if another request took the      *)
(* clone away before its commit, or a file written whole left that patch    *)
(* out (api.py:1315-1321, pr_generator.py:101, :295-306).                   *)
THEOREM CreatedKeepsPatch == Spec => []CreatedHoldsPatch
<1>1. PatchInv => CreatedHoldsPatch
  <2> SUFFICES ASSUME PatchInv, NEW r \in Request, Created(r),
                      FindingOf[r] \notin remote[BranchFor(r)][FileFor(r)],
                      r \notin moved, FindingOf[r] \notin dropped
               PROVE  FALSE
    BY DEF CreatedHoldsPatch
  <2>1. QED
    BY DEF PatchInv, HoldInv, Held
<1>2. QED
  BY <1>1, PatchInvariant, PTL

(* However requests share the clone, between them a file is changed or      *)
(* staged only by one for that file that failed at the commit               *)
(* (api.py:1315-1323).                                                      *)
THEOREM DirtyHasReason == Spec => []DirtyNeedsFailure
<1>1. PatchInv => DirtyNeedsFailure
  <2> SUFFICES ASSUME PatchInv, InClone = {}, NEW x \in File,
                      index[x] # local[head][x] \/ work[x] # local[head][x]
               PROVE  \E r \in Request : failed[r] = "commit" /\ FileFor(r) = x
    BY DEF DirtyNeedsFailure
  <2>1. \A r \in Request : pc[r] \notin {"add", "commit"}
    BY DEF InClone
  <2>2. At(x, "add") # {} \/ At(x, "commit") # {}
    BY DEF PatchInv, CloneInv
  <2>3. QED
    BY <2>1, <2>2 DEF At
<1>2. QED
  BY <1>1, PatchInvariant, PTL
============================================================================
