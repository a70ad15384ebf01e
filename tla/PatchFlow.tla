----------------------------- MODULE PatchFlow -----------------------------
(***************************************************************************)
(* The pull requests for findings: create_fix_pr (control/api.py) with the *)
(* proposers of inference/, the deterministic patcher and PRGenerator.     *)
(* Every request works on the clone the caller names, one git call after   *)
(* the other and without a lock; nothing returns the clone to main when a  *)
(* request is over or has failed.  The content of a file is the set of     *)
(* findings it is patched for.  Files are proposed and written whole.      *)
(***************************************************************************)
EXTENDS Naturals, FiniteSets

CONSTANTS
  Finding, Branch, File,
  main,                  \* the branch the clone is on at first
  FileOf,                \* of a finding: finding.path
  Request, FindingOf,    \* requests, also several for one finding
  BranchOf,              \* of a request: the caller's, or generate_branch_name
  Receipts,              \* requests for findings of a pentest
  MaxActive,             \* bound: requests served at once
  MaxFaults              \* bound: calls that fail

ASSUME PatchFlowAssumption ==
  /\ main \in Branch /\ File # {}
  /\ FileOf \in [Finding -> File] /\ FindingOf \in [Request -> Finding]
  /\ BranchOf \in [Request -> Branch] /\ Receipts \subseteq Request
  /\ MaxActive \in Nat /\ MaxFaults \in Nat

Tree   == [File -> SUBSET Finding]
Clean  == [x \in File |-> {}]
Absent == [x \in {} |-> {}]
PCs    == {"idle", "propose", "branch", "checkout", "write", "add", "commit",
           "push", "post", "done"}
Step   == {"none", "patch_generation", "commit", "push", "pr_create", "proposal",
           "raised"}

VARIABLES
  head,    \* the branch the clone is on
  local,   \* branch -> tree of its last commit, or absent
  index,   \* what is staged
  work,    \* the working tree
  remote,  \* branch -> tree that was pushed, or absent
  prs,     \* branches with an open pull request
  pc,      \* request -> its next call, "idle" before and "done" after it
  content, \* request -> the file as proposed
  failed,  \* request -> the step its answer names, none when created
  faults,  \* calls that failed
  dropped, \* ghost: findings whose patch a file written whole left out
  moved    \* ghost: requests another took to its branch before they committed

clone == <<head, local, index, work>>
vars  == <<clone, remote, prs, pc, content, failed, faults, dropped, moved>>

FileFor(r)   == FileOf[FindingOf[r]]
BranchFor(r) == BranchOf[r]
InClone      == { r \in Request : pc[r] \in {"checkout", "write", "add", "commit", "push"} }
Serving      == { r \in Request : pc[r] \notin {"idle", "done"} }

Init ==
  /\ head = main
  /\ local = [b \in Branch |-> IF b = main THEN Clean ELSE Absent]
  /\ index = Clean /\ work = Clean
  /\ remote = local /\ prs = {}
  /\ pc = [r \in Request |-> "idle"]
  /\ content = [r \in Request |-> {}]
  /\ failed = [r \in Request |-> "none"]
  /\ faults = 0 /\ dropped = {} /\ moved = {}

Goes(r, to) == pc' = [pc EXCEPT ![r] = to] /\ UNCHANGED failed
FailsAt(r, s) == /\ pc' = [pc EXCEPT ![r] = "done"]
                 /\ failed' = [failed EXCEPT ![r] = s]
\* A call fails by itself: the network, a lock of git, the thirty seconds.
Fault(r, s) == /\ faults < MaxFaults /\ faults' = faults + 1
               /\ FailsAt(r, s)
Smooth == UNCHANGED faults

-----------------------------------------------------------------------------
(* The patch *)

Receive(r) ==
  /\ pc[r] = "idle" /\ Cardinality(Serving) < MaxActive
  /\ Goes(r, "propose")
  /\ Smooth /\ UNCHANGED <<clone, remote, prs, content, dropped, moved>>

\* FallbackPatchProposer, and the deterministic patcher when both models
\* fail, read the file where the clone is now and answer all of it.
Propose(r) ==
  /\ pc[r] = "propose" /\ r \notin Receipts
  /\ content' = [content EXCEPT ![r] = work[FileFor(r)] \cup {FindingOf[r]}]
  /\ Goes(r, "branch")
  /\ Smooth /\ UNCHANGED <<clone, remote, prs, dropped, moved>>

\* Mutant: the deterministic patcher works in the clone and not in a copy.
ProposalFailsInPlace(r) ==
  /\ pc[r] = "propose" /\ r \notin Receipts
  /\ work' = [work EXCEPT ![FileFor(r)] = @ \cup {FindingOf[r]}]
  /\ Fault(r, "patch_generation")
  /\ UNCHANGED <<head, local, index, remote, prs, content, dropped, moved>>

ProposalFails(r) ==
  /\ pc[r] = "propose" /\ r \notin Receipts
  /\ Fault(r, "patch_generation")
  /\ UNCHANGED <<clone, remote, prs, content, dropped, moved>>

\* create_patch_pr_for_finding takes the target's URL for the path of the
\* file: no proposer can read it, and PatchPRAgent gives up at its first step.
PatchReceipt(r) ==
  /\ pc[r] = "propose" /\ r \in Receipts
  /\ FailsAt(r, "proposal")
  /\ Smooth /\ UNCHANGED <<clone, remote, prs, content, dropped, moved>>

-----------------------------------------------------------------------------
(* Branch, files, commit *)

\* Whoever has not committed yet finds itself on the branch r goes to.
Moves(r) ==
  moved' = IF head = BranchFor(r) THEN moved
             ELSE moved \cup { s \in Request \ {r} : pc[s] \in {"write", "add", "commit"} }

\* Mutant: the branch is switched to and not created.
SwitchToFixBranch(r) ==
  /\ pc[r] = "branch" /\ local[BranchFor(r)] = Absent
  /\ head' = BranchFor(r)
  /\ Moves(r)
  /\ Goes(r, "write")
  /\ Smooth /\ UNCHANGED <<local, index, work, remote, prs, content, dropped>>

\* checkout -b carries what is staged or changed into the new branch.
CreateFixBranch(r) ==
  /\ pc[r] = "branch" /\ local[BranchFor(r)] = Absent
  /\ local' = [local EXCEPT ![BranchFor(r)] = local[head]]
  /\ head' = BranchFor(r)
  /\ Moves(r)
  /\ Goes(r, "write")
  /\ Smooth /\ UNCHANGED <<index, work, remote, prs, content, dropped>>

BranchExists(r) ==
  /\ pc[r] = "branch" /\ local[BranchFor(r)] # Absent
  /\ Goes(r, "checkout")
  /\ Smooth /\ UNCHANGED <<clone, remote, prs, content, dropped, moved>>

\* Whatever checkout -b fails of, plain checkout is tried next.
CreateFails(r) ==
  /\ pc[r] = "branch" /\ local[BranchFor(r)] = Absent
  /\ faults < MaxFaults /\ faults' = faults + 1
  /\ Goes(r, "checkout")
  /\ UNCHANGED <<clone, remote, prs, content, dropped, moved>>

\* git refuses to lose changes in a file that the two branches disagree on.
Disagree(b, x) == local[b][x] # local[head][x] /\ index[x] # local[b][x]
Conflict(b) ==
  \E x \in File : Disagree(b, x) /\ (index[x] # local[head][x] \/ work[x] # local[head][x])
CheckedOut(b, tree) ==
  [x \in File |-> IF Disagree(b, x) THEN local[b][x] ELSE tree[x]]

Checkout(r) ==
  LET b == BranchFor(r) IN
  /\ pc[r] = "checkout"
  /\ IF local[b] = Absent \/ Conflict(b)
       THEN FailsAt(r, "commit") /\ UNCHANGED <<clone, moved>>
       ELSE /\ head' = b
            /\ index' = CheckedOut(b, index)
            /\ work' = CheckedOut(b, work)
            /\ UNCHANGED local
            /\ Moves(r)
            /\ Goes(r, "write")
  /\ Smooth /\ UNCHANGED <<remote, prs, content, dropped>>

ApplyPatches(r) ==
  /\ pc[r] = "write"
  /\ work' = [work EXCEPT ![FileFor(r)] = content[r]]
  /\ dropped' = dropped \cup (work[FileFor(r)] \ content[r])
  /\ Goes(r, "add")
  /\ Smooth /\ UNCHANGED <<head, local, index, remote, prs, content, moved>>

\* add takes the file as it is now, whoever wrote it.
Add(r) ==
  /\ pc[r] = "add"
  /\ index' = [index EXCEPT ![FileFor(r)] = work[FileFor(r)]]
  /\ Goes(r, "commit")
  /\ Smooth /\ UNCHANGED <<head, local, work, remote, prs, content, dropped, moved>>

\* commit takes all that is staged, to the branch the clone is on now; with
\* nothing staged it fails, unless a model worded the same fix differently.
Commit(r) ==
  /\ pc[r] = "commit"
  /\ local' = [local EXCEPT ![head] = index]
  /\ \/ Goes(r, "push")
     \/ index = local[head] /\ FailsAt(r, "commit")
  /\ Smooth /\ UNCHANGED <<head, index, work, remote, prs, content, dropped, moved>>

\* Any of these calls may fail; rev-parse fails when the commit is made.
CloneCallFails(r) ==
  /\ pc[r] \in {"checkout", "write", "add", "commit"}
  /\ \/ UNCHANGED local
     \/ /\ pc[r] = "commit" /\ index # local[head]
        /\ local' = [local EXCEPT ![head] = index]
  /\ Fault(r, "commit")
  /\ UNCHANGED <<head, index, work, remote, prs, content, dropped, moved>>

\* The name of the branch, the body of the pull request, which must not hold a
\* secret, and its title are made outside of every try.
Raises(r) ==
  /\ pc[r] \in {"branch", "push"}
  /\ Fault(r, "raised")   \* HTTP 500
  /\ UNCHANGED <<clone, remote, prs, content, dropped, moved>>

-----------------------------------------------------------------------------
(* Push and pull request *)

\* Mutant: a branch that the remote has is not pushed again.
PushOnce(r) ==
  /\ pc[r] = "push"
  /\ remote' = IF remote[BranchFor(r)] = Absent
                 THEN [remote EXCEPT ![BranchFor(r)] = local[BranchFor(r)]] ELSE remote
  /\ Goes(r, "post")
  /\ Smooth /\ UNCHANGED <<clone, prs, content, dropped, moved>>

Push(r) ==
  /\ pc[r] = "push"
  /\ remote' = [remote EXCEPT ![BranchFor(r)] = local[BranchFor(r)]]
  /\ Goes(r, "post")
  /\ Smooth /\ UNCHANGED <<clone, prs, content, dropped, moved>>

\* Refused, or timed out after the remote had it.
PushFails(r) ==
  /\ pc[r] = "push"
  /\ remote' \in {remote, [remote EXCEPT ![BranchFor(r)] = local[BranchFor(r)]]}
  /\ Fault(r, "push")
  /\ UNCHANGED <<clone, prs, content, dropped, moved>>

\* For a branch that has its pull request already, 422, that one is looked up
\* and returned.
CreatePullRequest(r) ==
  /\ pc[r] = "post" /\ BranchFor(r) # main
  /\ prs' = prs \cup {BranchFor(r)}
  /\ Goes(r, "done")
  /\ Smooth /\ UNCHANGED <<clone, remote, content, dropped, moved>>

\* 422 and no pull request: main itself, or a branch without a commit of its
\* own, which trees do not tell.
NothingToMerge(r) ==
  /\ pc[r] = "post" /\ BranchFor(r) \notin prs
  /\ FailsAt(r, "pr_create")
  /\ Smooth /\ UNCHANGED <<clone, remote, prs, content, dropped, moved>>

\* Every exception is None, also one after GitHub had opened it.
PullRequestFails(r) ==
  /\ pc[r] = "post"
  /\ prs' \in {prs, prs \cup ({BranchFor(r)} \ {main})}
  /\ Fault(r, "pr_create")
  /\ UNCHANGED <<clone, remote, content, dropped, moved>>

-----------------------------------------------------------------------------
Serve(r) ==
  \/ Propose(r) \/ ProposalFails(r) \/ PatchReceipt(r)
  \/ CreateFixBranch(r) \/ BranchExists(r) \/ CreateFails(r) \/ Checkout(r)
  \/ ApplyPatches(r) \/ Add(r) \/ Commit(r) \/ CloneCallFails(r) \/ Raises(r)
  \/ Push(r) \/ PushFails(r)
  \/ CreatePullRequest(r) \/ NothingToMerge(r) \/ PullRequestFails(r)

Next == \E r \in Request : Receive(r) \/ Serve(r)

Spec == Init /\ [][Next]_vars

-----------------------------------------------------------------------------
(* Properties *)

Created(r) == pc[r] = "done" /\ failed[r] = "none"

\* Every variable keeps its type, and the clone is on a branch that exists.
TypeOK ==
  /\ head \in Branch /\ local[head] # Absent
  /\ local \in [Branch -> Tree \cup {Absent}]
  /\ remote \in [Branch -> Tree \cup {Absent}]
  /\ index \in Tree /\ work \in Tree
  /\ prs \subseteq Branch /\ failed \in [Request -> Step]
  /\ pc \in [Request -> PCs] /\ content \in [Request -> SUBSET Finding]
  /\ faults \in Nat /\ dropped \subseteq Finding /\ moved \subseteq Request

\* Whatever requests do at the same time, a created pull request lacks the
\* patch it was created for in two cases only: before its commit another
\* request took the clone to its own branch, or a file written whole from an
\* old reading left that very patch out (api.py:1315-1321, pr_generator.py:101,
\* :295-306).
CreatedHoldsPatch ==
  \A r \in Request :
    Created(r) /\ FindingOf[r] \notin remote[BranchFor(r)][FileFor(r)] =>
      r \in moved \/ FindingOf[r] \in dropped

\* However requests share the clone, a file is left changed or staged between
\* them only by one for that very file that failed at the commit
\* (api.py:1315-1323).
DirtyNeedsFailure ==
  InClone = {} =>
    \A x \in File : index[x] # local[head][x] \/ work[x] # local[head][x] =>
      \E r \in Request : failed[r] = "commit" /\ FileFor(r) = x

-----------------------------------------------------------------------------
(* The inductive invariant behind these properties (PatchFlowProofs)        *)

\* An answer that names a step is the end of its request.
RequestInv == \A r \in Request : failed[r] # "none" => pc[r] = "done"

\* But for the patches that were left out, nothing that is committed is lost
\* from the index, and nothing that is staged from the working tree.
GrowInv ==
  \A x \in File : /\ local[head][x] \ dropped \subseteq index[x]
                  /\ index[x] \ dropped \subseteq work[x]

\* Where the patch of a request has got to.
Held(r) ==
  LET f == FindingOf[r]  x == FileFor(r)  b == BranchFor(r) IN
  /\ pc[r] \in {"branch", "checkout", "write"} => f \in content[r]
  /\ pc[r] \in {"write", "add", "commit"} => head = b
  /\ pc[r] = "add" => f \in work[x]
  /\ pc[r] = "commit" => f \in index[x]
  /\ pc[r] \in {"push", "post"} \/ Created(r) => local[b] # Absent /\ f \in local[b][x]
  /\ pc[r] = "post" \/ Created(r) => f \in remote[b][x]

HoldInv == \A r \in Request : r \notin moved /\ FindingOf[r] \notin dropped => Held(r)

\* The requests for a file that are at a step, or failed at the commit.
At(x, q) == { r \in Request : FileFor(r) = x /\ (pc[r] = q \/ failed[r] = "commit") }

\* What is changed or staged is on its way or was left by a failure.
CloneInv ==
  \A x \in File : /\ work[x] # index[x] => At(x, "add") # {}
                  /\ index[x] # local[head][x] => At(x, "commit") # {}

PatchInv ==
  /\ TypeOK /\ RequestInv /\ GrowInv /\ HoldInv /\ CloneInv
=============================================================================
