--------------------------- MODULE MultisigProofs ---------------------------
(***************************************************************************)
(* For all tasks, signers, thresholds and bounds: a task that counts as    *)
(* ready or beyond has its quorum, no flow overwrites a collected          *)
(* signature, and a confirmed task is never broadcast again.               *)
(***************************************************************************)
EXTENDS MultisigWorkbench, TLAPS

(***************************************************************************)
(* The inductive invariant.                                                *)
(***************************************************************************)

\* One flow at a time: the flag processing is a lock.  A flow's copy holds
\* every signature of the task that it will overwrite.
Exclusive ==
    /\ \A f, g \in flows : f = g
    /\ flows # {} => processing
    /\ \A f \in flows : tasks[f.task].approved \subseteq f.copy.approved

\* What the checks before the wait still say of the copy after it.
Entitled(f) ==
    /\ f.op = "approve" => f.lines # <<>> /\ f.lines[1] \in f.copy.pending
    /\ f.op = "submit"  => IsQuorumReached(f.task, f.copy)

FlowsEntitled == \A f \in flows : Entitled(f)

Settled == {"confirmed", "rejected"}

\* A task that was once confirmed stays confirmed or becomes rejected, and no
\* flow is about to submit it or to write back an older status.
ConfirmedSettled ==
    \A t \in Tasks : \A i \in 1 .. Len(posts[t]) :
        posts[t][i] = "confirmed" =>
            /\ i = Len(posts[t])
            /\ tasks[t].status \in Settled
            /\ \A f \in flows : f.task = t => f.op # "submit" /\ f.copy.status \in Settled

\* What SignaturesKept says of one step.
KeepsSignatures == \A t \in Tasks : tasks[t].approved \subseteq tasks'[t].approved

MultisigInv ==
    /\ MultisigTypeOK
    /\ QuorumBacked
    /\ Exclusive
    /\ FlowsEntitled
    /\ ConfirmedSettled

(***************************************************************************)
(* Facts about one task and one flow.                                      *)
(***************************************************************************)

\* _mergeApproval yields a task that _assertTaskModel accepts, with a quorum if
\* it is ready, and keeps the signatures it was given.
LEMMA MergeApprovalOK ==
    ASSUME NEW t \in Tasks, NEW task \in Task, TaskOK(t, task), NEW signer \in task.pending
    PROVE  LET merged == MergeApproval(t, task, signer)
           IN  merged \in Task /\ TaskOK(t, merged) /\ task.approved \subseteq merged.approved
<1> DEFINE merged == MergeApproval(t, task, signer)
<1>1. task.approved \in SUBSET Signers /\ task.pending \in SUBSET Signers
  BY DEF Task
<1>2. /\ merged.approved = task.approved \cup {signer}
      /\ merged.pending = task.pending \ {signer}
      /\ merged.status = IF Cardinality(merged.approved) >= threshold[t]
                         THEN "ready" ELSE "approving"
  BY DEF MergeApproval
<1>3. merged \in Task
  BY <1>1 DEF MergeApproval, Task, Statuses
<1>4. AssertTaskModel(t, merged)
  BY <1>1, <1>2 DEF TaskOK, AssertTaskModel
<1>5. merged.status \in NeedsQuorum => IsQuorumReached(t, merged)
  BY <1>2 DEF NeedsQuorum, IsQuorumReached
<1> QED
  BY <1>2, <1>3, <1>4, <1>5 DEF TaskOK

\* A flow that starts takes a sound copy of the task, with the task's own
\* signatures, and finds no other flow.
LEMMA BeginKeeps ==
    ASSUME MultisigInv, ~processing,
           NEW t \in Tasks, NEW op \in {"approve", "reject", "import", "submit"},
           NEW lines \in Seq(Signers \cup {BadLine}),
           Begin(op, t, tasks[t], lines),
           tasks' \in [Tasks -> Task], posts' = posts,
           \A u \in Tasks : u # t => tasks'[u] = tasks[u],
           tasks'[t].approved = tasks[t].approved,
           TaskOK(t, tasks'[t]),
           Entitled([op |-> op, task |-> t, copy |-> tasks[t], lines |-> lines, attempt |-> 0]),
           op = "submit" \/ tasks'[t].status = tasks[t].status,
           op = "submit" => tasks[t].status \notin Settled
    PROVE  MultisigInv' /\ KeepsSignatures
<1> DEFINE new == [op |-> op, task |-> t, copy |-> tasks[t], lines |-> lines, attempt |-> 0]
<1>1. flows = {} /\ flows' = {new} /\ processing'
  BY DEF MultisigInv, Exclusive, Begin
<1>2. tasks[t] \in Task /\ new \in Flow
  BY DEF MultisigInv, MultisigTypeOK, Flow
<1>3. MultisigTypeOK'
  BY <1>1, <1>2 DEF MultisigInv, MultisigTypeOK, Begin
<1>4. QuorumBacked'
  BY <1>1 DEF MultisigInv, QuorumBacked, TaskOK, AssertTaskModel, IsQuorumReached
<1>5. Exclusive'
  BY <1>1 DEF Exclusive
<1>6. FlowsEntitled'
  BY <1>1 DEF FlowsEntitled, Entitled, IsQuorumReached
<1>7. ConfirmedSettled'
  BY <1>1 DEF MultisigInv, ConfirmedSettled
<1>8. KeepsSignatures
  BY DEF KeepsSignatures
<1> QED
  BY <1>3, <1>4, <1>5, <1>6, <1>7, <1>8 DEF MultisigInv

\* A flow that ends and writes back a sound task leaves no flow behind.
LEMMA FinishKeeps ==
    ASSUME MultisigInv, NEW f \in flows, NEW task \in Task, Finish(f, task),
           TaskOK(f.task, task), tasks[f.task].approved \subseteq task.approved,
           posts' \in [Tasks -> Seq(Answers)],
           \A u \in Tasks : u # f.task => posts'[u] = posts[u],
           \A i \in 1 .. Len(posts'[f.task]) :
               posts'[f.task][i] = "confirmed" =>
                   i = Len(posts'[f.task]) /\ task.status \in Settled
    PROVE  MultisigInv' /\ KeepsSignatures
<1>1. flows' = {} /\ processing' = FALSE
  BY DEF MultisigInv, Exclusive, Finish
<1>2. f.task \in Tasks
  BY DEF MultisigInv, MultisigTypeOK, Flow
<1>3. /\ tasks' \in [Tasks -> Task]
      /\ tasks'[f.task] = task
      /\ \A u \in Tasks : u # f.task => tasks'[u] = tasks[u]
  BY <1>2 DEF MultisigInv, MultisigTypeOK, Finish
<1>4. MultisigTypeOK'
  BY <1>1, <1>3 DEF MultisigTypeOK
<1>5. QuorumBacked'
  BY <1>1, <1>3 DEF MultisigInv, QuorumBacked, TaskOK, AssertTaskModel, IsQuorumReached
<1>6. Exclusive' /\ FlowsEntitled'
  BY <1>1 DEF Exclusive, FlowsEntitled
<1>7. ConfirmedSettled'
  BY <1>1, <1>3 DEF MultisigInv, ConfirmedSettled
<1>8. KeepsSignatures
  BY <1>3 DEF KeepsSignatures
<1> QED
  BY <1>4, <1>5, <1>6, <1>7, <1>8 DEF MultisigInv

(***************************************************************************)
(* The actions.                                                            *)
(***************************************************************************)

\* What a flow in progress knows.
LEMMA FlowFacts ==
    ASSUME MultisigInv, NEW f \in flows
    PROVE  /\ f.task \in Tasks /\ f.copy \in Task /\ f.lines \in Seq(Signers \cup {BadLine})
           /\ f.op \in {"approve", "reject", "import", "submit"}
           /\ TaskOK(f.task, f.copy) /\ TaskOK(f.task, tasks[f.task])
           /\ tasks[f.task] \in Task
           /\ tasks[f.task].approved \subseteq f.copy.approved
           /\ Entitled(f)
           /\ posts[f.task] \in Seq(Answers)
           /\ \A i \in 1 .. Len(posts[f.task]) : posts[f.task][i] = "confirmed" =>
                 /\ i = Len(posts[f.task])
                 /\ tasks[f.task].status \in Settled
                 /\ f.op # "submit" /\ f.copy.status \in Settled
<1>1. f \in Flow
  BY DEF MultisigInv, MultisigTypeOK
<1>2. f.task \in Tasks
  BY <1>1 DEF Flow
<1> QED
  BY <1>1, <1>2 DEF Flow, MultisigInv, MultisigTypeOK, QuorumBacked, Exclusive, FlowsEntitled, ConfirmedSettled

\* approveTask starts and ends.
LEMMA ApproveKeeps ==
    ASSUME MultisigInv, NEW t \in Tasks, NEW signer \in Signers, Approve(t, signer)
    PROVE  MultisigInv' /\ KeepsSignatures
<1>1. tasks[t] \in Task /\ TaskOK(t, tasks[t]) /\ tasks' = tasks /\ posts' = posts
  BY DEF MultisigInv, MultisigTypeOK, QuorumBacked, Approve
<1>2. Entitled([op |-> "approve", task |-> t, copy |-> tasks[t], lines |-> <<signer>>, attempt |-> 0])
  BY DEF Approve, Entitled
<1>3. tasks' \in [Tasks -> Task] /\ TaskOK(t, tasks'[t])
  BY <1>1 DEF MultisigInv, MultisigTypeOK
<1>9. Begin("approve", t, tasks[t], <<signer>>) /\ ~processing
  BY DEF Approve
<1>10. <<signer>> \in Seq(Signers \cup {BadLine})
  OBVIOUS
<1> QED
  BY <1>9, <1>10, <1>1, <1>2, <1>3, BeginKeeps

LEMMA ApproveDoneKeeps ==
    ASSUME MultisigInv, NEW f \in flows, ApproveDone(f)
    PROVE  MultisigInv' /\ KeepsSignatures
<1>1. CASE IsApprovalMutable(f.copy)
  <2> DEFINE merged == MergeApproval(f.task, f.copy, f.lines[1])
  <2>1. f.lines[1] \in f.copy.pending
    BY FlowFacts DEF ApproveDone, Entitled
  <2>2. merged \in Task /\ TaskOK(f.task, merged) /\ f.copy.approved \subseteq merged.approved
    BY <2>1, FlowFacts, MergeApprovalOK
  <2>3. \A i \in 1 .. Len(posts[f.task]) : posts[f.task][i] # "confirmed"
    BY <1>1, FlowFacts DEF IsApprovalMutable, Settled
  <2>4. Finish(f, merged) /\ posts' = posts
    BY <1>1 DEF ApproveDone
  <2> HIDE DEF merged
  <2> QED
    BY <2>2, <2>3, <2>4, FlowFacts, FinishKeeps DEF MultisigInv, MultisigTypeOK
<1>2. CASE ~IsApprovalMutable(f.copy)
  <2>1. Finish(f, tasks[f.task]) /\ posts' = posts
    BY <1>2 DEF ApproveDone
  <2> QED
    BY <2>1, FlowFacts, FinishKeeps DEF MultisigInv, MultisigTypeOK
<1> QED
  BY <1>1, <1>2

\* rejectTask starts and ends.
LEMMA RejectKeeps ==
    ASSUME MultisigInv, NEW t \in Tasks, Reject(t)
    PROVE  MultisigInv' /\ KeepsSignatures
<1>1. tasks[t] \in Task /\ TaskOK(t, tasks[t]) /\ tasks' = tasks /\ posts' = posts
  BY DEF MultisigInv, MultisigTypeOK, QuorumBacked, Reject
<1>2. Entitled([op |-> "reject", task |-> t, copy |-> tasks[t], lines |-> <<>>, attempt |-> 0])
  BY DEF Entitled
<1>3. tasks' \in [Tasks -> Task] /\ TaskOK(t, tasks'[t])
  BY <1>1 DEF MultisigInv, MultisigTypeOK
<1>9. Begin("reject", t, tasks[t], <<>>) /\ ~processing
  BY DEF Reject
<1>10. <<>> \in Seq(Signers \cup {BadLine})
  OBVIOUS
<1> QED
  BY <1>9, <1>10, <1>1, <1>2, <1>3, BeginKeeps

LEMMA RejectDoneKeeps ==
    ASSUME MultisigInv, NEW f \in flows, RejectDone(f)
    PROVE  MultisigInv' /\ KeepsSignatures
<1> DEFINE task == [f.copy EXCEPT !.status = "rejected"]
<1>1. /\ task \in Task /\ task.status = "rejected"
      /\ task.approved = f.copy.approved /\ task.pending = f.copy.pending
  BY FlowFacts DEF Task, Statuses
<1>2. TaskOK(f.task, task)
  BY <1>1, FlowFacts DEF TaskOK, AssertTaskModel, NeedsQuorum
<1>3. Finish(f, task) /\ posts' = posts
  BY DEF RejectDone
<1> HIDE DEF task
<1> QED
  BY <1>1, <1>2, <1>3, FlowFacts, FinishKeeps DEF MultisigInv, MultisigTypeOK, Settled

\* importOfflineSignatures starts, reads a line, and ends.
LEMMA ImportKeeps ==
    ASSUME MultisigInv, NEW t \in Tasks, NEW lines \in Seq(Signers \cup {BadLine}), Import(t, lines)
    PROVE  MultisigInv' /\ KeepsSignatures
<1>1. tasks[t] \in Task /\ TaskOK(t, tasks[t]) /\ tasks' = tasks /\ posts' = posts
  BY DEF MultisigInv, MultisigTypeOK, QuorumBacked, Import
<1>2. Entitled([op |-> "import", task |-> t, copy |-> tasks[t], lines |-> lines, attempt |-> 0])
  BY DEF Entitled
<1>3. tasks' \in [Tasks -> Task] /\ TaskOK(t, tasks'[t])
  BY <1>1 DEF MultisigInv, MultisigTypeOK
<1> QED
  BY <1>1, <1>2, <1>3, BeginKeeps DEF Import, OffersImport

\* A flow whose copy only gains signatures, none of them for a confirmed task.
LEMMA CopyKeeps ==
    ASSUME MultisigInv, NEW f \in flows, f.op = "import", f.lines # <<>>,
           NEW copy \in Task, TaskOK(f.task, copy), f.copy.approved \subseteq copy.approved,
           f.copy.status \in Settled => copy.status = f.copy.status,
           flows' = (flows \ {f}) \cup {[f EXCEPT !.copy = copy, !.lines = Tail(@)]},
           UNCHANGED <<tasks, processing, posts>>
    PROVE  MultisigInv' /\ KeepsSignatures
<1> DEFINE new == [f EXCEPT !.copy = copy, !.lines = Tail(@)]
<1>1. flows' = {new}
  BY DEF MultisigInv, Exclusive
<1>2. /\ new \in Flow /\ new.copy = copy /\ new.task = f.task /\ new.op = "import"
  <2>1. f \in Flow
    BY DEF MultisigInv, MultisigTypeOK
  <2>2. Tail(f.lines) \in Seq(Signers \cup {BadLine})
    BY FlowFacts
  <2> QED
    BY <2>1, <2>2 DEF Flow
<1> HIDE DEF new
<1>3. MultisigTypeOK'
  BY <1>1, <1>2 DEF MultisigInv, MultisigTypeOK
<1>4. QuorumBacked'
  BY <1>1, <1>2 DEF MultisigInv, QuorumBacked, TaskOK, AssertTaskModel, IsQuorumReached
<1>5. Exclusive'
  BY <1>1, <1>2, FlowFacts DEF MultisigInv, Exclusive
<1>6. FlowsEntitled'
  BY <1>1, <1>2 DEF FlowsEntitled, Entitled
<1>7. ConfirmedSettled'
  BY <1>1, <1>2 DEF MultisigInv, ConfirmedSettled
<1> QED
  BY <1>3, <1>4, <1>5, <1>6, <1>7 DEF MultisigInv, KeepsSignatures

LEMMA ImportLineKeeps ==
    ASSUME MultisigInv, NEW f \in flows, ImportLine(f)
    PROVE  MultisigInv' /\ KeepsSignatures
<1> DEFINE signer == Head(f.lines)
<1>0. f.op = "import" /\ f.lines # <<>> /\ UNCHANGED <<tasks, processing, posts>>
  BY DEF ImportLine
<1>1. CASE flows' = (flows \ {f}) \cup {[f EXCEPT !.copy = f.copy, !.lines = Tail(@)]}
  BY <1>0, <1>1, FlowFacts, CopyKeeps
<1>2. CASE /\ signer \in f.copy.pending /\ IsApprovalMutable(f.copy)
           /\ flows' = (flows \ {f}) \cup
                {[f EXCEPT !.copy = MergeApproval(f.task, f.copy, signer), !.lines = Tail(@)]}
  <2> DEFINE merged == MergeApproval(f.task, f.copy, signer)
  <2>1. merged \in Task /\ TaskOK(f.task, merged) /\ f.copy.approved \subseteq merged.approved
    BY <1>2, FlowFacts, MergeApprovalOK
  <2>2. f.copy.status \notin Settled
    BY <1>2 DEF IsApprovalMutable, Settled
  <2> HIDE DEF merged
  <2> QED
    BY <1>0, <1>2, <2>1, <2>2, CopyKeeps DEF merged
<1>3. CASE flows' = flows \ {f}
  <2>1. flows' = {}
    BY <1>3 DEF MultisigInv, Exclusive
  <2> QED
    BY <1>0, <2>1 DEF MultisigInv, MultisigTypeOK, QuorumBacked, TaskOK, AssertTaskModel,
                      IsQuorumReached, Exclusive, FlowsEntitled, ConfirmedSettled, KeepsSignatures
<1> QED
  BY <1>1, <1>2, <1>3 DEF ImportLine

LEMMA ImportDoneKeeps ==
    ASSUME MultisigInv, NEW f \in flows, ImportDone(f)
    PROVE  MultisigInv' /\ KeepsSignatures
<1>1. Finish(f, f.copy) /\ posts' = posts
  BY DEF ImportDone
<1> QED
  BY <1>1, FlowFacts, FinishKeeps DEF MultisigInv, MultisigTypeOK

\* submitTaskOnChain starts, and ends with a receipt or an error.
LEMMA SubmitKeeps ==
    ASSUME MultisigInv, NEW t \in Tasks, Submit(t)
    PROVE  MultisigInv' /\ KeepsSignatures
<1>1. tasks[t] \in Task /\ TaskOK(t, tasks[t]) /\ posts' = posts
  BY DEF MultisigInv, MultisigTypeOK, QuorumBacked, Submit
<1>2. /\ tasks' \in [Tasks -> Task]
      /\ \A u \in Tasks : u # t => tasks'[u] = tasks[u]
      /\ tasks'[t].approved = tasks[t].approved /\ tasks'[t].pending = tasks[t].pending
  BY DEF MultisigInv, MultisigTypeOK, Submit, Task, Statuses
<1>3. IsQuorumReached(t, tasks[t]) /\ tasks[t].status \notin Settled
  BY DEF Submit, OffersSubmit, Settled
<1>4. TaskOK(t, tasks'[t])
  BY <1>1, <1>2, <1>3 DEF TaskOK, AssertTaskModel, IsQuorumReached
<1>5. Entitled([op |-> "submit", task |-> t, copy |-> tasks[t], lines |-> <<>>, attempt |-> 0])
  BY <1>3 DEF Entitled
<1>9. Begin("submit", t, tasks[t], <<>>) /\ ~processing
  BY DEF Submit
<1>10. <<>> \in Seq(Signers \cup {BadLine})
  OBVIOUS
<1> QED
  BY <1>9, <1>10, <1>1, <1>2, <1>3, <1>4, <1>5, BeginKeeps

\* Recording an answer adds it to the history of its task, or nothing.
LEMMA RecordKeeps ==
    ASSUME posts \in [Tasks -> Seq(Answers)], NEW t \in Tasks, NEW answer, Record(t, answer)
    PROVE  /\ posts' \in [Tasks -> Seq(Answers)]
           /\ \A u \in Tasks : u # t => posts'[u] = posts[u]
           /\ posts'[t] = posts[t] \/ posts'[t] = Append(posts[t], answer)
<1>1. CASE answer \in Answers
  <2>1. Append(posts[t], answer) \in Seq(Answers)
    BY <1>1
  <2>2. posts' = [posts EXCEPT ![t] = Append(posts[t], answer)]
    BY <1>1 DEF Record
  <2> QED
    BY <2>1, <2>2, Zenon
<1>2. CASE answer \notin Answers
  BY <1>2 DEF Record
<1> QED
  BY <1>1, <1>2

\* Another attempt: only the history and the number of the attempt change.
LEMMA RetryKeeps ==
    ASSUME MultisigInv, NEW f \in flows, NEW answer, Retry(f, answer)
    PROVE  MultisigInv' /\ KeepsSignatures
<1> DEFINE new == [f EXCEPT !.attempt = @ + 1]
<1>1. flows' = {new} /\ tasks' = tasks /\ processing' = processing
  BY DEF MultisigInv, Exclusive, Retry
<1>2. /\ new \in Flow /\ new.copy = f.copy /\ new.task = f.task /\ new.op = "submit"
  <2>1. f \in Flow /\ f.op = "submit"
    BY DEF MultisigInv, MultisigTypeOK, Retry
  <2>2. f.attempt + 1 \in Nat
    BY <2>1 DEF Flow
  <2> QED
    BY <2>1, <2>2 DEF Flow
<1> HIDE DEF new
<1>3. /\ posts' \in [Tasks -> Seq(Answers)]
      /\ \A u \in Tasks : u # f.task => posts'[u] = posts[u]
      /\ posts'[f.task] = posts[f.task] \/ posts'[f.task] = Append(posts[f.task], answer)
  BY RecordKeeps, FlowFacts DEF MultisigInv, MultisigTypeOK, Retry
<1>4. MultisigTypeOK'
  BY <1>1, <1>2, <1>3 DEF MultisigInv, MultisigTypeOK
<1>5. QuorumBacked'
  BY <1>1, <1>2 DEF MultisigInv, QuorumBacked, TaskOK, AssertTaskModel, IsQuorumReached
<1>6. Exclusive'
  BY <1>1, <1>2 DEF MultisigInv, Exclusive
<1>7. FlowsEntitled'
  BY <1>1, <1>2, FlowFacts DEF FlowsEntitled, Entitled, IsQuorumReached, Retry
<1>8. ConfirmedSettled'
  <2>1. \A i \in 1 .. Len(posts'[f.task]) : posts'[f.task][i] # "confirmed"
    BY <1>3, FlowFacts DEF Retry
  <2> QED
    BY <1>1, <1>2, <1>3, <2>1 DEF MultisigInv, ConfirmedSettled
<1> QED
  BY <1>1, <1>4, <1>5, <1>6, <1>7, <1>8 DEF MultisigInv, KeepsSignatures

\* The end of a submission: the copy with another status that needs a quorum.
LEMMA SubmitEndKeeps ==
    ASSUME MultisigInv, NEW f \in flows, f.op = "submit",
           NEW status \in {"ready", "submitted", "confirmed"},
           NEW answer, answer = "confirmed" => status = "confirmed",
           Record(f.task, answer),
           Finish(f, [f.copy EXCEPT !.status = status])
    PROVE  MultisigInv' /\ KeepsSignatures
<1> DEFINE task == [f.copy EXCEPT !.status = status]
<1>1. /\ task \in Task /\ task.status = status
      /\ task.approved = f.copy.approved /\ task.pending = f.copy.pending
  BY FlowFacts DEF Task, Statuses
<1>2. TaskOK(f.task, task)
  BY <1>1, FlowFacts DEF TaskOK, AssertTaskModel, Entitled, IsQuorumReached
<1>3. \A i \in 1 .. Len(posts[f.task]) : posts[f.task][i] # "confirmed"
  BY FlowFacts
<1>5. /\ posts' \in [Tasks -> Seq(Answers)]
      /\ \A u \in Tasks : u # f.task => posts'[u] = posts[u]
      /\ \/ posts'[f.task] = posts[f.task]
         \/ posts'[f.task] = Append(posts[f.task], answer)
  BY RecordKeeps, FlowFacts DEF MultisigInv, MultisigTypeOK
<1>6. \A i \in 1 .. Len(posts'[f.task]) : posts'[f.task][i] = "confirmed" =>
          i = Len(posts'[f.task]) /\ task.status \in Settled
  BY <1>1, <1>3, <1>5, FlowFacts DEF Settled
<1>7. Finish(f, task)
  OBVIOUS
<1> HIDE DEF task
<1> QED
  BY <1>1, <1>2, <1>5, <1>6, <1>7, FlowFacts, FinishKeeps

(***************************************************************************)
(* The theorems.                                                           *)
(***************************************************************************)

LEMMA InitInv == Init => MultisigInv
<1> SUFFICES ASSUME Init PROVE MultisigInv
  OBVIOUS
<1>1. MultisigTypeOK
  <2>1. posts \in [Tasks -> Seq(Answers)]
    BY DEF Init
  <2>2. tasks \in [Tasks -> Task] /\ flows \subseteq Flow
    BY SeedAssumption DEF Init
  <2>3. processing \in BOOLEAN
    BY Zenon DEF Init
  <2> QED
    BY <2>1, <2>2, <2>3, Zenon DEF MultisigTypeOK
<1>2. QuorumBacked
  BY SeedAssumption DEF Init, QuorumBacked, TaskOK
<1> QED
  BY <1>1, <1>2 DEF Init, MultisigInv, Exclusive, FlowsEntitled, ConfirmedSettled

LEMMA PackagesAreLines == Packages \subseteq Seq(Signers \cup {BadLine})
  BY MultisigBounds DEF Packages

LEMMA StepInv == MultisigInv /\ [Next]_multisigVars => MultisigInv' /\ KeepsSignatures
<1> SUFFICES ASSUME MultisigInv, [Next]_multisigVars PROVE MultisigInv' /\ KeepsSignatures
  OBVIOUS
<1>1. ASSUME NEW t \in Tasks, NEW signer \in Signers, Approve(t, signer)
      PROVE  MultisigInv' /\ KeepsSignatures
  BY <1>1, ApproveKeeps
<1>2. ASSUME NEW t \in Tasks, Reject(t)
      PROVE  MultisigInv' /\ KeepsSignatures
  BY <1>2, RejectKeeps
<1>3. ASSUME NEW t \in Tasks, NEW lines \in Packages, Import(t, lines)
      PROVE  MultisigInv' /\ KeepsSignatures
  BY <1>3, PackagesAreLines, ImportKeeps
<1>4. ASSUME NEW t \in Tasks, Submit(t)
      PROVE  MultisigInv' /\ KeepsSignatures
  BY <1>4, SubmitKeeps
<1>5. ASSUME NEW f \in flows, ApproveDone(f) \/ RejectDone(f) \/ ImportLine(f) \/ ImportDone(f)
      PROVE  MultisigInv' /\ KeepsSignatures
  BY <1>5, ApproveDoneKeeps, RejectDoneKeeps, ImportLineKeeps, ImportDoneKeeps
<1>6. ASSUME NEW f \in flows, NEW answer, SubmitDone(f, answer) \/ SubmitFailed(f, answer)
      PROVE  MultisigInv' /\ KeepsSignatures
  <2>1. CASE SubmitDone(f, answer)
    BY <2>1, SubmitEndKeeps DEF SubmitDone
  <2>2. CASE SubmitFailed(f, answer)
    BY <2>2, SubmitEndKeeps DEF SubmitFailed
  <2> QED
    BY <1>6, <2>1, <2>2
<1>7. ASSUME NEW f \in flows, NEW answer, Retry(f, answer)
      PROVE  MultisigInv' /\ KeepsSignatures
  BY <1>7, RetryKeeps
<1>8. CASE UNCHANGED multisigVars
  BY <1>8 DEF multisigVars, MultisigInv, MultisigTypeOK, QuorumBacked, TaskOK, AssertTaskModel,
              IsQuorumReached, Exclusive, FlowsEntitled, Entitled, ConfirmedSettled, KeepsSignatures
<1> QED
  BY <1>1, <1>2, <1>3, <1>4, <1>5, <1>6, <1>7, <1>8 DEF Next

LEMMA MultisigInvHolds == Spec => []MultisigInv
<1>1. MultisigInv /\ [Next]_multisigVars => MultisigInv'
  BY StepInv
<1> QED
  BY InitInv, <1>1, PTL DEF Spec

\* Tasks, copies and history keep their types, whatever is imported.
THEOREM MultisigTypeCorrect == Spec => []MultisigTypeOK
<1>1. MultisigInv => MultisigTypeOK
  BY DEF MultisigInv
<1> QED
  BY MultisigInvHolds, <1>1, PTL

\* No task, and no copy about to be written back, counts as ready, submitting,
\* submitted or confirmed without its threshold of registered signatures
\* (_isQuorumReached, _assertTaskModel).
THEOREM QuorumCorrect == Spec => []QuorumBacked
<1>1. MultisigInv => QuorumBacked
  BY DEF MultisigInv
<1> QED
  BY MultisigInvHolds, <1>1, PTL

\* The two theorems above together.
THEOREM WorkbenchCorrect == Spec => []WorkbenchSafe
BY MultisigTypeCorrect, QuorumCorrect, PTL DEF WorkbenchSafe

\* The workbench broadcasts a task that it knows to be confirmed never again.
THEOREM ConfirmedOnce == Spec => []ConfirmedIsLast
<1>1. MultisigInv => ConfirmedIsLast
  BY DEF MultisigInv, ConfirmedSettled, ConfirmedIsLast
<1> QED
  BY MultisigInvHolds, <1>1, PTL

\* No flow loses a signature that was collected: the copy it took before the
\* wait is never older than the task it overwrites.
THEOREM NoLostSignature == Spec => SignaturesKept
<1>1. MultisigInv /\ [Next]_multisigVars =>
         [\A t \in Tasks : tasks[t].approved \subseteq tasks'[t].approved]_multisigVars
  BY StepInv DEF KeepsSignatures
<1> QED
  BY MultisigInvHolds, <1>1, PTL DEF Spec, SignaturesKept
=============================================================================
