-------------------------- MODULE MultisigWorkbench --------------------------
(***************************************************************************)
(* The multisig workbench of the Flutter wallet (wallet-app-flutter/lib/   *)
(* state/multisig_store.dart) as its two pages drive it                    *)
(* (pages/multisig_approval_page.dart, offline_signature_import_page.dart).*)
(*                                                                         *)
(* Approving, rejecting, importing and submitting are asynchronous: each   *)
(* takes a copy of the task, waits (for a timer or for the chain's API)    *)
(* and writes the copy, changed, back over the task.  The flag processing  *)
(* is what keeps two such flows apart.                                     *)
(***************************************************************************)
EXTENDS Integers, Sequences, FiniteSets

CONSTANTS
    Tasks,       \* the multisig tasks
    Signers,     \* all signers
    signersOf,   \* signersOf[t]: the signers registered for task t
    threshold,   \* threshold[t]: how many of them must sign
    seed,        \* seed[t]: task t as the store is created with it
    BadLine,     \* a line of an offline package that is refused: malformed,
                 \* without a digest, with another digest or a bad signature
    maxRetries,  \* how often ChainApiClient repeats a request
    MaxLines,    \* bound: lines of an offline package
    MaxFlows,    \* bound: flows in progress
    MaxPosts     \* bound: broadcasts

Statuses == {"pending", "approving", "ready", "submitting", "submitted", "confirmed", "rejected"}

Task == [approved : SUBSET Signers, pending : SUBSET Signers, status : Statuses]

NeedsQuorum == {"ready", "submitting", "submitted", "confirmed"}

\* _isQuorumReached; collectedSigners is the length of approvedSigners.
IsQuorumReached(t, task) == Cardinality(task.approved) >= threshold[t]

\* _assertTaskModel: every registered signer is on exactly one of the lists.
AssertTaskModel(t, task) ==
    /\ task.approved \cap task.pending = {}
    /\ task.approved \cup task.pending = signersOf[t]

ASSUME TasksAssumption ==
    /\ signersOf \in [Tasks -> SUBSET Signers]
    /\ threshold \in [Tasks -> Nat \ {0}]
    /\ \A t \in Tasks : IsFiniteSet(signersOf[t]) /\ threshold[t] <= Cardinality(signersOf[t])
ASSUME SeedAssumption ==
    /\ seed \in [Tasks -> Task]
    /\ \A t \in Tasks :
         /\ AssertTaskModel(t, seed[t])
         /\ seed[t].status \in NeedsQuorum => IsQuorumReached(t, seed[t])
ASSUME RetriesAssumption == maxRetries \in Nat
ASSUME MultisigBounds == MaxLines \in Nat /\ MaxFlows \in Nat /\ MaxPosts \in Nat
ASSUME BadLineAssumption == BadLine \notin Signers

VARIABLES
    tasks,       \* the tasks of the workbench
    processing,  \* a flow holds the workbench
    flows,       \* the flows in progress
    posts        \* history: posts[t] is how each broadcast of task t was answered

multisigVars == <<tasks, processing, flows, posts>>

Flow == [op : {"approve", "reject", "import", "submit"}, task : Tasks, copy : Task,
         lines : Seq(Signers \cup {BadLine}), attempt : Nat]

\* How a broadcast that reached the chain API was answered: with a receipt of
\* code 0, with another code, with a status that asks to try again (429, 5xx),
\* or not at all.
Answers == {"confirmed", "submitted", "busy", "lost"}

\* What the pages offer: approving and rejecting while signers are pending,
\* whatever the status; submitting a ready or submitted task; importing into
\* any task.  Nothing while a flow is in progress.
OffersSigning(t) == ~processing /\ tasks[t].pending # {}
OffersSubmit(t) == ~processing /\ tasks[t].status \in {"ready", "submitted"}
OffersImport == ~processing

Begin(op, t, copy, lines) ==
    /\ Cardinality(flows) < MaxFlows
    /\ flows' = flows \cup {[op |-> op, task |-> t, copy |-> copy, lines |-> lines, attempt |-> 0]}
    /\ processing' = TRUE

\* The flow writes task back and releases the workbench.
Finish(f, task) ==
    /\ tasks' = [tasks EXCEPT ![f.task] = task]
    /\ flows' = flows \ {f}
    /\ processing' = FALSE

\* _isApprovalMutable.
IsApprovalMutable(task) ==
    task.status \notin {"rejected", "submitting", "submitted", "confirmed"}

\* Faulty variant: one signature is enough to be ready.
MergeApproval_AnyReady(t, task, signer) ==
    [approved |-> task.approved \cup {signer}, pending |-> task.pending \ {signer},
     status   |-> "ready"]

\* _mergeApproval, when the task is mutable and the signer pending.
MergeApproval(t, task, signer) ==
    LET approved == task.approved \cup {signer}
    IN  [approved |-> approved, pending |-> task.pending \ {signer},
         status   |-> IF Cardinality(approved) >= threshold[t] THEN "ready" ELSE "approving"]

(***************************************************************************)
(* approveTask.                                                            *)
(***************************************************************************)
\* Faulty variant: approving does not look whether another flow is in progress.
Approve_Unguarded(t, signer) ==
    /\ signer \in tasks[t].pending
    /\ Begin("approve", t, tasks[t], <<signer>>)
    /\ UNCHANGED <<tasks, posts>>

Approve(t, signer) ==
    /\ OffersSigning(t)
    /\ ~processing
    /\ signer \in tasks[t].pending
    /\ Begin("approve", t, tasks[t], <<signer>>)
    /\ UNCHANGED <<tasks, posts>>

\* After the delay the copy is merged and written back; a task that cannot be
\* approved any more is an error that the flow catches.
ApproveDone(f) ==
    /\ f.op = "approve"
    /\ Finish(f, IF IsApprovalMutable(f.copy) THEN MergeApproval(f.task, f.copy, f.lines[1])
                 ELSE tasks[f.task])
    /\ UNCHANGED posts

(***************************************************************************)
(* rejectTask.                                                             *)
(***************************************************************************)
Reject(t) ==
    /\ OffersSigning(t)
    /\ ~processing
    /\ Begin("reject", t, tasks[t], <<>>)
    /\ UNCHANGED <<tasks, posts>>

RejectDone(f) ==
    /\ f.op = "reject"
    /\ Finish(f, [f.copy EXCEPT !.status = "rejected"])
    /\ UNCHANGED posts

(***************************************************************************)
(* importOfflineSignatures.  Only the page looks at processing here.       *)
(***************************************************************************)
Import(t, lines) ==
    /\ OffersImport
    /\ lines # <<>>
    /\ Begin("import", t, tasks[t], lines)
    /\ UNCHANGED <<tasks, posts>>

\* The next line is refused, or its signer merged into the flow's copy; the
\* signer of an earlier line is not pending in the copy any more.  Merging
\* into a task that cannot be approved throws: nothing catches it, and
\* processing stays set.
ImportLine(f) ==
    LET signer == Head(f.lines)
        accepted == signer \in f.copy.pending
        next(copy) == [f EXCEPT !.copy = copy, !.lines = Tail(@)]
    IN  /\ f.op = "import" /\ f.lines # <<>>
        /\ \/ ~accepted /\ flows' = (flows \ {f}) \cup {next(f.copy)}
           \/ /\ accepted /\ IsApprovalMutable(f.copy)
              /\ flows' = (flows \ {f}) \cup {next(MergeApproval(f.task, f.copy, signer))}
           \/ accepted /\ ~IsApprovalMutable(f.copy) /\ flows' = flows \ {f}
        /\ UNCHANGED <<tasks, processing, posts>>

ImportDone(f) ==
    /\ f.op = "import" /\ f.lines = <<>>
    /\ Finish(f, f.copy)
    /\ UNCHANGED posts

(***************************************************************************)
(* submitTaskOnChain.                                                      *)
(***************************************************************************)
\* Faulty variant: the page also offers it for a confirmed task, and the store
\* does not refuse.
Submit_Again(t) ==
    /\ ~processing
    /\ tasks[t].status \in {"ready", "submitted", "confirmed"}
    /\ IsQuorumReached(t, tasks[t])
    /\ Len(posts[t]) + maxRetries < MaxPosts
    /\ tasks' = [tasks EXCEPT ![t].status = "submitting"]
    /\ Begin("submit", t, tasks[t], <<>>)
    /\ UNCHANGED posts

\* The store refuses a confirmed task.  The task is shown as submitting while
\* the flow waits.
Submit(t) ==
    /\ OffersSubmit(t)
    /\ ~processing
    /\ IsQuorumReached(t, tasks[t])
    /\ tasks[t].status # "confirmed"
    /\ Len(posts[t]) + maxRetries < MaxPosts
    /\ tasks' = [tasks EXCEPT ![t].status = "submitting"]
    /\ Begin("submit", t, tasks[t], <<>>)
    /\ UNCHANGED posts

Record(t, answer) ==
    posts' = IF answer \in Answers THEN [posts EXCEPT ![t] = Append(@, answer)] ELSE posts

\* The receipt: code 0, or none at all, counts as confirmed, any other code as
\* submitted.
SubmitDone(f, answer) ==
    /\ f.op = "submit"
    /\ answer \in {"confirmed", "submitted"}
    /\ Record(f.task, answer)
    /\ Finish(f, [f.copy EXCEPT !.status = answer])

\* _executeWithRetry sends the same broadcast again: after a status that asks
\* for it, when the API was not reached, and when the answer did not come.
Retry(f, answer) ==
    /\ f.op = "submit"
    /\ answer \in {"busy", "lost", "unreached"}
    /\ f.attempt < maxRetries
    /\ Record(f.task, answer)
    /\ flows' = (flows \ {f}) \cup {[f EXCEPT !.attempt = @ + 1]}
    /\ UNCHANGED <<tasks, processing>>

\* The last attempt failed, or failed in a way that is not tried again (another
\* status, an answer that cannot be read, no indexer state to begin with): the
\* task is ready as before.
SubmitFailed(f, answer) ==
    /\ f.op = "submit"
    /\ answer \in {"busy", "lost", "unreached", "refused"}
    /\ answer \in {"refused", "lost"} \/ f.attempt >= maxRetries
    /\ Record(f.task, answer)
    /\ Finish(f, [f.copy EXCEPT !.status = "ready"])

Init ==
    /\ tasks = seed
    /\ processing = FALSE
    /\ flows = {}
    /\ posts = [t \in Tasks |-> <<>>]

Packages == UNION {[1 .. n -> Signers \cup {BadLine}] : n \in 1 .. MaxLines}

Next ==
    \/ \E t \in Tasks :
         \/ \E signer \in Signers : Approve(t, signer)
         \/ Reject(t)
         \/ \E lines \in Packages : Import(t, lines)
         \/ Submit(t)
    \/ \E f \in flows :
         \/ ApproveDone(f)
         \/ RejectDone(f)
         \/ ImportLine(f)
         \/ ImportDone(f)
         \/ \E answer \in Answers \cup {"unreached", "refused"} :
              \/ SubmitDone(f, answer)
              \/ Retry(f, answer)
              \/ SubmitFailed(f, answer)

Spec == Init /\ [][Next]_multisigVars

(***************************************************************************)
(* Properties.                                                             *)
(***************************************************************************)
\* Type invariant: only registered names, and never a refused line, get onto
\* the signer lists of a task or of a flow's copy.
MultisigTypeOK ==
    /\ tasks \in [Tasks -> Task]
    /\ processing \in BOOLEAN
    /\ flows \subseteq Flow
    /\ posts \in [Tasks -> Seq(Answers)]

TaskOK(t, task) ==
    /\ AssertTaskModel(t, task)
    /\ task.status \in NeedsQuorum => IsQuorumReached(t, task)

\* Every task, and every copy that a flow is about to write back, passes the
\* check of _assertTaskModel (so no flow ever fails on it), and is ready,
\* submitting, submitted or confirmed only with as many signatures as its
\* threshold asks for.
QuorumBacked ==
    /\ \A t \in Tasks : TaskOK(t, tasks[t])
    /\ \A f \in flows : TaskOK(f.task, f.copy)

\* Tasks and the copies of the flows are well formed and backed by signatures.
WorkbenchSafe == MultisigTypeOK /\ QuorumBacked

\* A collected signature is never lost: no flow writes back a copy that is
\* older than a signature another flow has added in the meantime.
SignaturesKept ==
    [][\A t \in Tasks : tasks[t].approved \subseteq tasks'[t].approved]_multisigVars

\* Once the chain has confirmed a task and the workbench knows it, the task is
\* not broadcast again, not even after it has been rejected or imported into.
ConfirmedIsLast ==
    \A t \in Tasks : \A i \in 1 .. Len(posts[t]) :
        posts[t][i] = "confirmed" => i = Len(posts[t])

=============================================================================
