--------------------------- MODULE IndexerPipeline ---------------------------
(***************************************************************************)
(* The indexer process (soulon-backend/internal/indexer/worker.go and      *)
(* queue.go, started by cmd/indexer/main.go): three goroutines around the  *)
(* file-backed store.                                                      *)
(*                                                                         *)
(*   Run           every tick, makes one or two events and publishes them  *)
(*                 to the queue; returns when the consumer has failed      *)
(*   MemoryQueue   Consume's goroutine moves one event at a time from the  *)
(*                 buffered channel to the consumer                        *)
(*   consumeLoop   upserts each event, retrying a failed upsert, and       *)
(*                 notifies the webhook of each event that was new         *)
(*                                                                         *)
(* A crash, or a return from Run, ends all three, and a restart starts     *)
(* from height 1 with an empty queue over the file that is left.           *)
(***************************************************************************)
EXTENDS FileEventStore

CONSTANTS
    mainName,           \* mainName[h] is "block-<h>-a"
    forkName,           \* forkName[h] is "block-<h>-b"
    ReorgInterval,      \* simulate a reorg at these heights; 0 for never
    QueueBuffer,        \* the capacity of the memory queue
    PersistMaxRetries,  \* attempts to upsert an event
    PersistFailurePolicies  \* the policies that the operator may choose

ASSUME PipelineAssumption ==
    /\ mainName \in [Heights -> Names] /\ forkName \in [Heights -> Names]
    /\ ReorgInterval \in Nat
    /\ QueueBuffer \in Nat \ {0}
    /\ PersistMaxRetries \in Nat \ {0}
    /\ PersistFailurePolicies \subseteq {"stop", "skip"}

VARIABLES
    nextHeight,    \* Run: the next height to make
    hashByHeight,  \* Run: the hash it has given to each height
    outbox,        \* Run: events of this tick that are still to be published
    queue,         \* the buffered channel
    hand,          \* the event Consume's goroutine is handing over, if any
    phase,         \* what consumeLoop is doing
    current,       \* the event it is working on
    attempt,       \* which attempt to upsert it
    announced,     \* the last event that reached the webhook
    policy         \* PersistFailurePolicy

workerVars == <<nextHeight, hashByHeight, outbox, queue, hand, phase, current, attempt, announced>>
pipelineVars == <<storeVars, workerVars, policy>>

Phases == {"idle", "call", "writing", "notify", "failed"}

NoHashes == [h \in Heights \cup {0} |-> NoName]

NewBlock(name, height, parent) ==
    [id |-> name, height |-> height, hash |-> name, parent |-> parent]

(***************************************************************************)
(* Run.                                                                    *)
(***************************************************************************)
ReorgAt(h) == ReorgInterval > 0 /\ h > 2 /\ h % ReorgInterval = 0

MainBlock(h) == NewBlock(mainName[h], h, hashByHeight[h - 1])

\* Faulty variant: the fork block names the block it replaces as its parent.
GenerateTickEvents_WrongParent(h) ==
    LET hashes == [hashByHeight EXCEPT ![h] = mainName[h]]
    IN  IF ReorgAt(h)
        THEN [events |-> <<MainBlock(h), NewBlock(forkName[h - 1], h - 1, hashes[h - 1])>>,
              hashes |-> [hashes EXCEPT ![h - 1] = forkName[h - 1], ![h] = NoName],
              next   |-> h]
        ELSE [events |-> <<MainBlock(h)>>, hashes |-> hashes, next |-> h + 1]

\* Faulty variant: the replacing block is made on branch a as well.
GenerateTickEvents_SameBranch(h) ==
    LET hashes == [hashByHeight EXCEPT ![h] = mainName[h]]
    IN  IF ReorgAt(h)
        THEN [events |-> <<MainBlock(h), NewBlock(mainName[h - 1], h - 1, hashes[h - 2])>>,
              hashes |-> [hashes EXCEPT ![h] = NoName],
              next   |-> h]
        ELSE [events |-> <<MainBlock(h)>>, hashes |-> hashes, next |-> h + 1]

\* generateTickEvents: the block at the next height; at a simulated reorg also
\* one on branch b that replaces the block below, and the same height again.
GenerateTickEvents(h) ==
    LET hashes == [hashByHeight EXCEPT ![h] = mainName[h]]
    IN  IF ReorgAt(h)
        THEN [events |-> <<MainBlock(h), NewBlock(forkName[h - 1], h - 1, hashes[h - 2])>>,
              hashes |-> [hashes EXCEPT ![h - 1] = forkName[h - 1], ![h] = NoName],
              next   |-> h]
        ELSE [events |-> <<MainBlock(h)>>, hashes |-> hashes, next |-> h + 1]

\* A tick of Run's loop.  (The guard on nextHeight is the bound on heights.)
Tick ==
    /\ Ready /\ outbox = <<>>
    /\ nextHeight \in Heights
    /\ outbox' = GenerateTickEvents(nextHeight).events
    /\ hashByHeight' = GenerateTickEvents(nextHeight).hashes
    /\ nextHeight' = GenerateTickEvents(nextHeight).next
    /\ UNCHANGED <<storeVars, queue, hand, phase, current, attempt, announced>>

\* Publish waits for room in the queue; nothing but the end of the process
\* interrupts it.
Publish ==
    /\ up /\ outbox # <<>>
    /\ Len(queue) < QueueBuffer
    /\ queue' = Append(queue, Head(outbox))
    /\ outbox' = Tail(outbox)
    /\ UNCHANGED <<storeVars, nextHeight, hashByHeight, hand, phase, current, attempt, announced>>

(***************************************************************************)
(* The goroutine of MemoryQueue.Consume.                                   *)
(***************************************************************************)
Forward ==
    /\ up /\ hand = <<>> /\ queue # <<>>
    /\ hand' = <<Head(queue)>>
    /\ queue' = Tail(queue)
    /\ UNCHANGED <<storeVars, nextHeight, hashByHeight, outbox, phase, current, attempt, announced>>

(***************************************************************************)
(* consumeLoop and persistWithRetry.                                       *)
(***************************************************************************)
Receive ==
    /\ up /\ phase = "idle" /\ hand # <<>>
    /\ current' = hand[1]
    /\ hand' = <<>>
    /\ phase' = "call"
    /\ attempt' = 1
    /\ UNCHANGED <<storeVars, nextHeight, hashByHeight, outbox, queue, announced>>

\* Faulty variant: a duplicate is notified as if it were new.
SkipDuplicate_Notify ==
    /\ up /\ phase = "call"
    /\ Normalise(current).id \in mem.seen
    /\ phase' = "notify"
    /\ UNCHANGED <<storeVars, nextHeight, hashByHeight, outbox, queue, hand, current, attempt, announced>>

\* Upsert returns false: a duplicate.
SkipDuplicate ==
    /\ up /\ phase = "call"
    /\ Normalise(current).id \in mem.seen
    /\ phase' = "idle"
    /\ current' = NoBlock
    /\ UNCHANGED <<storeVars, nextHeight, hashByHeight, outbox, queue, hand, attempt, announced>>

BeginUpsert ==
    /\ phase = "call"
    /\ UpsertBlock(current)
    /\ phase' = "writing"
    /\ UNCHANGED <<nextHeight, hashByHeight, outbox, queue, hand, current, attempt, announced>>

\* Faulty variant: the policy is not looked at.
UpsertFailed_AlwaysStop ==
    \/ /\ attempt < PersistMaxRetries
       /\ attempt' = attempt + 1
       /\ phase' = "call"
       /\ UNCHANGED current
    \/ /\ attempt = PersistMaxRetries
       /\ phase' = "failed"
       /\ current' = NoBlock
       /\ UNCHANGED attempt

\* Upsert returned an error: try again; or, after the last attempt, go on with
\* the next event (skip) or send the error to Run and end consumeLoop (stop).
\* MemoryQueue's dead letters and pauses do nothing.
UpsertFailed ==
    \/ /\ attempt < PersistMaxRetries
       /\ attempt' = attempt + 1
       /\ phase' = "call"
       /\ UNCHANGED current
    \/ /\ attempt = PersistMaxRetries
       /\ phase' = IF policy = "skip" THEN "idle" ELSE "failed"
       /\ current' = NoBlock
       /\ UNCHANGED attempt

PersistRollback(outcome) ==
    /\ phase = "writing"
    /\ WriteRollback(outcome)
    /\ IF outcome = "written" THEN UNCHANGED <<phase, current, attempt>> ELSE UpsertFailed
    /\ UNCHANGED <<nextHeight, hashByHeight, outbox, queue, hand, announced>>

PersistBlock(outcome) ==
    /\ phase = "writing"
    /\ WriteBlock(outcome)
    /\ IF outcome = "written"
       THEN phase' = "notify" /\ UNCHANGED <<current, attempt>>
       ELSE UpsertFailed
    /\ UNCHANGED <<nextHeight, hashByHeight, outbox, queue, hand, announced>>

\* Notify: the webhook gets the event, or all attempts fail; either way
\* consumeLoop goes on.
Notify(delivered) ==
    /\ up /\ phase = "notify"
    /\ announced' = IF delivered THEN current ELSE announced
    /\ phase' = "idle"
    /\ current' = NoBlock
    /\ UNCHANGED <<storeVars, nextHeight, hashByHeight, outbox, queue, hand, attempt>>

(***************************************************************************)
(* The end of the process, and its restart.                                *)
(***************************************************************************)
NewWorker ==
    /\ nextHeight' = 1
    /\ hashByHeight' = NoHashes
    /\ outbox' = <<>>
    /\ queue' = <<>>
    /\ hand' = <<>>
    /\ phase' = "idle"
    /\ current' = NoBlock
    /\ attempt' = 0
    /\ UNCHANGED announced

\* Run is back in its select and takes the consumer's error: main exits.
RunReturns ==
    /\ Ready /\ outbox = <<>> /\ phase = "failed"
    /\ Stop
    /\ UNCHANGED <<torn, crashes>>
    /\ NewWorker

ProcessCrash == Crash /\ NewWorker

Start == Open /\ UNCHANGED workerVars

Load == LoadSeen /\ UNCHANGED workerVars

Init ==
    /\ StoreInit
    /\ nextHeight = 1
    /\ hashByHeight = NoHashes
    /\ outbox = <<>>
    /\ queue = <<>>
    /\ hand = <<>>
    /\ phase = "idle"
    /\ current = NoBlock
    /\ attempt = 0
    /\ announced = NoBlock
    /\ policy \in PersistFailurePolicies

Consumer ==
    \/ Receive
    \/ SkipDuplicate
    \/ BeginUpsert
    \/ \E outcome \in Outcomes : PersistRollback(outcome) \/ PersistBlock(outcome)
    \/ \E delivered \in BOOLEAN : Notify(delivered)

Next ==
    /\ \/ Tick \/ Publish \/ Forward \/ Consumer
       \/ RunReturns \/ ProcessCrash \/ Start \/ Load
    /\ UNCHANGED policy

Spec == Init /\ [][Next]_pipelineVars

\* Go runs every goroutine that can run.  Run's select picks at random among
\* the cases that are ready, so an error that waits there is taken in the end
\* although ticks keep coming.  Nothing obliges anyone to restart the process.
FairSpec ==
    /\ Spec
    /\ WF_pipelineVars(Load /\ UNCHANGED policy)
    /\ WF_pipelineVars((Tick \/ Publish) /\ UNCHANGED policy)
    /\ WF_pipelineVars(Forward /\ UNCHANGED policy)
    /\ WF_pipelineVars(Consumer /\ UNCHANGED policy)
    /\ SF_pipelineVars(RunReturns /\ UNCHANGED policy)

(***************************************************************************)
(* Properties.                                                             *)
(***************************************************************************)
\* The worker's state is well formed and within its limits: the queue never
\* exceeds its buffer, no event is tried more often than configured, and
\* consumeLoop holds an event exactly while it works on one.
PipelineTypeOK ==
    /\ nextHeight \in Nat \ {0}
    /\ hashByHeight \in [Heights \cup {0} -> MaybeName]
    /\ outbox \in Seq(Event) /\ Len(outbox) <= 2
    /\ queue \in Seq(Event) /\ Len(queue) <= QueueBuffer
    /\ hand \in Seq(Event) /\ Len(hand) <= 1
    /\ phase \in Phases
    /\ current \in Event \cup {NoBlock} /\ (current = NoBlock <=> phase \in {"idle", "failed"})
    /\ attempt \in 0 .. PersistMaxRetries
    /\ announced \in Event \cup {NoBlock}
    /\ policy \in PersistFailurePolicies

\* The file never holds two neighbouring blocks of different branches: where a
\* block stands at height h and another at h + 1, the upper one names the
\* lower one as its parent.  Upsert alone does not ensure this (a fork block
\* replaces the block at its own height whatever lies below); it takes the
\* events that the worker makes, whatever of them is lost, retried, skipped or
\* sent again after a restart.
ChainLinked ==
    LET live == LiveBlocks(log, Len(log))
    IN  \A b, c \in live : c.height = b.height + 1 => c.parent = b.hash

\* The webhook is told of a block only when that block is the tip of the
\* index: never of a duplicate, and never of one that could not be stored.
AnnouncesTip ==
    [][announced' # announced =>
          announced'.height = mem'.tipHeight /\ announced'.hash = mem'.tipHash]_pipelineVars

\* The index never grows past the first height at which a reorg is simulated:
\* generateTickEvents returns to that height after each one.
TipPinned ==
    \A h \in Heights : ReorgAt(h) => mem.tipHeight <= h

\* What the worker's order of events, its retries and its restarts preserve.
PipelineSafe == PipelineTypeOK /\ ChainLinked /\ TipPinned

\* With policy skip, Run is never stuck in Publish: the consumer always makes
\* room again, whatever fails.
PublishGetsThrough == policy = "skip" /\ outbox # <<>> ~> outbox = <<>>

\* With policy skip, the reorg reaches the index: in the end, unless the
\* process is down, the fork block and its child stay there, even if earlier
\* attempts to store them were given up or a crash interrupted them.
ReorgConverges ==
    \A h \in Heights :
        (ReorgAt(h) /\ \A k \in Heights : k < h => ~ReorgAt(k)) =>
            <>[](policy = "stop" \/ ~up \/ \E b, c \in mem.chain :
                            /\ b.hash = forkName[h - 1]
                            /\ c.height = h /\ c.parent = b.hash)

=============================================================================
